------------------------------ MODULE Threads ------------------------------
(***************************************************************************)
(* Kernel threads on several CPUs: blocking, waking and switching          *)
(* (threads/thread.c), the ready queues, spinlocks and interrupts they     *)
(* rest on (threads/scheduler.c, spinlock.c, interrupt.c, ipi.c), the      *)
(* semaphore, lock and condition variable made from them                   *)
(* (threads/synch.c), and two interrupts that wake threads: the timer's    *)
(* (devices/timer.c) and the disk's (devices/ide.c).                       *)
(*                                                                         *)
(* A context, a thread or a CPU's interrupt handler, has a list of steps   *)
(* to do; a call puts its steps there.  Interrupts of a CPU are off while  *)
(* it holds a spinlock, handles an interrupt, or its idle thread looks for *)
(* work.  Spinning is a step that waits for the spinlock to be free.  A    *)
(* critical section that takes no further spinlock is one step.            *)
(*                                                                         *)
(* Which ready thread runs next, and when a tick ends a time slice, is     *)
(* left open here: this is the arithmetic of virtual runtimes.             *)
(***************************************************************************)
EXTENDS Integers, Sequences, FiniteSets, SequencesExt

CONSTANTS Threads,
          ncpu,      \* the number of CPUs
          NoThread, Idle, NoCpu,
          MaxSleep,  \* bound: the longest sleep asked for, in ticks
          Programs   \* scenarios: what calls each thread may make

ASSUME CpuAssumption == ncpu \in Nat \ {0}

CPUs == 0 .. ncpu - 1

\* The CPU that keeps the time and takes the disk's interrupts.
Cpu0 == 0

VARIABLES program,   \* the scenario
          status,    \* t->status, "none" if there is no such thread
          cpu,       \* t->cpu
          next_cpu,  \* the CPU of the next new thread, next_tid % ncpu
          curr,      \* the thread a CPU runs, or Idle
          idle_at,   \* where a CPU's idle thread is or will go on
          ready,     \* a CPU's ready_list; its order does not matter
          rq_lock,   \* rq.lock is held (by its CPU: others hold it for a step)
          spin,      \* the CPU that holds each other spinlock
          yield,     \* yield_on_return
          ipi,       \* an IPI_SCHEDULE is pending
          sema,      \* value and waiters of each semaphore
          holder,    \* lock->holder
          cond,      \* the condition's waiters
          when,      \* ticks left until this_wait.when, never below -1
          sleepers,  \* waiting_threads
          disk,      \* a command was issued and has not completed
          todo       \* the steps left of each thread's call and CPU's handler

switching == <<status, curr, ready>>
home == <<cpu, next_cpu>>
flags == <<yield, ipi>>
timer == <<when, sleepers>>
monitor == <<holder, cond>>
vars == <<program, switching, home, idle_at, rq_lock, spin, flags, sema, monitor,
          timer, disk, todo>>

\* The lock's semaphore, the disk's completion_wait, and for each thread the
\* semaphore of its semaphore_elem in cond_wait.
Semas == {"lock", "disk"} \cup Threads
SpinLocks == Semas \cup {"sleepers"}

Calls == {"lock_acquire", "lock_try_acquire", "lock_release", "cond_wait",
          "cond_signal", "cond_broadcast", "timer_sleep", "ide_read",
          "thread_create", "thread_exit"}

\* Definitions named Mutant... are faulty variants of the definition that
\* follows; no specification uses them.

-----------------------------------------------------------------------------
\* The context that a CPU executes: the handler if there is one.
Context(c) == IF todo[c] # << >> \/ curr[c] = Idle THEN c ELSE curr[c]

Doing(c, step) == LET x == todo[Context(c)] IN x # << >> /\ Head(x)[1] = step
Arg(c) == Head(todo[Context(c)])[2]
Rest(c) == Tail(todo[Context(c)])
GoOn(c, steps) == todo' = [todo EXCEPT ![Context(c)] = steps]

\* Interrupts are enabled on c: nothing pushed them off.
IntrOn(c) ==
  /\ todo[c] = << >>
  /\ ~rq_lock[c]
  /\ \A l \in SpinLocks : spin[l] # c
  /\ ~(curr[c] = Idle /\ idle_at[c] = "block")

\* Thread t runs on c, in no call.
Calling(c, t, call) ==
  /\ curr[c] = t /\ t # Idle
  /\ todo[c] = << >> /\ todo[t] = << >>
  /\ call \in program[t]

acquire == << <<"down", "lock">>, <<"own">> >>
up(s) == << <<"up", s>>, <<"check">> >>

Init ==
  /\ program \in Programs
  /\ \E main \in Threads :
       /\ status = [t \in Threads |-> IF t = main THEN "running" ELSE "none"]
       /\ curr = [c \in CPUs |-> IF c = Cpu0 THEN main ELSE Idle]
  /\ cpu = [t \in Threads |-> Cpu0]
  /\ next_cpu \in CPUs
  /\ idle_at = [c \in CPUs |-> "block"]
  /\ ready = [c \in CPUs |-> {}]
  /\ rq_lock = [c \in CPUs |-> FALSE]
  /\ spin = [l \in SpinLocks |-> NoCpu]
  /\ yield = [c \in CPUs |-> FALSE]
  /\ ipi = [c \in CPUs |-> FALSE]
  /\ sema = [s \in Semas |->
               [value |-> IF s = "lock" THEN 1 ELSE 0, waiters |-> << >>]]
  /\ holder = NoThread
  /\ cond = << >>
  /\ when = [t \in Threads |-> -1]
  /\ sleepers = << >>
  /\ disk = FALSE
  /\ todo = [x \in Threads \cup CPUs |-> << >>]

-----------------------------------------------------------------------------
(***************************************************************************)
(* Switching threads.                                                      *)
(***************************************************************************)

\* schedule on c, whose ready list is S, for a thread that leaves with a new
\* status: one of S runs next, or the idle thread.
schedule(c, S, left) ==
  \/ /\ S = {}
     /\ curr' = [curr EXCEPT ![c] = Idle]
     /\ ready' = [ready EXCEPT ![c] = S]
     /\ status' = left
  \/ \E next \in S :
       /\ curr' = [curr EXCEPT ![c] = next]
       /\ ready' = [ready EXCEPT ![c] = S \ {next}]
       /\ status' = [left EXCEPT ![next] = "running"]

\* thread_yield.  The idle thread is never on the ready list.
thread_yield(c) ==
  LET t == curr[c] IN
  /\ ~rq_lock[c]
  /\ IF t = Idle THEN schedule(c, ready[c], status)
     ELSE schedule(c, ready[c] \cup {t}, [status EXCEPT ![t] = "ready"])

\* thread_unblock called on c: the CPU of t is asked to reschedule.
thread_unblock(c, t) ==
  /\ ~rq_lock[cpu[t]]
  /\ status' = [status EXCEPT ![t] = "ready"]
  /\ ready' = [ready EXCEPT ![cpu[t]] = @ \cup {t}]
  /\ yield' = [yield EXCEPT ![c] = @ \/ cpu[t] = c]
  /\ ipi' = [ipi EXCEPT ![cpu[t]] = @ \/ cpu[t] # c]
  /\ UNCHANGED curr

\* thread_block up to the switch: the ready queue is locked before the caller's
\* spinlock is given up.
BlockLock(c) ==
  /\ Doing(c, "block")
  /\ ~rq_lock[c]
  /\ rq_lock' = [rq_lock EXCEPT ![c] = TRUE]
  /\ spin' = [spin EXCEPT ![Arg(c)] = NoCpu]
  /\ GoOn(c, Rest(c))
  /\ UNCHANGED <<program, switching, home, idle_at, flags, sema, monitor, timer,
                 disk>>

BlockSwitch(c) ==
  /\ Doing(c, "switch")
  /\ schedule(c, ready[c], [status EXCEPT ![curr[c]] = "blocked"])
  /\ rq_lock' = [rq_lock EXCEPT ![c] = FALSE]
  /\ GoOn(c, Rest(c))
  /\ UNCHANGED <<program, home, idle_at, spin, flags, sema, monitor, timer, disk>>

\* The loop of the idle thread: thread_block (NULL), and when it runs again,
\* "sti; hlt".
IdleBlock(c) ==
  /\ curr[c] = Idle /\ idle_at[c] = "block" /\ todo[c] = << >>
  /\ ~rq_lock[c]
  /\ schedule(c, ready[c], status)
  /\ idle_at' = [idle_at EXCEPT ![c] = "halt"]
  /\ UNCHANGED <<program, home, rq_lock, spin, flags, sema, monitor, timer, disk,
                 todo>>

\* do_thread_create, which gives u the next tid, and wake_up_new_thread in one
\* step: new threads go to the CPUs in turn (choose_cpu_for_new_thread), and nobody
\* is asked to reschedule. The bond made in between is ProcessBond's; a failed
\* allocation changes nothing here.
do_thread_create(c, t, u) ==
  /\ Calling(c, t, "thread_create")
  /\ status[u] = "none" /\ program[u] # {}
  /\ ~rq_lock[next_cpu]
  /\ status' = [status EXCEPT ![u] = "ready"]
  /\ cpu' = [cpu EXCEPT ![u] = next_cpu]
  /\ next_cpu' = (next_cpu + 1) % ncpu
  /\ ready' = [ready EXCEPT ![next_cpu] = @ \cup {u}]
  /\ UNCHANGED <<program, curr, idle_at, rq_lock, spin, flags, sema, monitor, timer,
                 disk, todo>>

\* do_thread_exit; the next thread frees the page in thread_schedule_tail.
thread_exit(c, t) ==
  /\ Calling(c, t, "thread_exit")
  /\ holder # t
  /\ ~rq_lock[c]
  /\ schedule(c, ready[c], [status EXCEPT ![t] = "none"])
  /\ UNCHANGED <<program, home, idle_at, rq_lock, spin, flags, sema, monitor, timer,
                 disk, todo>>

-----------------------------------------------------------------------------
(***************************************************************************)
(* Semaphores, the lock and the condition variable.                        *)
(***************************************************************************)

\* sema_down, also when it goes round its loop after thread_block.
SemaDown(c) ==
  /\ Doing(c, "down")
  /\ spin[Arg(c)] = NoCpu
  /\ \/ /\ sema[Arg(c)].value > 0
        /\ sema' = [sema EXCEPT ![Arg(c)].value = @ - 1]
        /\ GoOn(c, Rest(c))
        /\ UNCHANGED spin
     \/ /\ sema[Arg(c)].value = 0
        /\ sema' = [sema EXCEPT ![Arg(c)].waiters = Append(@, curr[c])]
        /\ spin' = [spin EXCEPT ![Arg(c)] = c]
        /\ GoOn(c, << <<"block", Arg(c)>>, <<"switch">> >> \o todo[Context(c)])
  /\ UNCHANGED <<program, switching, home, idle_at, rq_lock, flags, monitor, timer,
                 disk>>

MutantWakesNobody(c) ==
  /\ Doing(c, "up")
  /\ spin[Arg(c)] = NoCpu
  /\ sema' = [sema EXCEPT ![Arg(c)].value = @ + 1]
  /\ GoOn(c, Rest(c))
  /\ UNCHANGED <<program, switching, home, idle_at, rq_lock, spin, flags, monitor,
                 timer, disk>>

\* sema_up until it has found the waiter to wake; all of it if there is none.
SemaUp(c) ==
  /\ Doing(c, "up")
  /\ spin[Arg(c)] = NoCpu
  /\ \/ /\ sema[Arg(c)].waiters = << >>
        /\ sema' = [sema EXCEPT ![Arg(c)].value = @ + 1]
        /\ GoOn(c, Rest(c))
        /\ UNCHANGED spin
     \/ /\ sema[Arg(c)].waiters # << >>
        /\ sema' = [sema EXCEPT ![Arg(c)].waiters = Tail(@)]
        /\ spin' = [spin EXCEPT ![Arg(c)] = c]
        /\ GoOn(c, << <<"wake", Arg(c), Head(sema[Arg(c)].waiters)>> >> \o Rest(c))
  /\ UNCHANGED <<program, switching, home, idle_at, rq_lock, flags, monitor, timer,
                 disk>>

\* The thread that a "wake" step of c wakes.
Woken(c) == Head(todo[Context(c)])[3]

\* The rest of sema_up.
SemaWake(c) ==
  /\ Doing(c, "wake")
  /\ thread_unblock(c, Woken(c))
  /\ sema' = [sema EXCEPT ![Arg(c)].value = @ + 1]
  /\ spin' = [spin EXCEPT ![Arg(c)] = NoCpu]
  /\ GoOn(c, Rest(c))
  /\ UNCHANGED <<program, home, idle_at, rq_lock, monitor, timer, disk>>

\* intr_yield_if_requested at the end of sema_up; a handler returns at once.
YieldIfRequested(c) ==
  /\ Doing(c, "check")
  /\ \/ /\ yield[c]
        /\ yield' = [yield EXCEPT ![c] = FALSE]
        /\ thread_yield(c)
     \/ /\ ~yield[c]
        /\ UNCHANGED <<yield, switching>>
  /\ GoOn(c, Rest(c))
  /\ UNCHANGED <<program, home, idle_at, rq_lock, spin, ipi, sema, monitor, timer,
                 disk>>

lock_acquire(c, t) ==
  /\ Calling(c, t, "lock_acquire")
  /\ holder # t
  /\ GoOn(c, acquire)
  /\ UNCHANGED <<program, switching, home, idle_at, rq_lock, spin, flags, sema,
                 monitor, timer, disk>>

\* lock_acquire and lock_try_acquire name the holder after sema_down returns.
LockOwn(c) ==
  /\ Doing(c, "own")
  /\ holder' = curr[c]
  /\ GoOn(c, Rest(c))
  /\ UNCHANGED <<program, switching, home, idle_at, rq_lock, spin, flags, sema, cond,
                 timer, disk>>

\* lock_try_acquire when sema_try_down succeeds; a failure changes nothing.
lock_try_acquire(c, t) ==
  /\ Calling(c, t, "lock_try_acquire")
  /\ holder # t
  /\ spin["lock"] = NoCpu
  /\ sema["lock"].value > 0
  /\ sema' = [sema EXCEPT !["lock"].value = @ - 1]
  /\ GoOn(c, << <<"own">> >>)
  /\ UNCHANGED <<program, switching, home, idle_at, rq_lock, spin, flags, monitor,
                 timer, disk>>

lock_release(c, t) ==
  /\ Calling(c, t, "lock_release")
  /\ holder = t
  /\ holder' = NoThread
  /\ GoOn(c, up("lock"))
  /\ UNCHANGED <<program, switching, home, idle_at, rq_lock, spin, flags, sema, cond,
                 timer, disk>>

MutantNoReacquire(c, t) ==
  /\ Calling(c, t, "cond_wait")
  /\ holder = t
  /\ sema' = [sema EXCEPT ![t] = [value |-> 0, waiters |-> << >>]]
  /\ cond' = Append(cond, t)
  /\ holder' = NoThread
  /\ GoOn(c, up("lock") \o << <<"down", t>>, <<"own">> >>)
  /\ UNCHANGED <<program, switching, home, idle_at, rq_lock, spin, flags, timer, disk>>

\* cond_wait; up to lock->holder = NULL it is one step under the lock.
cond_wait(c, t) ==
  /\ Calling(c, t, "cond_wait")
  /\ holder = t
  /\ sema' = [sema EXCEPT ![t] = [value |-> 0, waiters |-> << >>]]
  /\ cond' = Append(cond, t)
  /\ holder' = NoThread
  /\ GoOn(c, up("lock") \o << <<"down", t>> >> \o acquire)
  /\ UNCHANGED <<program, switching, home, idle_at, rq_lock, spin, flags, timer, disk>>

\* cond_signal when there is a waiter; without one it changes nothing.
cond_signal(c, t) ==
  /\ Calling(c, t, "cond_signal")
  /\ holder = t /\ cond # << >>
  /\ cond' = Tail(cond)
  /\ GoOn(c, up(Head(cond)))
  /\ UNCHANGED <<program, switching, home, idle_at, rq_lock, spin, flags, sema, holder,
                 timer, disk>>

cond_broadcast(c, t) ==
  /\ Calling(c, t, "cond_broadcast")
  /\ holder = t
  /\ GoOn(c, << <<"broadcast">> >>)
  /\ UNCHANGED <<program, switching, home, idle_at, rq_lock, spin, flags, sema,
                 monitor, timer, disk>>

\* One round of the loop of cond_broadcast.
BroadcastNext(c) ==
  /\ Doing(c, "broadcast")
  /\ \/ /\ cond = << >>
        /\ GoOn(c, Rest(c))
        /\ UNCHANGED cond
     \/ /\ cond # << >>
        /\ cond' = Tail(cond)
        /\ GoOn(c, up(Head(cond)) \o todo[Context(c)])
  /\ UNCHANGED <<program, switching, home, idle_at, rq_lock, spin, flags, sema, holder,
                 timer, disk>>

-----------------------------------------------------------------------------
(***************************************************************************)
(* Sleeping, the disk, and interrupts.                                     *)
(***************************************************************************)

\* timer_sleep up to spinlock_acquire: the time to wake up is fixed.
timer_sleep(c, t, n) ==
  /\ Calling(c, t, "timer_sleep")
  /\ when' = [when EXCEPT ![t] = n]
  /\ GoOn(c, << <<"sleep">> >>)
  /\ UNCHANGED <<program, switching, home, idle_at, rq_lock, spin, flags, sema,
                 monitor, sleepers, disk>>

MutantUnordered(t) == Append(sleepers, t)

\* list_insert_ordered: before the first that is to wake up later.
list_insert_ordered(t) ==
  LET later == {i \in DOMAIN sleepers : when[t] < when[sleepers[i]]} IN
  InsertAt(sleepers, Min(later \cup {Len(sleepers) + 1}), t)

SleepInsert(c) ==
  /\ Doing(c, "sleep")
  /\ spin["sleepers"] = NoCpu
  /\ sleepers' = list_insert_ordered(curr[c])
  /\ spin' = [spin EXCEPT !["sleepers"] = c]
  /\ GoOn(c, << <<"block", "sleepers">>, <<"switch">>, <<"relock">> >>)
  /\ UNCHANGED <<program, switching, home, idle_at, rq_lock, flags, sema, monitor,
                 when, disk>>

\* thread_block takes the spinlock again, and timer_sleep releases it.
SleepReturn(c) ==
  /\ Doing(c, "relock")
  /\ spin["sleepers"] = NoCpu
  /\ GoOn(c, Rest(c))
  /\ UNCHANGED <<program, switching, home, idle_at, rq_lock, spin, flags, sema,
                 monitor, timer, disk>>

\* ide_read and ide_write, under the channel's lock: the command is issued, then
\* the thread waits for the completion.
ide_read(c, t) ==
  /\ Calling(c, t, "ide_read")
  /\ holder = t
  /\ disk' = TRUE
  /\ GoOn(c, << <<"down", "disk">> >>)
  /\ UNCHANGED <<program, switching, home, idle_at, rq_lock, spin, flags, sema,
                 monitor, timer>>

\* The disk completes its command: interrupt_handler of ide.c.
DiskInterrupt ==
  /\ disk /\ IntrOn(Cpu0)
  /\ disk' = FALSE
  /\ todo' = [todo EXCEPT ![Cpu0] = << <<"up", "disk">>, <<"return">> >>]
  /\ UNCHANGED <<program, switching, home, idle_at, rq_lock, spin, flags, sema,
                 monitor, timer>>

\* timer_interrupt: CPU 0 counts the tick and looks for threads to wake.
TimerInterrupt(c) ==
  /\ IntrOn(c)
  /\ IF c = Cpu0
     THEN /\ when' = [t \in Threads |-> Max({when[t] - 1, -1})]
          /\ todo' = [todo EXCEPT ![c] = << <<"awaken">>, <<"waken">>,
                                            <<"tick">>, <<"return">> >>]
     ELSE /\ todo' = [todo EXCEPT ![c] = << <<"tick">>, <<"return">> >>]
          /\ UNCHANGED when
  /\ UNCHANGED <<program, switching, home, idle_at, rq_lock, spin, flags, sema,
                 monitor, sleepers, disk>>

\* awaken_sleeping_threads: the list is walked until one is due later.
Due == {i \in DOMAIN sleepers :
          /\ when[sleepers[i]] < 0
          /\ \A j \in 1 .. i - 1 : when[sleepers[j]] <= 0}

AwakenLock(c) ==
  /\ Doing(c, "awaken")
  /\ spin["sleepers"] = NoCpu
  /\ spin' = [spin EXCEPT !["sleepers"] = c]
  /\ GoOn(c, Rest(c))
  /\ UNCHANGED <<program, switching, home, idle_at, rq_lock, flags, sema, monitor,
                 timer, disk>>

AwakenNext(c) ==
  /\ Doing(c, "waken")
  /\ \/ /\ Due # {}
        /\ thread_unblock(c, sleepers[Min(Due)])
        /\ sleepers' = RemoveAt(sleepers, Min(Due))
        /\ UNCHANGED <<spin, todo>>
     \/ /\ Due = {}
        /\ spin' = [spin EXCEPT !["sleepers"] = NoCpu]
        /\ GoOn(c, Rest(c))
        /\ UNCHANGED <<sleepers, switching, flags>>
  /\ UNCHANGED <<program, home, idle_at, rq_lock, sema, monitor, when, disk>>

\* thread_tick: the time slice may be over.
thread_tick(c) ==
  /\ Doing(c, "tick")
  /\ ~rq_lock[c]
  /\ \E over \in BOOLEAN : yield' = [yield EXCEPT ![c] = @ \/ over]
  /\ GoOn(c, Rest(c))
  /\ UNCHANGED <<program, switching, home, idle_at, rq_lock, spin, ipi, sema, monitor,
                 timer, disk>>

\* ipi_schedule.
ipi_schedule(c) ==
  /\ ipi[c] /\ IntrOn(c)
  /\ ipi' = [ipi EXCEPT ![c] = FALSE]
  /\ yield' = [yield EXCEPT ![c] = TRUE]
  /\ todo' = [todo EXCEPT ![c] = << <<"return">> >>]
  /\ UNCHANGED <<program, switching, home, idle_at, rq_lock, spin, sema, monitor,
                 timer, disk>>

MutantStaysHalted(c) ==
  /\ Doing(c, "return")
  /\ UNCHANGED <<yield, switching>>
  /\ todo' = [todo EXCEPT ![c] = << >>]
  /\ UNCHANGED <<program, home, idle_at, rq_lock, spin, ipi, sema, monitor, timer,
                 disk>>

\* The end of intr_handler.  A halted idle thread goes round its loop.
IntrReturn(c) ==
  /\ Doing(c, "return")
  /\ \/ /\ yield[c]
        /\ yield' = [yield EXCEPT ![c] = FALSE]
        /\ thread_yield(c)
     \/ /\ ~yield[c]
        /\ UNCHANGED <<yield, switching>>
  /\ idle_at' = [idle_at EXCEPT ![c] = IF curr[c] = Idle THEN "block" ELSE @]
  /\ todo' = [todo EXCEPT ![c] = << >>]
  /\ UNCHANGED <<program, home, rq_lock, spin, ipi, sema, monitor, timer, disk>>

-----------------------------------------------------------------------------
\* What the threads do of their own accord.
Call(c, t) ==
  \/ lock_acquire(c, t) \/ lock_try_acquire(c, t) \/ lock_release(c, t)
  \/ cond_wait(c, t) \/ cond_signal(c, t) \/ cond_broadcast(c, t)
  \/ ide_read(c, t) \/ thread_exit(c, t)
  \/ \E n \in 0 .. MaxSleep : timer_sleep(c, t, n)
  \/ \E u \in Threads : do_thread_create(c, t, u)

\* What the kernel does on c once it has begun.
Step(c) ==
  \/ BlockLock(c) \/ BlockSwitch(c) \/ IdleBlock(c)
  \/ SemaDown(c) \/ SemaUp(c) \/ SemaWake(c) \/ YieldIfRequested(c)
  \/ LockOwn(c) \/ BroadcastNext(c)
  \/ SleepInsert(c) \/ SleepReturn(c)
  \/ AwakenLock(c) \/ AwakenNext(c) \/ thread_tick(c) \/ IntrReturn(c)

Next ==
  \/ \E c \in CPUs : Step(c) \/ TimerInterrupt(c) \/ ipi_schedule(c)
  \/ \E c \in CPUs, t \in Threads : Call(c, t)
  \/ DiskInterrupt

\* A CPU does not stop.  An interrupt that is raised while interrupts are off is
\* delivered when they are on again: strong fairness.
Fairness ==
  /\ \A c \in CPUs : WF_vars(Step(c)) /\ SF_vars(TimerInterrupt(c))
  /\ SF_vars(DiskInterrupt)

Spec == Init /\ [][Next]_vars
FairSpec == Spec /\ Fairness

-----------------------------------------------------------------------------
(***************************************************************************)
(* Properties.                                                             *)
(***************************************************************************)
Queued(w) == {w[i] : i \in DOMAIN w}

StepType ==
  {<<s>> : s \in {"own", "check", "switch", "broadcast", "sleep", "relock", "awaken",
                  "waken", "tick", "return"}}
  \cup ({"down", "up"} \X Semas) \cup ({"block"} \X SpinLocks)
  \cup ({"wake"} \X Semas \X Threads)

\* The fields of threads, CPUs and semaphores are well typed.
TypeOK ==
  /\ program \in [Threads -> SUBSET Calls]
  /\ status \in [Threads -> {"none", "running", "ready", "blocked"}]
  /\ cpu \in [Threads -> CPUs] /\ next_cpu \in CPUs
  /\ curr \in [CPUs -> Threads \cup {Idle}]
  /\ idle_at \in [CPUs -> {"block", "halt"}]
  /\ ready \in [CPUs -> SUBSET Threads]
  /\ rq_lock \in [CPUs -> BOOLEAN]
  /\ spin \in [SpinLocks -> CPUs \cup {NoCpu}]
  /\ yield \in [CPUs -> BOOLEAN] /\ ipi \in [CPUs -> BOOLEAN]
  /\ \A s \in Semas : sema[s].value \in 0 .. 1 /\ sema[s].waiters \in Seq(Threads)
  /\ holder \in Threads \cup {NoThread}
  /\ cond \in Seq(Threads)
  /\ when \in [Threads -> -1 .. MaxSleep]
  /\ sleepers \in Seq(Threads)
  /\ disk \in BOOLEAN
  /\ DOMAIN todo = Threads \cup CPUs
  /\ \A x \in Threads \cup CPUs : todo[x] \in Seq(StepType)

\* A thread is where its status says: running on its own CPU and no other, or
\* once in its own CPU's ready list, or in neither.
StatusMatchesPlace ==
  \A t \in Threads :
    /\ {c \in CPUs : curr[c] = t} = IF status[t] = "running" THEN {cpu[t]} ELSE {}
    /\ {c \in CPUs : t \in ready[c]} = IF status[t] = "ready" THEN {cpu[t]} ELSE {}

\* Waking up a thread: the steps by which some CPU is about to.
Waking(t) == {c \in CPUs : Doing(c, "wake") /\ Woken(c) = t}

\* A blocked thread is on exactly one list from which it will be woken, or a CPU
\* has just taken it from there: no wake-up is lost between sema_down's test of
\* the value and thread_block.
BlockedAreFindable ==
  \A t \in Threads :
    status[t] = "blocked" =>
      Cardinality(Waking(t)) +
      Cardinality({s \in Semas : t \in Queued(sema[s].waiters)}) +
      (IF t \in Queued(sleepers) THEN 1 ELSE 0) = 1

\* The assertion of thread_unblock: a thread that is taken off a list of waiters
\* has gone to sleep by the time its ready queue can be locked.
WakesOnlyBlocked ==
  \A c \in CPUs :
    /\ Doing(c, "wake") /\ ~rq_lock[cpu[Woken(c)]] => status[Woken(c)] = "blocked"
    /\ Doing(c, "waken") /\ Due # {} =>
         LET t == sleepers[Min(Due)] IN ~rq_lock[cpu[t]] => status[t] = "blocked"

\* sema_up wakes one thread at a time and a third may come first; still, no
\* thread sleeps on a semaphore that is up unless another was woken for it.
NoLostWakeup ==
  \A s \in Semas :
    sema[s].value > 0 /\ sema[s].waiters # << >> =>
      \E t \in Threads \ Queued(sema[s].waiters) :
        status[t] # "blocked" /\ todo[t] # << >> /\ Head(todo[t]) = <<"down", s>>

\* awaken_sleeping_threads leaves nobody asleep whose time is past.
NobodyOversleeps ==
  [][\A c \in CPUs : Doing(c, "waken") /\ spin["sleepers"] = c
       /\ spin'["sleepers"] = NoCpu
       => \A i \in DOMAIN sleepers : when[sleepers[i]] >= 0]_vars

\* The lock and the condition variable of synch.c, built from spinlocks, lists
\* and thread_block, are a monitor as the rest of the kernel takes them to be.
Promise == INSTANCE Monitor WITH waiting <- cond
ImplementsMonitor == Promise!Spec

\* Nested spinlocks, handlers and switches never leave a CPU spinning or with its
\* interrupts off for ever.
InterruptsComeBack == \A c \in CPUs : []<>IntrOn(c)

\* A CPU does not idle beside ready threads, although wake_up_new_thread tells
\* nobody of a new one: the next interrupt does.
IdleCpuFindsWork ==
  \A c \in CPUs : curr[c] = Idle /\ ready[c] # {} ~> curr[c] # Idle

\* A thread that sleeps or waits for the disk becomes ready.
SleepersWake ==
  \A t \in Threads :
    t \in Queued(sleepers) \cup Queued(sema["disk"].waiters) ~> status[t] = "ready"
=============================================================================
