----------------------------- MODULE Scheduler -----------------------------
(***************************************************************************)
(* The arithmetic of threads/scheduler.c for the ready queue of CPU 0:     *)
(* virtual runtimes, who runs next and when a tick preempts.  Threads.tla  *)
(* leaves these choices open; here the calls it makes to the scheduler     *)
(* are the actions.  Time is what timer_gettime returns: it advances with  *)
(* the ticks of this CPU, by TickLength.                                   *)
(*                                                                         *)
(* Nice values are not negative: with a negative one sched_unblock reads   *)
(* prio_to_weight before its first element.                                *)
(***************************************************************************)
EXTENDS Integers, Sequences, FiniteSets, SequencesExt

CONSTANTS Threads,      \* tids, a set of natural numbers
          Nobody,       \* the idle thread is current: rq->curr is NULL
          nice,         \* thread -> nice value
          Weight,       \* prio_to_weight, indexed from 0
          Latency,      \* 4000000 ns, in clock units
          SleepCredit,  \* 20000000 ns, in clock units
          TickLength,   \* NSEC_PER_SEC / TIMER_FREQ, in clock units
          MaxTime       \* bound on the clock

NICE_DEFAULT == 0
NICE_MAX == 19

ASSUME SchedulerAssumption ==
  /\ Threads \subseteq Nat
  /\ Nobody \notin Threads
  /\ nice \in [Threads -> 0 .. 19]
  /\ Weight \in [0 .. 39 -> Nat \ {0}]
  /\ Latency \in Nat /\ SleepCredit \in Nat
  /\ TickLength \in Nat \ {0} /\ MaxTime \in Nat

VARIABLES now,          \* timer_gettime ()
          curr, ready_list, nr_ready, min_vruntime, thread_ticks, last_time,
          state,        \* thread -> "new", "ready", "running", "blocked", "dead"
          vruntime, timer_start, timer_stop,
          owed          \* history: how long a thread ran since it was last picked
                        \* or charged

rq == <<curr, ready_list, nr_ready>>
clock == <<now, thread_ticks, last_time>>
timers == <<timer_start, timer_stop>>
vars == <<rq, clock, min_vruntime, state, vruntime, timers, owed>>

\* calc_vruntime: what the time d is worth to t, in weights from `bonus' on.
charge(t, d, bonus) == (d * Weight[NICE_DEFAULT + bonus]) \div Weight[nice[t] + bonus]

\* set_min_vruntime, where min () passes over zeros.
set_min_vruntime(v, queue) ==
  LET S == {v[t] : t \in (Range(queue) \cup {curr}) \cap Threads} \ {0}
  IN min_vruntime' = IF S = {} THEN 0 ELSE CHOOSE x \in S : \A y \in S : x <= y

\* find_thread: the least vruntime, then the least tid.
find_thread(v, queue) ==
  CHOOSE t \in Range(queue) : \A u \in Range(queue) :
    v[t] < v[u] \/ (v[t] = v[u] /\ t <= u)

\* The queue without the thread at position k.
list_remove(queue, k) == [i \in 1 .. Len(queue) - 1 |-> queue[IF i < k THEN i ELSE i + 1]]

\* schedule: sched_pick_next or the idle thread, and what becomes of rq->curr.
schedule(v, queue, n, left, due, time) ==
  LET t == find_thread(v, queue)
      k == CHOOSE i \in DOMAIN queue : queue[i] = t
  IN IF queue = << >>
     THEN /\ curr' = Nobody /\ ready_list' = queue /\ nr_ready' = n
          /\ state' = left /\ UNCHANGED timer_start /\ owed' = due
     ELSE /\ curr' = t
          /\ ready_list' = list_remove(queue, k)
          /\ nr_ready' = n - 1
          /\ state' = [left EXCEPT ![t] = "running"]
          /\ timer_start' = [timer_start EXCEPT ![t] = time]
          /\ owed' = [due EXCEPT ![t] = 0]

Init ==
  /\ now = 0
  /\ curr \in Threads
  /\ ready_list = << >> /\ nr_ready = 0
  /\ min_vruntime = 0 /\ thread_ticks = 0 /\ last_time = 0
  /\ state = [t \in Threads |-> IF t = curr THEN "running" ELSE "new"]
  /\ vruntime = [t \in Threads |-> 0]
  /\ timer_start = [t \in Threads |-> 0] /\ timer_stop = [t \in Threads |-> 0]
  /\ owed = [t \in Threads |-> 0]

\* Definitions named Mutant... are faulty variants of the definition that
\* follows; no specification uses them.
MutantKeepsTimer(t) ==
  LET charged == [vruntime EXCEPT ![curr] = @ + charge(curr, now - timer_start[curr], 20)]
      own == vruntime[t] + charge(t, timer_stop[t] - timer_start[t], 0)
      least == min_vruntime' - SleepCredit
  IN /\ state[t] = "blocked"
     /\ state' = [state EXCEPT ![t] = "ready"]
     /\ ready_list' = Append(ready_list, t)
     /\ nr_ready' = nr_ready + 1
     /\ IF curr = Nobody
        THEN UNCHANGED <<vruntime, min_vruntime, timers, owed>>
        ELSE /\ timer_stop' = [timer_stop EXCEPT ![curr] = now]
             /\ UNCHANGED timer_start
             /\ set_min_vruntime(charged, ready_list)
             /\ vruntime' = [charged EXCEPT ![t] = IF own > least THEN own ELSE least]
             /\ owed' = [owed EXCEPT ![curr] = @ - (now - timer_start[curr]),
                                     ![t] = @ - (timer_stop[t] - timer_start[t])]
     /\ UNCHANGED <<curr, clock>>

MutantForgetsOwn(t) ==
  LET charged == [vruntime EXCEPT ![curr] = @ + charge(curr, now - timer_start[curr], 20)]
      own == vruntime[t] + charge(t, timer_stop[t] - timer_start[t], 0)
      least == min_vruntime' - SleepCredit
  IN /\ state[t] = "blocked"
     /\ state' = [state EXCEPT ![t] = "ready"]
     /\ ready_list' = Append(ready_list, t)
     /\ nr_ready' = nr_ready + 1
     /\ IF curr = Nobody
        THEN UNCHANGED <<vruntime, min_vruntime, timers, owed>>
        ELSE /\ timer_stop' = [timer_stop EXCEPT ![curr] = now]
             /\ timer_start' = [timer_start EXCEPT ![curr] = now]
             /\ set_min_vruntime(charged, ready_list)
             /\ vruntime' = [charged EXCEPT ![t] = IF least > 0 THEN least ELSE 0]
             /\ owed' = [owed EXCEPT ![curr] = @ - (now - timer_start[curr]),
                                     ![t] = @ - (timer_stop[t] - timer_start[t])]
     /\ UNCHANGED <<curr, clock>>

\* sched_unblock for a thread that slept; on an idle CPU it is only queued.
sched_unblock(t) ==
  LET charged == [vruntime EXCEPT ![curr] = @ + charge(curr, now - timer_start[curr], 20)]
      own == vruntime[t] + charge(t, timer_stop[t] - timer_start[t], 0)
      least == min_vruntime' - SleepCredit
  IN /\ state[t] = "blocked"
     /\ state' = [state EXCEPT ![t] = "ready"]
     /\ ready_list' = Append(ready_list, t)
     /\ nr_ready' = nr_ready + 1
     /\ IF curr = Nobody
        THEN UNCHANGED <<vruntime, min_vruntime, timers, owed>>
        ELSE /\ timer_stop' = [timer_stop EXCEPT ![curr] = now]
             /\ timer_start' = [timer_start EXCEPT ![curr] = now]
             /\ set_min_vruntime(charged, ready_list)
             /\ vruntime' = [charged EXCEPT ![t] = IF own > least THEN own ELSE least]
             /\ owed' = [owed EXCEPT ![curr] = @ - (now - timer_start[curr]),
                                     ![t] = @ - (timer_stop[t] - timer_start[t])]
     /\ UNCHANGED <<curr, clock>>

\* sched_unblock for a new thread.
sched_unblock_initial(t) ==
  LET charged == [vruntime EXCEPT ![curr] = @ + charge(curr, now - timer_start[curr], 20)]
      birth == IF min_vruntime' # 0 THEN min_vruntime' ELSE charged[curr]
  IN /\ state[t] = "new"
     /\ state' = [state EXCEPT ![t] = "ready"]
     /\ ready_list' = Append(ready_list, t)
     /\ nr_ready' = nr_ready + 1
     /\ IF curr = Nobody
        THEN UNCHANGED <<vruntime, min_vruntime, timers, owed>>
        ELSE /\ timer_stop' = [timer_stop EXCEPT ![curr] = now]
             /\ timer_start' = [timer_start EXCEPT ![curr] = now]
             /\ IF now = timer_start[curr] THEN UNCHANGED min_vruntime
                ELSE set_min_vruntime(charged, ready_list)
             /\ vruntime' = [charged EXCEPT ![t] = birth]
             /\ owed' = [owed EXCEPT ![curr] = @ - (now - timer_start[curr])]
     /\ UNCHANGED <<curr, clock>>

\* thread_yield with sched_yield; the idle thread only looks for another.
Yield(time, due) ==
  LET d == time - timer_start[curr]
  IN IF curr = Nobody
     THEN /\ schedule(vruntime, ready_list, nr_ready, state, due, time)
          /\ UNCHANGED <<vruntime, timer_stop>>
     ELSE /\ vruntime' = [vruntime EXCEPT ![curr] = @ + charge(curr, d, 20)]
          /\ timer_stop' = [timer_stop EXCEPT ![curr] = time]
          /\ schedule(vruntime', Append(ready_list, curr), nr_ready + 1,
                      [state EXCEPT ![curr] = "ready"], [due EXCEPT ![curr] = @ - d], time)

sched_yield == Yield(now, owed) /\ UNCHANGED <<clock, min_vruntime>>

sched_block ==
  /\ curr # Nobody
  /\ timer_stop' = [timer_stop EXCEPT ![curr] = now]
  /\ schedule(vruntime, ready_list, nr_ready, [state EXCEPT ![curr] = "blocked"], owed, now)
  /\ UNCHANGED <<clock, min_vruntime, vruntime>>

Exit ==
  /\ curr # Nobody
  /\ schedule(vruntime, ready_list, nr_ready, [state EXCEPT ![curr] = "dead"], owed, now)
  /\ UNCHANGED <<clock, min_vruntime, vruntime, timer_stop>>

queue_total_weight ==
  LET sum == FoldLeft(LAMBDA s, t : s + Weight[nice[t] + 20],
                      IF curr = Nobody THEN 0 ELSE Weight[nice[curr] + 20], ready_list)
  IN IF sum = 0 THEN 1 ELSE sum

\* The idle thread has nice value NICE_MAX.
calc_ideal_runtime ==
  IF curr = Nobody THEN (Latency * nr_ready * Weight[NICE_MAX + 20]) \div queue_total_weight
  ELSE (Latency * (nr_ready + 1) * Weight[nice[curr] + 20]) \div queue_total_weight

\* timer_interrupt with thread_tick; the yield that ends a slice happens as the
\* interrupt returns.
sched_tick ==
  LET time == now + TickLength
      ticks == thread_ticks + time - last_time
      due == [t \in Threads |-> owed[t] + IF t = curr THEN TickLength ELSE 0]
  IN /\ time <= MaxTime
     /\ now' = time /\ last_time' = time
     /\ IF ticks >= calc_ideal_runtime
        THEN thread_ticks' = 0 /\ Yield(time, due)
        ELSE thread_ticks' = ticks /\ owed' = due /\ UNCHANGED <<rq, state, vruntime, timers>>
     /\ UNCHANGED min_vruntime

Next == \/ sched_yield \/ sched_block \/ Exit \/ sched_tick
        \/ \E t \in Threads : sched_unblock(t) \/ sched_unblock_initial(t)

Spec == Init /\ [][Next]_vars
-----------------------------------------------------------------------------
(* What the scheduler keeps twice agrees: the ready list holds the ready     *)
(* threads once each, nr_ready is its length (slices are computed from it),  *)
(* and rq->curr is the only thread that runs.                                *)
QueueMatchesState ==
  /\ nr_ready = Len(ready_list)
  /\ \A t \in Threads : (state[t] = "ready") <=> (t \in Range(ready_list))
  /\ \A i, j \in DOMAIN ready_list : ready_list[i] = ready_list[j] => i = j
  /\ {t \in Threads : state[t] = "running"} = {curr} \ {Nobody}

(* No stretch of running is charged twice: the durations that calc_vruntime  *)
(* weighs, in sched_yield, in sched_unblock for the thread that happened to  *)
(* run, and in sched_unblock for the time before it slept, are together at   *)
(* most the time the thread had the CPU.                                     *)
ChargedAtMostOnce == \A t \in Threads : owed[t] >= 0

(* The inductive strengthening: a running thread owes the time since its     *)
(* timer was started, a blocked one at least what its stopped timer shows,   *)
(* and a thread that has not run yet has no virtual time.                    *)
TimersMatchDebts ==
  /\ curr # Nobody => owed[curr] = now - timer_start[curr]
  /\ \A t \in Threads : state[t] = "blocked" =>
       /\ timer_start[t] <= timer_stop[t]
       /\ timer_stop[t] - timer_start[t] <= owed[t]
  /\ \A t \in Threads : state[t] = "new" => vruntime[t] = 0

TypeOK ==
  /\ now \in Nat /\ thread_ticks \in Int /\ last_time \in Int
  /\ curr \in Threads \cup {Nobody} /\ ready_list \in Seq(Threads) /\ nr_ready \in Int
  /\ state \in [Threads -> {"new", "ready", "running", "blocked", "dead"}]
  /\ min_vruntime \in Nat /\ vruntime \in [Threads -> Nat]
  /\ timer_start \in [Threads -> Int] /\ timer_stop \in [Threads -> Int]
  /\ owed \in [Threads -> Int]

IInv == TypeOK /\ QueueMatchesState /\ TimersMatchDebts /\ ChargedAtMostOnce

(* A thread never gets virtual time back, however late its last run is       *)
(* charged: its timers are in order whenever calc_vruntime subtracts them.   *)
VruntimeNeverDecreases == [][\A t \in Threads : vruntime'[t] >= vruntime[t]]_vars
=============================================================================
