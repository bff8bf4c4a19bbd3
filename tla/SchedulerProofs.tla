-------------------------- MODULE SchedulerProofs --------------------------
(***************************************************************************)
(* Proofs about threads/scheduler.c for any threads, nice values, weights, *)
(* latency and tick length: the inductive invariant of Scheduler, and that *)
(* no thread ever gets virtual time back.                                  *)
(***************************************************************************)
EXTENDS Scheduler, WellFoundedInduction, TLAPS

\* A nonempty set of natural numbers has a least element.
LEMMA LeastNat ==
  ASSUME NEW S, S \subseteq Nat, S # {}
  PROVE  \E x \in S : \A y \in S : x <= y
<1>1. PICK x \in S : \A y \in S : ~ (<<y, x>> \in OpToRel(<, Nat))
  BY NatLessThanWellFounded, WFMin, Zenon
<1>2. \A y \in Nat : y < x => <<y, x>> \in OpToRel(<, Nat)
  BY x \in Nat, Zenon DEF OpToRel
<1>3. \A y \in S : ~ (y < x)
  BY <1>1, <1>2, Zenon
<1>4. QED  BY <1>3

\* The quotient of calc_vruntime: a time charges a time.
LEMMA DivNat ==
  ASSUME NEW a \in Nat, NEW b \in Nat \ {0}
  PROVE  a \div b \in Nat
OBVIOUS

LEMMA ChargeNat ==
  ASSUME NEW t \in Threads, NEW d \in Nat, NEW bonus \in {0, 20}
  PROVE  charge(t, d, bonus) \in Nat
<1>1. Weight[NICE_DEFAULT + bonus] \in Nat /\ Weight[nice[t] + bonus] \in Nat \ {0}
  BY SchedulerAssumption DEF NICE_DEFAULT
<1>2. d * Weight[NICE_DEFAULT + bonus] \in Nat
  BY <1>1
<1>3. QED  BY <1>1, <1>2, DivNat, Zenon DEF charge

\* What set_min_vruntime stores is 0 or one of the virtual runtimes.
LEMMA MinVruntimeNat ==
  ASSUME NEW v \in [Threads -> Nat], NEW q, set_min_vruntime(v, q)
  PROVE  min_vruntime' \in Nat
<1> DEFINE S == {v[t] : t \in (Range(q) \cup {curr}) \cap Threads} \ {0}
<1>1. S \subseteq Nat
  OBVIOUS
<1>2. CASE S = {}
  BY <1>2 DEF set_min_vruntime
<1>3. CASE S # {}
  <2>1. \E x \in S : \A y \in S : x <= y
    BY <1>1, <1>3, LeastNat, Zenon
  <2>2. (CHOOSE x \in S : \A y \in S : x <= y) \in S
    BY <2>1
  <2>3. min_vruntime' = CHOOSE x \in S : \A y \in S : x <= y
    BY <1>3 DEF set_min_vruntime
  <2>4. QED  BY <1>1, <2>2, <2>3
<1>4. QED  BY <1>2, <1>3

\* find_thread returns a thread of a queue that is not empty.
LEMMA FindThread ==
  ASSUME NEW v \in [Threads -> Nat], NEW q \in Seq(Threads), q # << >>
  PROVE  find_thread(v, q) \in Range(q)
<1> DEFINE R == Range(q)
           V == {v[t] : t \in R}
<1>1. R \subseteq Threads /\ R # {}
  <2>1. 1 \in DOMAIN q
    OBVIOUS
  <2>2. QED  BY <2>1 DEF Range
<1>2. PICK m \in V : \A y \in V : m <= y
  <2>1. V \subseteq Nat /\ V # {}
    BY <1>1
  <2>2. QED  BY <2>1, LeastNat, Zenon
<1> DEFINE L == {t \in R : v[t] = m}
<1>3. PICK t \in L : \A u \in L : t <= u
  <2>1. L \subseteq Nat /\ L # {}
    BY <1>1, SchedulerAssumption, Zenon
  <2>2. QED  BY <2>1, LeastNat, Zenon
<1>4. \A u \in R : v[t] < v[u] \/ (v[t] = v[u] /\ t <= u)
  <2> TAKE u \in R
  <2>1. m <= v[u] /\ v[t] = m /\ m \in Nat /\ v[u] \in Nat
    BY <1>1, <1>2
  <2>2. CASE v[u] = m
    BY <2>1, <2>2, <1>3
  <2>3. CASE v[u] # m
    BY <2>1, <2>3
  <2>4. QED  BY <2>2, <2>3
<1>5. QED  BY <1>4 DEF find_thread

\* A queue without position k: sched_pick_next removes the thread it found.
LEMMA RemovePosition ==
  ASSUME NEW q \in Seq(Threads), NEW k \in DOMAIN q,
         \A i, j \in DOMAIN q : q[i] = q[j] => i = j
  PROVE  /\ list_remove(q, k) \in Seq(Threads)
         /\ Len(list_remove(q, k)) = Len(q) - 1
         /\ Range(list_remove(q, k)) = Range(q) \ {q[k]}
         /\ \A i, j \in DOMAIN list_remove(q, k) :
              list_remove(q, k)[i] = list_remove(q, k)[j] => i = j
<1> DEFINE r == list_remove(q, k)
           n == Len(q)
           f(i) == IF i < k THEN i ELSE i + 1
<1>1. n \in Nat /\ DOMAIN q = 1 .. n /\ k \in 1 .. n
  OBVIOUS
<1>2. /\ \A i \in 1 .. n - 1 : f(i) \in 1 .. n /\ f(i) # k
      /\ \A i, j \in 1 .. n - 1 : f(i) = f(j) => i = j
      /\ \A m \in 1 .. n : m # k => \E i \in 1 .. n - 1 : f(i) = m
  <2>1. \A i \in 1 .. n - 1 : f(i) \in 1 .. n /\ f(i) # k
    BY <1>1
  <2>2. \A i, j \in 1 .. n - 1 : f(i) = f(j) => i = j
    BY <1>1
  <2>3. ASSUME NEW m \in 1 .. n, m # k  PROVE \E i \in 1 .. n - 1 : f(i) = m
    <3>1. CASE m < k
      BY <1>1, <3>1
    <3>2. CASE m > k
      <4>1. m - 1 \in 1 .. n - 1 /\ f(m - 1) = m
        BY <1>1, <3>2
      <4>2. QED  BY <4>1
    <3>3. QED  BY <1>1, <2>3, <3>1, <3>2
  <2>4. QED  BY <2>1, <2>2, <2>3
<1>3. r = [i \in 1 .. n - 1 |-> q[f(i)]]
  BY DEF list_remove
<1> HIDE DEF r
<1>4. n - 1 \in Nat
  BY <1>1
<1>5. r \in Seq(Threads) /\ Len(r) = n - 1 /\ DOMAIN r = 1 .. n - 1
  <2>1. \A i \in 1 .. n - 1 : q[f(i)] \in Threads
    BY <1>1, <1>2
  <2> HIDE DEF f, n
  <2>2. r \in [1 .. n - 1 -> Threads]
    BY <1>3, <2>1
  <2>3. QED  BY <2>2, <1>4
<1>6. \A i \in 1 .. n - 1 : r[i] = q[f(i)]
  BY <1>3
<1> HIDE DEF f, n
<1>7. Range(r) = Range(q) \ {q[k]}
  <2>1. ASSUME NEW i \in 1 .. n - 1  PROVE r[i] \in Range(q) /\ r[i] # q[k]
    <3>1. f(i) \in DOMAIN q /\ f(i) # k /\ r[i] = q[f(i)]
      BY <1>1, <1>2, <1>6
    <3>2. QED  BY <3>1 DEF Range
  <2>2. ASSUME NEW m \in 1 .. n, q[m] # q[k]  PROVE q[m] \in Range(r)
    <3>1. PICK i \in 1 .. n - 1 : f(i) = m
      BY <1>2, <2>2
    <3>2. i \in DOMAIN r /\ r[i] = q[m]
      BY <1>5, <1>6, <3>1
    <3>3. QED  BY <3>2 DEF Range
  <2>3. QED  BY <1>1, <1>5, <2>1, <2>2 DEF Range
<1>8. ASSUME NEW i \in DOMAIN r, NEW j \in DOMAIN r, r[i] = r[j]  PROVE i = j
  <2>1. i \in 1 .. n - 1 /\ j \in 1 .. n - 1
    BY <1>5
  <2>2. f(i) \in DOMAIN q /\ f(j) \in DOMAIN q /\ q[f(i)] = q[f(j)]
    BY <1>1, <1>2, <1>6, <1>8, <2>1
  <2>3. f(i) = f(j)
    BY <2>2
  <2>4. QED  BY <1>2, <2>1, <2>3
<1>9. QED  BY <1>5, <1>7, <1>8 DEF n, r

\* A thread put at the end of the queue.
LEMMA AppendThread ==
  ASSUME NEW q \in Seq(Threads), NEW t \in Threads, t \notin Range(q),
         \A i, j \in DOMAIN q : q[i] = q[j] => i = j
  PROVE  /\ Append(q, t) \in Seq(Threads)
         /\ Len(Append(q, t)) = Len(q) + 1
         /\ Range(Append(q, t)) = Range(q) \cup {t}
         /\ \A i, j \in DOMAIN Append(q, t) : Append(q, t)[i] = Append(q, t)[j] => i = j
<1> DEFINE r == Append(q, t)
           n == Len(q)
<1>1. n \in Nat /\ DOMAIN q = 1 .. n
  OBVIOUS
<1>2. /\ r \in Seq(Threads) /\ Len(r) = n + 1 /\ DOMAIN r = 1 .. n + 1
      /\ r[n + 1] = t
      /\ \A i \in 1 .. n : r[i] = q[i]
  OBVIOUS
<1> HIDE DEF r, n
<1>3. Range(r) = Range(q) \cup {t}
  <2>1. Range(r) \subseteq Range(q) \cup {t}
    BY <1>1, <1>2 DEF Range
  <2>2. Range(q) \subseteq Range(r)
    BY <1>1, <1>2 DEF Range
  <2>3. n + 1 \in DOMAIN r
    BY <1>1, <1>2
  <2>4. t \in Range(r)
    BY <2>3, <1>2 DEF Range
  <2>5. QED  BY <2>1, <2>2, <2>4
<1>4. \A i, j \in DOMAIN r : r[i] = r[j] => i = j
  BY <1>1, <1>2 DEF Range
<1>5. QED  BY <1>2, <1>3, <1>4 DEF r, n
-----------------------------------------------------------------------------
States == {"new", "ready", "running", "blocked", "dead"}

\* The queue q of n threads is that of the threads' states st.
QueueOf(q, n, st) ==
  /\ q \in Seq(Threads) /\ n = Len(q)
  /\ st \in [Threads -> States]
  /\ \A t \in Threads : (st[t] = "ready") <=> (t \in Range(q))
  /\ \A i, j \in DOMAIN q : q[i] = q[j] => i = j

\* What schedule () leaves behind, whatever became of the thread that ran.
LEMMA Scheduled ==
  ASSUME NEW v \in [Threads -> Nat], NEW q, NEW n, NEW left, NEW due \in [Threads -> Int],
         NEW time \in Nat,
         QueueOf(q, n, left), \A t \in Threads : left[t] # "running",
         \A t \in Threads : due[t] >= 0,
         timer_start \in [Threads -> Int],
         schedule(v, q, n, left, due, time)
  PROVE  /\ QueueOf(ready_list', nr_ready', state')
         /\ curr' \in Threads \cup {Nobody}
         /\ {t \in Threads : state'[t] = "running"} = {curr'} \ {Nobody}
         /\ timer_start' \in [Threads -> Int] /\ owed' \in [Threads -> Int]
         /\ \A t \in Threads : owed'[t] >= 0
         /\ curr' # Nobody => owed'[curr'] = 0 /\ timer_start'[curr'] = time
         /\ \A t \in Threads : state'[t] \in {"blocked", "new"} =>
              left[t] = state'[t] /\ timer_start'[t] = timer_start[t] /\ owed'[t] = due[t]
<1>1. CASE q = << >>
  <2>1. /\ curr' = Nobody /\ ready_list' = q /\ nr_ready' = n
        /\ state' = left /\ timer_start' = timer_start /\ owed' = due
    BY <1>1 DEF schedule
  <2>2. QED  BY <2>1
<1>2. CASE q # << >>
  <2> DEFINE t == find_thread(v, q)
             k == CHOOSE i \in DOMAIN q : q[i] = t
  <2>1. t \in Range(q)
    BY <1>2, FindThread, Zenon DEF QueueOf
  <2>2. k \in DOMAIN q /\ q[k] = t
    BY <2>1 DEF Range
  <2>3. /\ curr' = t
        /\ ready_list' = list_remove(q, k)
        /\ nr_ready' = n - 1
        /\ state' = [left EXCEPT ![t] = "running"]
        /\ timer_start' = [timer_start EXCEPT ![t] = time]
        /\ owed' = [due EXCEPT ![t] = 0]
    BY <1>2 DEF schedule
  <2> HIDE DEF t, k
  <2>3a. q \in Seq(Threads) /\ \A i, j \in DOMAIN q : q[i] = q[j] => i = j
    BY DEF QueueOf
  <2>4. /\ ready_list' \in Seq(Threads)
        /\ Len(ready_list') = Len(q) - 1
        /\ Range(ready_list') = Range(q) \ {t}
        /\ \A i, j \in DOMAIN ready_list' : ready_list'[i] = ready_list'[j] => i = j
    BY <2>2, <2>3, <2>3a, RemovePosition, Zenon
  <2>5. t \in Threads /\ left[t] = "ready" /\ t # Nobody
    <3>1. t \in Threads
      BY <2>2, <2>3a
    <3>2. QED  BY <2>1, <3>1, SchedulerAssumption DEF QueueOf
  <2>6. /\ state' \in [Threads -> States]
        /\ state'[t] = "running"
        /\ \A u \in Threads : u # t => state'[u] = left[u]
    BY <2>3, <2>5 DEF QueueOf, States
  <2>7. QueueOf(ready_list', nr_ready', state')
    BY <2>3, <2>4, <2>5, <2>6 DEF QueueOf
  <2>8. {u \in Threads : state'[u] = "running"} = {curr'} \ {Nobody}
    BY <2>3, <2>5, <2>6
  <2>9. /\ timer_start' \in [Threads -> Int] /\ owed' \in [Threads -> Int]
        /\ owed'[t] = 0 /\ timer_start'[t] = time
        /\ \A u \in Threads : u # t => owed'[u] = due[u] /\ timer_start'[u] = timer_start[u]
    BY <2>3, <2>5
  <2>10. \A u \in Threads : state'[u] \in {"blocked", "new"} => u # t
    BY <2>6
  <2>11. \A u \in Threads : owed'[u] >= 0
    BY <2>9
  <2>12. \A u \in Threads : state'[u] \in {"blocked", "new"} =>
           left[u] = state'[u] /\ timer_start'[u] = timer_start[u] /\ owed'[u] = due[u]
    BY <2>6, <2>9, <2>10
  <2>13. QED  BY <2>3, <2>5, <2>7, <2>8, <2>9, <2>11, <2>12
<1>3. QED  BY <1>1, <1>2

\* The invariant after schedule (), from what the call that leads to it did.
LEMMA ScheduledInv ==
  ASSUME NEW v \in [Threads -> Nat], NEW q, NEW n, NEW left, NEW due \in [Threads -> Int],
         NEW time \in Nat,
         QueueOf(q, n, left), \A t \in Threads : left[t] # "running",
         \A t \in Threads : due[t] >= 0,
         timer_start \in [Threads -> Int],
         schedule(v, q, n, left, due, time),
         now' = time, thread_ticks' \in Int, last_time' \in Int, min_vruntime' \in Nat,
         vruntime' \in [Threads -> Nat], timer_stop' \in [Threads -> Int],
         \A t \in Threads : left[t] = "blocked" =>
           timer_start[t] <= timer_stop'[t] /\ timer_stop'[t] - timer_start[t] <= due[t],
         \A t \in Threads : left[t] = "new" => vruntime'[t] = 0
  PROVE  IInv'
<1>1. /\ QueueOf(ready_list', nr_ready', state')
      /\ curr' \in Threads \cup {Nobody}
      /\ {t \in Threads : state'[t] = "running"} = {curr'} \ {Nobody}
      /\ timer_start' \in [Threads -> Int] /\ owed' \in [Threads -> Int]
      /\ \A t \in Threads : owed'[t] >= 0
      /\ curr' # Nobody => owed'[curr'] = 0 /\ timer_start'[curr'] = time
      /\ \A t \in Threads : state'[t] \in {"blocked", "new"} =>
           left[t] = state'[t] /\ timer_start'[t] = timer_start[t] /\ owed'[t] = due[t]
  BY Scheduled
<1>2. TypeOK'
  BY <1>1 DEF TypeOK, QueueOf, States
<1>3. QueueMatchesState'
  BY <1>1, Zenon DEF QueueMatchesState, QueueOf
<1>4. TimersMatchDebts'
  <2>1. curr' # Nobody => owed'[curr'] = now' - timer_start'[curr']
    BY <1>1
  <2>2. ASSUME NEW t \in Threads, state'[t] = "blocked"
        PROVE  timer_start'[t] <= timer_stop'[t] /\ timer_stop'[t] - timer_start'[t] <= owed'[t]
    BY <1>1, <2>2
  <2>3. ASSUME NEW t \in Threads, state'[t] = "new"  PROVE vruntime'[t] = 0
    BY <1>1, <2>3
  <2>4. QED  BY <2>1, <2>2, <2>3 DEF TimersMatchDebts
<1>5. QED  BY <1>1, <1>2, <1>3, <1>4 DEF IInv, ChargedAtMostOnce

\* What the invariant says of the thread that runs and of the others.
LEMMA Running ==
  ASSUME IInv
  PROVE  /\ QueueOf(ready_list, nr_ready, state)
         /\ curr # Nobody =>
              /\ curr \in Threads /\ state[curr] = "running" /\ curr \notin Range(ready_list)
              /\ now - timer_start[curr] \in Nat /\ owed[curr] = now - timer_start[curr]
         /\ \A t \in Threads : t # curr => state[t] # "running"
<1>1. QueueOf(ready_list, nr_ready, state)
  BY Zenon DEF IInv, TypeOK, QueueMatchesState, QueueOf, States
<1>2. ASSUME NEW t \in Threads, t # curr  PROVE state[t] # "running"
  BY <1>2, Zenon DEF IInv, QueueMatchesState
<1>3. ASSUME curr # Nobody
      PROVE  /\ curr \in Threads /\ state[curr] = "running" /\ curr \notin Range(ready_list)
             /\ now - timer_start[curr] \in Nat /\ owed[curr] = now - timer_start[curr]
  <2>1. curr \in Threads
    BY <1>3 DEF IInv, TypeOK
  <2>2. state[curr] = "running"
    BY <1>3, Zenon DEF IInv, QueueMatchesState
  <2>3. state[curr] # "ready"
    BY <2>2
  <2>4. curr \notin Range(ready_list)
    BY <2>1, <2>3, Zenon DEF IInv, QueueMatchesState
  <2>5. owed[curr] = now - timer_start[curr] /\ now - timer_start[curr] \in Nat
    BY <1>3, <2>1 DEF IInv, TypeOK, TimersMatchDebts, ChargedAtMostOnce
  <2>6. QED  BY <2>1, <2>2, <2>4, <2>5
<1>4. QED  BY <1>1, <1>2, <1>3

\* A thread that is neither ready nor running joins the queue.
LEMMA Enqueued ==
  ASSUME NEW q, NEW n, NEW st, QueueOf(q, n, st), NEW t \in Threads, st[t] # "ready"
  PROVE  QueueOf(Append(q, t), n + 1, [st EXCEPT ![t] = "ready"])
<1>1. /\ q \in Seq(Threads) /\ n = Len(q) /\ t \notin Range(q)
      /\ \A i, j \in DOMAIN q : q[i] = q[j] => i = j
  BY DEF QueueOf
<1>2. /\ Append(q, t) \in Seq(Threads)
      /\ Len(Append(q, t)) = Len(q) + 1
      /\ Range(Append(q, t)) = Range(q) \cup {t}
      /\ \A i, j \in DOMAIN Append(q, t) : Append(q, t)[i] = Append(q, t)[j] => i = j
  BY <1>1, AppendThread, Zenon
<1> DEFINE r == Append(q, t)
           new == [st EXCEPT ![t] = "ready"]
<1>3. /\ new \in [Threads -> States] /\ new[t] = "ready"
      /\ \A u \in Threads : u # t => new[u] = st[u]
  BY DEF QueueOf, States
<1> HIDE DEF r, new
<1>4. \A u \in Threads : (new[u] = "ready") <=> (u \in Range(r))
  BY <1>2, <1>3 DEF QueueOf, r
<1>5. QueueOf(r, n + 1, new)
  BY <1>1, <1>2, <1>3, <1>4 DEF QueueOf, r
<1>6. QED  BY <1>5 DEF r, new

\* The initial state: one thread runs, the others are new.
THEOREM InitIInv == Init => IInv
<1> SUFFICES ASSUME Init PROVE IInv
  OBVIOUS
<1>1. TypeOK
  BY DEF Init, TypeOK
<1>2. QueueMatchesState
  <2>1. Range(ready_list) = {} /\ Len(ready_list) = 0 /\ DOMAIN ready_list = {}
    BY DEF Init, Range
  <2>2. curr # Nobody
    BY SchedulerAssumption DEF Init
  <2>3. \A t \in Threads : state[t] # "ready" /\ (state[t] = "running" <=> t = curr)
    BY DEF Init
  <2>4. QED  BY <2>1, <2>2, <2>3 DEF Init, QueueMatchesState
<1>3. TimersMatchDebts /\ ChargedAtMostOnce
  BY DEF Init, TimersMatchDebts, ChargedAtMostOnce
<1>4. QED  BY <1>1, <1>2, <1>3 DEF IInv

\* thread_yield at the time to which the debts in due reach.
LEMMA YieldInv ==
  ASSUME IInv, NEW time \in Nat, NEW due \in [Threads -> Int],
         \A t \in Threads : t # curr => due[t] = owed[t],
         curr # Nobody => due[curr] = time - timer_start[curr] /\ due[curr] >= 0,
         Yield(time, due),
         now' = time, thread_ticks' \in Int, last_time' \in Int, min_vruntime' \in Nat
  PROVE  IInv' /\ \A t \in Threads : vruntime'[t] >= vruntime[t]
<1>1. /\ QueueOf(ready_list, nr_ready, state)
      /\ curr # Nobody => curr \in Threads /\ state[curr] = "running"
      /\ \A t \in Threads : t # curr => state[t] # "running"
  BY Running
<1>2. /\ timer_start \in [Threads -> Int] /\ timer_stop \in [Threads -> Int]
      /\ vruntime \in [Threads -> Nat] /\ owed \in [Threads -> Int]
      /\ state \in [Threads -> States]
      /\ \A t \in Threads : owed[t] >= 0
      /\ \A t \in Threads : state[t] = "blocked" =>
           timer_start[t] <= timer_stop[t] /\ timer_stop[t] - timer_start[t] <= owed[t]
      /\ \A t \in Threads : state[t] = "new" => vruntime[t] = 0
  BY DEF IInv, TypeOK, ChargedAtMostOnce, TimersMatchDebts, States
<1>3. CASE curr = Nobody
  <2>1. schedule(vruntime, ready_list, nr_ready, state, due, time)
    BY <1>3 DEF Yield
  <2>2. vruntime' = vruntime /\ timer_stop' = timer_stop
    BY <1>3 DEF Yield
  <2>3. \A t \in Threads : due[t] = owed[t] /\ state[t] # "running"
    BY <1>1, <1>3, SchedulerAssumption
  <2>4. IInv'
    BY <1>1, <1>2, <2>1, <2>2, <2>3, ScheduledInv
  <2>5. QED  BY <1>2, <2>2, <2>4
<1>4. CASE curr # Nobody
  <2> DEFINE d == time - timer_start[curr]
             v == [vruntime EXCEPT ![curr] = @ + charge(curr, d, 20)]
             left == [state EXCEPT ![curr] = "ready"]
             paid == [due EXCEPT ![curr] = @ - d]
  <2>1. curr \in Threads /\ state[curr] = "running" /\ d \in Nat /\ due[curr] = d
    BY <1>1, <1>2, <1>4
  <2>2. charge(curr, d, 20) \in Nat
    BY <2>1, ChargeNat
  <2>3. /\ vruntime' = v /\ timer_stop' = [timer_stop EXCEPT ![curr] = time]
        /\ schedule(v, Append(ready_list, curr), nr_ready + 1, left, paid, time)
    BY <1>4, Zenon DEF Yield
  <2>4. /\ v \in [Threads -> Nat]
        /\ \A t \in Threads : v[t] >= vruntime[t] /\ (t # curr => v[t] = vruntime[t])
    BY <1>2, <2>1, <2>2
  <2>5. /\ left[curr] = "ready"
        /\ \A t \in Threads : t # curr => left[t] = state[t]
    BY <1>2, <2>1
  <2>6. /\ paid \in [Threads -> Int] /\ paid[curr] = 0
        /\ \A t \in Threads : t # curr => paid[t] = owed[t]
    BY <1>2, <2>1
  <2>7. /\ timer_stop' \in [Threads -> Int]
        /\ \A t \in Threads : t # curr => timer_stop'[t] = timer_stop[t]
    BY <1>2, <2>1, <2>3
  <2>8. QueueOf(Append(ready_list, curr), nr_ready + 1, left)
    BY <1>1, <2>1, Enqueued
  <2> HIDE DEF d, v, left, paid
  <2>9. \A t \in Threads : left[t] # "running" /\ paid[t] >= 0
    BY <1>1, <1>2, <2>5, <2>6
  <2>10. ASSUME NEW t \in Threads, left[t] = "blocked"
         PROVE  timer_start[t] <= timer_stop'[t] /\ timer_stop'[t] - timer_start[t] <= paid[t]
    BY <1>2, <2>5, <2>6, <2>7, <2>10
  <2>11. ASSUME NEW t \in Threads, left[t] = "new"  PROVE vruntime'[t] = 0
    BY <1>2, <2>3, <2>4, <2>5, <2>11
  <2>12. IInv'
    BY <1>2, <2>3, <2>4, <2>6, <2>7, <2>8, <2>9, <2>10, <2>11, ScheduledInv
  <2>13. QED  BY <2>3, <2>4, <2>12
<1>5. QED  BY <1>3, <1>4

\* What the two forms of sched_unblock have in common: t joins the queue, the
\* thread that runs is charged and its timer started again.
LEMMA WakeInv ==
  ASSUME IInv, NEW t \in Threads, state[t] \in {"blocked", "new"},
         state' = [state EXCEPT ![t] = "ready"],
         ready_list' = Append(ready_list, t), nr_ready' = nr_ready + 1,
         UNCHANGED <<curr, clock>>,
         min_vruntime' \in Nat, vruntime' \in [Threads -> Nat], owed' \in [Threads -> Int],
         timer_start' \in [Threads -> Int], timer_stop' \in [Threads -> Int],
         owed'[t] >= 0,
         curr # Nobody => owed'[curr] = now - timer_start'[curr] /\ owed'[curr] >= 0,
         \A u \in Threads \ {t, curr} :
           /\ owed'[u] = owed[u] /\ vruntime'[u] = vruntime[u]
           /\ timer_start'[u] = timer_start[u] /\ timer_stop'[u] = timer_stop[u]
  PROVE  IInv'
<1>1. /\ QueueOf(ready_list, nr_ready, state)
      /\ curr # Nobody => curr \in Threads /\ state[curr] = "running"
      /\ \A u \in Threads : u # curr => state[u] # "running"
  BY Running
<1>2. QueueOf(ready_list', nr_ready', state')
  BY <1>1, Enqueued, Zenon
<1>3. /\ state'[t] = "ready"
      /\ \A u \in Threads : u # t => state'[u] = state[u]
      /\ curr # t
  BY <1>1, SchedulerAssumption, Zenon DEF QueueOf
<1>4. TypeOK'
  BY <1>2 DEF IInv, TypeOK, QueueOf, States, clock
<1>5. {u \in Threads : state'[u] = "running"} = {curr'} \ {Nobody}
  <2>1. curr' = curr /\ curr \in Threads \cup {Nobody}
    BY DEF IInv, TypeOK
  <2>2. \A u \in Threads : state'[u] = "running" <=> (u = curr /\ curr # Nobody)
    BY <1>1, <1>3, SchedulerAssumption, Zenon
  <2>3. QED  BY <2>1, <2>2
<1>6. QueueMatchesState'
  BY <1>2, <1>5, Zenon DEF QueueMatchesState, QueueOf
<1>7. TimersMatchDebts'
  <2>1. curr' # Nobody => owed'[curr'] = now' - timer_start'[curr']
    BY DEF clock
  <2>2. ASSUME NEW u \in Threads, state'[u] \in {"blocked", "new"}
        PROVE  u \in Threads \ {t, curr} /\ state[u] = state'[u]
    BY <1>1, <1>3, <2>2, SchedulerAssumption, Zenon
  <2>3. ASSUME NEW u \in Threads, state'[u] = "blocked"
        PROVE  timer_start'[u] <= timer_stop'[u] /\ timer_stop'[u] - timer_start'[u] <= owed'[u]
    BY <2>2, <2>3, Zenon DEF IInv, TimersMatchDebts
  <2>4. ASSUME NEW u \in Threads, state'[u] = "new"  PROVE vruntime'[u] = 0
    BY <2>2, <2>4, Zenon DEF IInv, TimersMatchDebts
  <2>5. QED  BY <2>1, <2>3, <2>4 DEF TimersMatchDebts
<1>8. ChargedAtMostOnce'
  <2> SUFFICES ASSUME NEW u \in Threads PROVE owed'[u] >= 0
    BY DEF ChargedAtMostOnce
  <2>1. CASE u = t
    BY <2>1
  <2>2. CASE u = curr
    BY <2>2, SchedulerAssumption
  <2>3. CASE u \in Threads \ {t, curr}
    BY <2>3, Zenon DEF IInv, ChargedAtMostOnce
  <2>4. QED  BY <2>1, <2>2, <2>3
<1>9. QED  BY <1>4, <1>6, <1>7, <1>8 DEF IInv

\* sched_unblock of a thread that slept.
LEMMA UnblockInv ==
  ASSUME IInv, NEW t \in Threads, sched_unblock(t)
  PROVE  IInv' /\ \A u \in Threads : vruntime'[u] >= vruntime[u]
<1>1. /\ timer_start \in [Threads -> Int] /\ timer_stop \in [Threads -> Int]
      /\ vruntime \in [Threads -> Nat] /\ owed \in [Threads -> Int]
      /\ min_vruntime \in Nat /\ now \in Nat /\ SleepCredit \in Nat
      /\ \A u \in Threads : owed[u] >= 0
  BY SchedulerAssumption, Zenon DEF IInv, TypeOK, ChargedAtMostOnce
<1>2. /\ state[t] = "blocked"
      /\ state' = [state EXCEPT ![t] = "ready"]
      /\ ready_list' = Append(ready_list, t) /\ nr_ready' = nr_ready + 1
      /\ UNCHANGED <<curr, clock>>
  BY DEF sched_unblock
<1>3. /\ timer_stop[t] - timer_start[t] \in Nat
      /\ timer_stop[t] - timer_start[t] <= owed[t]
  BY <1>1, <1>2 DEF IInv, TimersMatchDebts
<1>4. curr # Nobody => /\ curr \in Threads /\ curr # t
                       /\ now - timer_start[curr] \in Nat
                       /\ owed[curr] = now - timer_start[curr]
  BY <1>2, Running
<1>5. CASE curr = Nobody
  <2>1. UNCHANGED <<vruntime, min_vruntime, timers, owed>>
    BY <1>5 DEF sched_unblock
  <2>2. IInv'
    BY <1>1, <1>2, <1>5, <2>1, WakeInv, Zenon DEF timers
  <2>3. QED  BY <1>1, <2>1, <2>2
<1>6. CASE curr # Nobody
  <2> DEFINE c == charge(curr, now - timer_start[curr], 20)
             charged == [vruntime EXCEPT ![curr] = @ + c]
             own == vruntime[t] + charge(t, timer_stop[t] - timer_start[t], 0)
             least == min_vruntime' - SleepCredit
             best == IF own > least THEN own ELSE least
  <2>1. c \in Nat /\ charge(t, timer_stop[t] - timer_start[t], 0) \in Nat
    BY <1>3, <1>4, <1>6, ChargeNat
  <2>2. /\ timer_stop' = [timer_stop EXCEPT ![curr] = now]
        /\ timer_start' = [timer_start EXCEPT ![curr] = now]
        /\ set_min_vruntime(charged, ready_list)
        /\ vruntime' = [charged EXCEPT ![t] = best]
        /\ owed' = [owed EXCEPT ![curr] = @ - (now - timer_start[curr]),
                                ![t] = @ - (timer_stop[t] - timer_start[t])]
    BY <1>6 DEF sched_unblock
  <2>3. charged \in [Threads -> Nat] /\ charged[curr] = vruntime[curr] + c
        /\ \A u \in Threads \ {curr} : charged[u] = vruntime[u]
    BY <1>1, <1>4, <1>6, <2>1
  <2>4. min_vruntime' \in Nat
    BY <2>2, <2>3, MinVruntimeNat, Zenon
  <2>5. best \in Nat /\ best >= vruntime[t]
    <3>1. own \in Nat /\ own >= vruntime[t]
      BY <1>1, <2>1
    <3>2. least \in Int
      BY <1>1, <2>4
    <3> HIDE DEF own, least
    <3>3. QED  BY <1>1, <3>1, <3>2
  <2> HIDE DEF c, charged, best
  <2>6. /\ vruntime' \in [Threads -> Nat] /\ vruntime'[t] = best
        /\ \A u \in Threads \ {t} : vruntime'[u] = charged[u]
    BY <2>2, <2>3, <2>5
  <2>7. /\ owed' \in [Threads -> Int]
        /\ owed'[curr] = 0 /\ owed'[t] = owed[t] - (timer_stop[t] - timer_start[t])
        /\ \A u \in Threads \ {t, curr} : owed'[u] = owed[u]
    BY <1>1, <1>4, <1>6, <2>2
  <2>8. /\ timer_start' \in [Threads -> Int] /\ timer_stop' \in [Threads -> Int]
        /\ timer_start'[curr] = now
        /\ \A u \in Threads \ {curr} :
             timer_start'[u] = timer_start[u] /\ timer_stop'[u] = timer_stop[u]
    BY <1>1, <1>4, <1>6, <2>2
  <2>9. IInv'
    <3>1. owed'[t] >= 0 /\ owed'[curr] = now - timer_start'[curr] /\ owed'[curr] >= 0
      BY <1>1, <1>3, <2>7, <2>8
    <3>2. \A u \in Threads \ {t, curr} :
            /\ owed'[u] = owed[u] /\ vruntime'[u] = vruntime[u]
            /\ timer_start'[u] = timer_start[u] /\ timer_stop'[u] = timer_stop[u]
      BY <2>3, <2>6, <2>7, <2>8
    <3>3. QED  BY <1>2, <2>4, <2>6, <2>7, <2>8, <3>1, <3>2, WakeInv, Zenon
  <2>10. \A u \in Threads : vruntime'[u] >= vruntime[u]
    BY <1>1, <1>4, <1>6, <2>1, <2>3, <2>5, <2>6
  <2>11. QED  BY <2>9, <2>10
<1>7. QED  BY <1>5, <1>6

\* sched_unblock of a new thread.
LEMMA UnblockInitialInv ==
  ASSUME IInv, NEW t \in Threads, sched_unblock_initial(t)
  PROVE  IInv' /\ \A u \in Threads : vruntime'[u] >= vruntime[u]
<1>1. /\ timer_start \in [Threads -> Int] /\ timer_stop \in [Threads -> Int]
      /\ vruntime \in [Threads -> Nat] /\ owed \in [Threads -> Int]
      /\ min_vruntime \in Nat /\ now \in Nat
      /\ \A u \in Threads : owed[u] >= 0
  BY DEF IInv, TypeOK, ChargedAtMostOnce
<1>2. /\ state[t] = "new"
      /\ state' = [state EXCEPT ![t] = "ready"]
      /\ ready_list' = Append(ready_list, t) /\ nr_ready' = nr_ready + 1
      /\ UNCHANGED <<curr, clock>>
  BY DEF sched_unblock_initial
<1>3. vruntime[t] = 0
  BY <1>2 DEF IInv, TimersMatchDebts
<1>4. curr # Nobody => /\ curr \in Threads /\ curr # t
                       /\ now - timer_start[curr] \in Nat
                       /\ owed[curr] = now - timer_start[curr]
  BY <1>2, Running
<1>5. CASE curr = Nobody
  <2>1. UNCHANGED <<vruntime, min_vruntime, timers, owed>>
    BY <1>5 DEF sched_unblock_initial
  <2>2. IInv'
    BY <1>1, <1>2, <1>5, <2>1, WakeInv, Zenon DEF timers
  <2>3. QED  BY <1>1, <2>1, <2>2
<1>6. CASE curr # Nobody
  <2> DEFINE c == charge(curr, now - timer_start[curr], 20)
             charged == [vruntime EXCEPT ![curr] = @ + c]
             birth == IF min_vruntime' # 0 THEN min_vruntime' ELSE charged[curr]
  <2>1. c \in Nat
    BY <1>4, <1>6, ChargeNat
  <2>2. /\ timer_stop' = [timer_stop EXCEPT ![curr] = now]
        /\ timer_start' = [timer_start EXCEPT ![curr] = now]
        /\ min_vruntime' = min_vruntime \/ set_min_vruntime(charged, ready_list)
        /\ vruntime' = [charged EXCEPT ![t] = birth]
        /\ owed' = [owed EXCEPT ![curr] = @ - (now - timer_start[curr])]
    BY <1>6 DEF sched_unblock_initial
  <2>3. charged \in [Threads -> Nat] /\ charged[curr] = vruntime[curr] + c
        /\ \A u \in Threads \ {curr} : charged[u] = vruntime[u]
    BY <1>1, <1>4, <1>6, <2>1
  <2>4. min_vruntime' \in Nat
    BY <1>1, <2>2, <2>3, MinVruntimeNat, Zenon
  <2>5. birth \in Nat /\ birth >= vruntime[t]
    BY <1>1, <1>3, <1>4, <1>6, <2>1, <2>3, <2>4
  <2> HIDE DEF c, charged, birth
  <2>6. /\ vruntime' \in [Threads -> Nat] /\ vruntime'[t] = birth
        /\ \A u \in Threads \ {t} : vruntime'[u] = charged[u]
    BY <2>2, <2>3, <2>5
  <2>7. /\ owed' \in [Threads -> Int] /\ owed'[curr] = 0
        /\ \A u \in Threads \ {curr} : owed'[u] = owed[u]
    BY <1>1, <1>4, <1>6, <2>2
  <2>8. /\ timer_start' \in [Threads -> Int] /\ timer_stop' \in [Threads -> Int]
        /\ timer_start'[curr] = now
        /\ \A u \in Threads \ {curr} :
             timer_start'[u] = timer_start[u] /\ timer_stop'[u] = timer_stop[u]
    BY <1>1, <1>4, <1>6, <2>2
  <2>9. IInv'
    <3>1. owed'[t] >= 0 /\ owed'[curr] = now - timer_start'[curr] /\ owed'[curr] >= 0
      BY <1>1, <1>4, <1>6, <2>7, <2>8
    <3>2. \A u \in Threads \ {t, curr} :
            /\ owed'[u] = owed[u] /\ vruntime'[u] = vruntime[u]
            /\ timer_start'[u] = timer_start[u] /\ timer_stop'[u] = timer_stop[u]
      BY <2>3, <2>6, <2>7, <2>8
    <3>3. QED  BY <1>2, <2>4, <2>6, <2>7, <2>8, <3>1, <3>2, WakeInv, Zenon
  <2>10. \A u \in Threads : vruntime'[u] >= vruntime[u]
    BY <1>1, <1>4, <1>6, <2>1, <2>3, <2>5, <2>6
  <2>11. QED  BY <2>9, <2>10
<1>7. QED  BY <1>5, <1>6

\* thread_block and thread_exit: the thread that ran leaves the CPU.
LEMMA LeaveInv ==
  ASSUME IInv, sched_block \/ Exit
  PROVE  IInv' /\ \A t \in Threads : vruntime'[t] >= vruntime[t]
<1>1. /\ timer_start \in [Threads -> Int] /\ timer_stop \in [Threads -> Int]
      /\ vruntime \in [Threads -> Nat] /\ owed \in [Threads -> Int] /\ now \in Nat
      /\ thread_ticks \in Int /\ last_time \in Int /\ min_vruntime \in Nat
      /\ \A t \in Threads : owed[t] >= 0
      /\ \A t \in Threads : state[t] = "blocked" =>
           timer_start[t] <= timer_stop[t] /\ timer_stop[t] - timer_start[t] <= owed[t]
      /\ \A t \in Threads : state[t] = "new" => vruntime[t] = 0
  BY DEF IInv, TypeOK, ChargedAtMostOnce, TimersMatchDebts
<1>2. curr # Nobody /\ UNCHANGED <<clock, min_vruntime, vruntime>>
  BY DEF sched_block, Exit
<1>3. /\ QueueOf(ready_list, nr_ready, state)
      /\ curr \in Threads /\ state[curr] = "running"
      /\ now - timer_start[curr] \in Nat /\ owed[curr] = now - timer_start[curr]
      /\ \A t \in Threads : t # curr => state[t] # "running"
  BY <1>2, Running
<1>4. PICK to \in {"blocked", "dead"} :
        /\ schedule(vruntime, ready_list, nr_ready, [state EXCEPT ![curr] = to], owed, now)
        /\ to = "blocked" => timer_stop' = [timer_stop EXCEPT ![curr] = now]
        /\ to = "dead" => timer_stop' = timer_stop
  BY DEF sched_block, Exit
<1> DEFINE left == [state EXCEPT ![curr] = to]
<1>5. /\ left[curr] = to /\ left \in [Threads -> States]
      /\ \A t \in Threads : t # curr => left[t] = state[t]
  BY <1>3 DEF QueueOf, States
<1> HIDE DEF left
<1>6. QueueOf(ready_list, nr_ready, left) /\ \A t \in Threads : left[t] # "running"
  BY <1>3, <1>5 DEF QueueOf
<1>7. /\ timer_stop' \in [Threads -> Int]
      /\ to = "blocked" => timer_stop'[curr] = now
      /\ \A t \in Threads : t # curr => timer_stop'[t] = timer_stop[t]
  BY <1>1, <1>3, <1>4
<1>8. ASSUME NEW t \in Threads, left[t] = "blocked"
      PROVE  timer_start[t] <= timer_stop'[t] /\ timer_stop'[t] - timer_start[t] <= owed[t]
  <2>1. CASE t = curr
    BY <1>1, <1>3, <1>5, <1>7, <1>8, <2>1
  <2>2. CASE t # curr
    BY <1>1, <1>5, <1>7, <1>8, <2>2
  <2>3. QED  BY <2>1, <2>2
<1>9. ASSUME NEW t \in Threads, left[t] = "new"  PROVE vruntime'[t] = 0
  BY <1>1, <1>2, <1>5, <1>9
<1>10. schedule(vruntime, ready_list, nr_ready, left, owed, now)
  BY <1>4 DEF left
<1>11. IInv'
  BY <1>1, <1>2, <1>6, <1>7, <1>8, <1>9, <1>10, ScheduledInv DEF clock
<1>12. QED  BY <1>1, <1>2, <1>11

\* timer_interrupt: the thread that runs owes one tick more, and may be
\* preempted, whatever calc_ideal_runtime computes.
LEMMA TickInv ==
  ASSUME IInv, sched_tick
  PROVE  IInv' /\ \A t \in Threads : vruntime'[t] >= vruntime[t]
<1> DEFINE time == now + TickLength
           ticks == thread_ticks + time - last_time
           due == [t \in Threads |-> owed[t] + IF t = curr THEN TickLength ELSE 0]
<1>1. /\ timer_start \in [Threads -> Int] /\ vruntime \in [Threads -> Nat]
      /\ owed \in [Threads -> Int] /\ now \in Nat /\ TickLength \in Nat
      /\ thread_ticks \in Int /\ last_time \in Int /\ min_vruntime \in Nat
      /\ \A t \in Threads : owed[t] >= 0
  BY SchedulerAssumption, Zenon DEF IInv, TypeOK, ChargedAtMostOnce
<1>2. time \in Nat /\ ticks \in Int
  BY <1>1
<1>3. /\ now' = time /\ last_time' = time /\ min_vruntime' = min_vruntime
      /\ \/ thread_ticks' = 0 /\ Yield(time, due)
         \/ thread_ticks' = ticks /\ owed' = due /\ UNCHANGED <<rq, state, vruntime, timers>>
  BY DEF sched_tick
<1>4. /\ due \in [Threads -> Int]
      /\ \A t \in Threads : due[t] >= 0 /\ (t # curr => due[t] = owed[t])
      /\ curr \in Threads => due[curr] = owed[curr] + TickLength
  BY <1>1
<1>5. curr # Nobody => /\ curr \in Threads
                       /\ due[curr] = time - timer_start[curr] /\ due[curr] >= 0
  BY <1>1, <1>4, Running
<1> HIDE DEF due
<1>6. CASE thread_ticks' = 0 /\ Yield(time, due)
  BY <1>1, <1>2, <1>3, <1>4, <1>5, <1>6, YieldInv
<1>7. CASE thread_ticks' = ticks /\ owed' = due /\ UNCHANGED <<rq, state, vruntime, timers>>
  <2>1. TypeOK'
    BY <1>2, <1>3, <1>4, <1>7 DEF IInv, TypeOK, rq, timers
  <2>2. QueueMatchesState'
    BY <1>7 DEF IInv, QueueMatchesState, rq
  <2>3. TimersMatchDebts'
    <3>1. curr' # Nobody => owed'[curr'] = now' - timer_start'[curr']
      BY <1>3, <1>5, <1>7 DEF rq, timers
    <3>2. ASSUME NEW t \in Threads, state'[t] = "blocked"
          PROVE  timer_start'[t] <= timer_stop'[t] /\ timer_stop'[t] - timer_start'[t] <= owed'[t]
      <4>1. t # curr
        BY <1>7, <3>2, Running, SchedulerAssumption
      <4>2. QED  BY <1>4, <1>7, <3>2, <4>1 DEF IInv, TimersMatchDebts, timers
    <3>3. ASSUME NEW t \in Threads, state'[t] = "new"  PROVE vruntime'[t] = 0
      BY <1>7, <3>3 DEF IInv, TimersMatchDebts
    <3>4. QED  BY <3>1, <3>2, <3>3 DEF TimersMatchDebts
  <2>4. ChargedAtMostOnce'
    BY <1>4, <1>7 DEF ChargedAtMostOnce
  <2>5. QED  BY <1>1, <1>7, <2>1, <2>2, <2>3, <2>4 DEF IInv
<1>8. QED  BY <1>3, <1>6, <1>7

\* Every step of the scheduler keeps the invariant and takes no virtual time
\* back.
LEMMA StepInv ==
  ASSUME IInv, [Next]_vars
  PROVE  IInv' /\ \A t \in Threads : vruntime'[t] >= vruntime[t]
<1>1. /\ vruntime \in [Threads -> Nat] /\ owed \in [Threads -> Int]
      /\ now \in Nat /\ thread_ticks \in Int /\ last_time \in Int /\ min_vruntime \in Nat
  BY DEF IInv, TypeOK
<1>2. CASE UNCHANGED vars
  BY <1>1, <1>2 DEF vars, rq, clock, timers, IInv, TypeOK, QueueMatchesState,
                    TimersMatchDebts, ChargedAtMostOnce
<1>3. CASE sched_yield
  <2>1. Yield(now, owed) /\ UNCHANGED <<clock, min_vruntime>>
    BY <1>3 DEF sched_yield
  <2>2. curr # Nobody => owed[curr] = now - timer_start[curr] /\ owed[curr] >= 0
    BY Running
  <2>3. QED  BY <1>1, <2>1, <2>2, YieldInv DEF clock
<1>4. CASE sched_block \/ Exit
  BY <1>4, LeaveInv
<1>5. CASE sched_tick
  BY <1>5, TickInv
<1>6. ASSUME NEW t \in Threads, sched_unblock(t) \/ sched_unblock_initial(t)
      PROVE  IInv' /\ \A u \in Threads : vruntime'[u] >= vruntime[u]
  BY <1>6, UnblockInv, UnblockInitialInv
<1>7. QED  BY <1>2, <1>3, <1>4, <1>5, <1>6 DEF Next

\* For every set of threads, nice values, weights and lengths of a tick: the
\* ready list and the states agree, and the timers account for what is charged.
THEOREM Invariance == Spec => []IInv
<1>1. IInv /\ [Next]_vars => IInv'
  BY StepInv
<1>2. QED  BY InitIInv, <1>1, PTL DEF Spec

\* The ready list holds the ready threads once each and nr_ready counts them.
THEOREM QueueIsSound == Spec => []QueueMatchesState
<1>1. IInv => QueueMatchesState
  BY DEF IInv
<1>2. QED  BY <1>1, Invariance, PTL

\* calc_vruntime never weighs a stretch of running twice.
THEOREM ChargesAreSound == Spec => []ChargedAtMostOnce
<1>1. IInv => ChargedAtMostOnce
  BY DEF IInv
<1>2. QED  BY <1>1, Invariance, PTL

\* No call of the scheduler takes virtual time back from a thread.
THEOREM Monotonicity == Spec => VruntimeNeverDecreases
<1>1. IInv /\ [Next]_vars => [\A t \in Threads : vruntime'[t] >= vruntime[t]]_vars
  BY StepInv
<1>2. QED  BY <1>1, Invariance, PTL DEF Spec, VruntimeNeverDecreases
=============================================================================
