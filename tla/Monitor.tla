------------------------------ MODULE Monitor ------------------------------
(***************************************************************************)
(* What a lock and a condition variable of threads/synch.c promise the     *)
(* code that uses them, and what the models of that code take them to be:  *)
(* the lock has one holder; waiting gives it up and joins the condition's  *)
(* list in one instant; a signal lets the first waiter of the list go, who *)
(* then competes for the lock like any other thread ("Mesa" style).        *)
(***************************************************************************)
EXTENDS Sequences

CONSTANTS Threads, NoThread

VARIABLES holder,  \* who holds the lock, or NoThread
          waiting  \* who waits for the condition, first come first

Init == holder = NoThread /\ waiting = << >>

Acquire(t) ==
  /\ holder = NoThread
  /\ \A i \in DOMAIN waiting : waiting[i] # t
  /\ holder' = t
  /\ UNCHANGED waiting

Release(t) ==
  /\ holder = t
  /\ holder' = NoThread
  /\ UNCHANGED waiting

Wait(t) ==
  /\ holder = t
  /\ holder' = NoThread
  /\ waiting' = Append(waiting, t)

Signal(t) ==
  /\ holder = t
  /\ waiting # << >>
  /\ waiting' = Tail(waiting)
  /\ UNCHANGED holder

Next == \E t \in Threads : Acquire(t) \/ Release(t) \/ Wait(t) \/ Signal(t)

Spec == Init /\ [][Next]_<<holder, waiting>>
=============================================================================
