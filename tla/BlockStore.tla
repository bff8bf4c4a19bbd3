----------------------------- MODULE BlockStore -----------------------------
(***************************************************************************)
(* What the buffer cache promises its callers: an array of sectors on      *)
(* which every call takes effect once, at one moment between its start and *)
(* its end, as if there were neither a cache nor a disk behind it.  A      *)
(* sector's 512 bytes are abstracted to one of M contents; a write is a    *)
(* read-modify-write that steps to the next one, so a lost or a doubled    *)
(* update is visible in the result.                                        *)
(***************************************************************************)
EXTENDS Naturals

CONSTANTS Clients, Sectors, M, Ops

VARIABLES store,  \* the contents of every sector
          calls,  \* each client's call under way, if it has one
          got     \* what each client's last read returned

Modify(v) == (v + 1) % M

NoCall == [op |-> "none"]

Init ==
  /\ store = [s \in Sectors |-> 0]
  /\ calls = [c \in Clients |-> NoCall]
  /\ got = [c \in Clients |-> 0]

Call(c, o, s) ==
  /\ calls[c] = NoCall
  /\ calls' = [calls EXCEPT ![c] = [op |-> o, on |-> s, done |-> FALSE]]
  /\ UNCHANGED <<store, got>>

\* The moment at which a call takes effect.
Effect(c) ==
  LET s == calls[c].on IN
  /\ calls[c] # NoCall /\ ~calls[c].done
  /\ calls' = [calls EXCEPT ![c].done = TRUE]
  /\ \/ /\ calls[c].op \in {"read", "index"}
        /\ got' = [got EXCEPT ![c] = store[s]]
        /\ UNCHANGED store
     \/ /\ calls[c].op = "write"
        /\ store' = [store EXCEPT ![s] = Modify(@)]
        /\ UNCHANGED got
     \/ /\ calls[c].op = "zero"
        /\ store' = [store EXCEPT ![s] = 0]
        /\ UNCHANGED got

Return(c) ==
  /\ calls[c] # NoCall /\ calls[c].done
  /\ calls' = [calls EXCEPT ![c] = NoCall]
  /\ UNCHANGED <<store, got>>

Next ==
  \E c \in Clients : \/ Effect(c)
                     \/ Return(c)
                     \/ \E o \in Ops, s \in Sectors : Call(c, o, s)

Spec == Init /\ [][Next]_<<store, calls, got>>
=============================================================================
