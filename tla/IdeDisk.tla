------------------------------ MODULE IdeDisk ------------------------------
(***************************************************************************)
(* One channel of the IDE driver (devices/ide.c) with its two disks, as    *)
(* the block layer (devices/block.c) calls it.  Threads read and write     *)
(* sectors; the controller is external, modelled by its status register    *)
(* and its interrupt: a read interrupts when the data is ready, a write    *)
(* asks for the data first and interrupts when it is on the disk.  The     *)
(* controller always answers in time; waiting for a status bit is a guard. *)
(***************************************************************************)
EXTENDS Integers

CONSTANTS Threads, NULL, Devices, Sectors, Values,
          Size,      \* sectors of a disk; a request past the end panics
          MaxCalls   \* bound on the calls

VARIABLES lock,       \* c->lock: its holder
          expecting,  \* c->expecting_interrupt
          completion, \* the value of c->completion_wait
          reg,        \* the controller: dev, sector, command; busy, drq, irq; data
          disk,       \* device -> sector -> value
          ide_pc, req, buffer, ide_calls, ide_panic,
          last        \* history: the value last written to each sector

vars == <<lock, expecting, completion, reg, disk, ide_pc, req, buffer, ide_calls, ide_panic, last>>

NoValue == 0
Requests == [op : {"read", "write"}, dev : Devices, sector : Sectors, value : Values]
go(t, label) == ide_pc' = [ide_pc EXCEPT ![t] = label]

Init ==
  /\ lock = NULL /\ expecting = FALSE /\ completion = 0
  /\ reg = [dev |-> NULL, sector |-> 0, command |-> NULL, busy |-> FALSE, drq |-> FALSE,
            irq |-> FALSE, data |-> NoValue]
  /\ disk = [d \in Devices |-> [s \in Sectors |-> NoValue]]
  /\ last = disk
  /\ ide_pc = [t \in Threads |-> "idle"]
  /\ req = [t \in Threads |-> NULL] /\ buffer = [t \in Threads |-> NoValue]
  /\ ide_calls = 0 /\ ide_panic = FALSE

\* block_read and block_write up to the driver.
check_sector(t, r) ==
  /\ ide_pc[t] = "idle" /\ ide_calls < MaxCalls
  /\ r.op = "read" => r.value = CHOOSE v \in Values : TRUE
  /\ ide_calls' = ide_calls + 1
  /\ req' = [req EXCEPT ![t] = r]
  /\ IF r.sector >= Size THEN ide_panic' = TRUE /\ UNCHANGED ide_pc
                         ELSE go(t, "acquire") /\ UNCHANGED ide_panic
  /\ UNCHANGED <<lock, expecting, completion, reg, disk, buffer, last>>

Acquire(t) ==
  /\ ide_pc[t] = "acquire" /\ lock = NULL
  /\ lock' = t /\ go(t, "select")
  /\ UNCHANGED <<expecting, completion, reg, disk, req, buffer, ide_calls, ide_panic, last>>

\* select_sector: wait_until_idle reads the status, which clears an interrupt.
select_sector(t) ==
  /\ ide_pc[t] = "select" /\ ~reg.busy /\ ~reg.drq
  /\ reg' = [reg EXCEPT !.dev = req[t].dev, !.sector = req[t].sector, !.irq = FALSE]
  /\ go(t, "issue")
  /\ UNCHANGED <<lock, expecting, completion, disk, req, buffer, ide_calls, ide_panic, last>>

issue_pio_command(t) ==
  /\ ide_pc[t] = "issue"
  /\ expecting' = TRUE
  /\ reg' = [reg EXCEPT !.command = req[t].op, !.busy = TRUE]
  /\ go(t, IF req[t].op = "read" THEN "down" ELSE "busy")
  /\ UNCHANGED <<lock, completion, disk, req, buffer, ide_calls, ide_panic, last>>

\* sema_down; a write is done after it, a read goes on.
sema_down(t) ==
  /\ ide_pc[t] = "down" /\ completion > 0
  /\ completion' = completion - 1
  /\ go(t, IF req[t].op = "read" THEN "busy" ELSE "release")
  /\ UNCHANGED <<lock, expecting, reg, disk, req, buffer, ide_calls, ide_panic, last>>

\* Mutant: a write does not wait for its completion.
MutantNoWait(t) ==
  /\ ide_pc[t] = "busy" /\ ~reg.busy
  /\ IF ~reg.drq THEN ide_panic' = TRUE /\ UNCHANGED <<ide_pc, reg, buffer>>
     ELSE /\ UNCHANGED ide_panic
          /\ go(t, "release")
          /\ IF req[t].op = "read"
             THEN /\ buffer' = [buffer EXCEPT ![t] = reg.data]
                  /\ reg' = [reg EXCEPT !.drq = FALSE]
             ELSE /\ reg' = [reg EXCEPT !.drq = FALSE, !.busy = TRUE, !.data = req[t].value]
                  /\ UNCHANGED buffer
  /\ UNCHANGED <<lock, expecting, completion, disk, req, ide_calls, last>>

\* wait_while_busy, then input_sector or output_sector.
Transfer(t) ==
  /\ ide_pc[t] = "busy" /\ ~reg.busy
  /\ IF ~reg.drq THEN ide_panic' = TRUE /\ UNCHANGED <<ide_pc, reg, buffer>>
     ELSE /\ UNCHANGED ide_panic
          /\ IF req[t].op = "read"
             THEN /\ buffer' = [buffer EXCEPT ![t] = reg.data]
                  /\ reg' = [reg EXCEPT !.drq = FALSE]
                  /\ go(t, "release")
             ELSE /\ reg' = [reg EXCEPT !.drq = FALSE, !.busy = TRUE, !.data = req[t].value]
                  /\ go(t, "down")
                  /\ UNCHANGED buffer
  /\ UNCHANGED <<lock, expecting, completion, disk, req, ide_calls, last>>

Release(t) ==
  /\ ide_pc[t] = "release"
  /\ lock' = NULL /\ go(t, "done")
  /\ last' = IF req[t].op = "read" THEN last
             ELSE [last EXCEPT ![req[t].dev][req[t].sector] = req[t].value]
  /\ UNCHANGED <<expecting, completion, reg, disk, req, buffer, ide_calls, ide_panic>>

Return(t) ==   \* the caller goes on
  /\ ide_pc[t] = "done" /\ go(t, "idle")
  /\ req' = [req EXCEPT ![t] = NULL] /\ buffer' = [buffer EXCEPT ![t] = NoValue]
  /\ UNCHANGED <<lock, expecting, completion, reg, disk, ide_calls, ide_panic, last>>

interrupt_handler ==
  /\ reg.irq
  /\ IF expecting THEN completion' = completion + 1 /\ reg' = [reg EXCEPT !.irq = FALSE]
                  ELSE UNCHANGED <<completion, reg>>
  /\ UNCHANGED <<lock, expecting, disk, ide_pc, req, buffer, ide_calls, ide_panic, last>>

\* The controller works on its command: data for a read, a request for data,
\* the data on the disk.
Controller ==
  /\ reg.busy
  /\ \/ /\ reg.command = "read"
        /\ reg' = [reg EXCEPT !.busy = FALSE, !.drq = TRUE, !.irq = TRUE,
                              !.data = disk[reg.dev][reg.sector]]
        /\ UNCHANGED disk
     \/ /\ reg.command = "write"
        /\ reg' = [reg EXCEPT !.busy = FALSE, !.drq = TRUE, !.command = "data"]
        /\ UNCHANGED disk
     \/ /\ reg.command = "data"
        /\ disk' = [disk EXCEPT ![reg.dev][reg.sector] = reg.data]
        /\ reg' = [reg EXCEPT !.busy = FALSE, !.irq = TRUE, !.command = NULL]
  /\ UNCHANGED <<lock, expecting, completion, ide_pc, req, buffer, ide_calls, ide_panic, last>>

Next ==
  /\ ~ide_panic
  /\ \/ \E t \in Threads : \/ \E r \in Requests : check_sector(t, r)
                           \/ Acquire(t) \/ select_sector(t) \/ issue_pio_command(t)
                           \/ sema_down(t) \/ Transfer(t) \/ Release(t) \/ Return(t)
     \/ interrupt_handler \/ Controller

Spec == Init /\ [][Next]_vars
-----------------------------------------------------------------------------
(* Whatever threads share the channel: a read returns what was last written  *)
(* to its sector of its disk, a write that returned is on the disk, and no   *)
(* completion is left over from one command to the next, which would let     *)
(* ide_read or ide_write go on before its own command is done.               *)
ServesItsRequest ==
  /\ \A t \in Threads : ide_pc[t] = "issue" => completion = 0 /\ ~reg.irq
  /\ \A t \in Threads : ide_pc[t] = "release" /\ req[t].op = "read"
                          => buffer[t] = last[req[t].dev][req[t].sector]
  /\ lock = NULL => disk = last /\ completion = 0 /\ ~reg.irq
  /\ ide_panic => \E t \in Threads : req[t] # NULL /\ req[t].sector >= Size
=============================================================================
