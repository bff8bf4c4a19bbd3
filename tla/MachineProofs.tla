--------------------------- MODULE MachineProofs ---------------------------
(***************************************************************************)
(* Proofs about what the kernel does with the machine it runs on: the disk *)
(* controllers (IdeDisk) and the other processors (Smp).                   *)
(*                                                                         *)
(* The IDE driver serves its requests, for any number of threads, disks,   *)
(* sectors and calls.  Its inductive invariant says what the lock holder's *)
(* place in ide_read or ide_write means for the controller: where its      *)
(* command stands, whether its interrupt is still to come, raised, or      *)
(* turned into the one unit of completion_wait, and whether the disk       *)
(* already holds what is written.                                          *)
(*                                                                         *)
(* The processors agree, for any number of processors, page directories    *)
(* and changes to page tables.  Booting rests on where the processors are  *)
(* while they cannot lock yet: only the one that start_other_cpus waits    *)
(* for may be in the allocator.  The TLBs rest on the flush protocol: what *)
(* tlb_flush_state.remaining counts is the interrupts not yet handled, and *)
(* a processor whose TLB is behind is owed one of them, or the sender has  *)
(* yet to send it.                                                         *)
(***************************************************************************)
EXTENDS IdeDisk, Smp, TLAPS

-----------------------------------------------------------------------------
(* The IDE driver.                                                             *)
Inside == {"select", "issue", "down", "busy", "release"}
IdeLabels == Inside \cup {"idle", "acquire", "done"}

Types ==
  /\ ide_pc \in [Threads -> IdeLabels]
  /\ req \in [Threads -> Requests \cup {NULL}]
  /\ buffer \in [Threads -> Values \cup {NoValue}]
  /\ lock \in Threads \cup {NULL} /\ completion \in Nat
  /\ expecting \in BOOLEAN /\ ide_panic \in BOOLEAN
  /\ disk \in [Devices -> [Sectors -> Values \cup {NoValue}]]
  /\ last \in [Devices -> [Sectors -> Values \cup {NoValue}]]
  /\ reg \in [dev : Devices \cup {NULL}, sector : Sectors \cup {0},
              command : {"read", "write", "data", NULL}, busy : BOOLEAN, drq : BOOLEAN,
              irq : BOOLEAN, data : Values \cup {NoValue}]

\* The controller, its interrupt and the semaphore together.
Device(r, busy, drq, irq, done) ==
  r.busy = busy /\ r.drq = drq /\ r.irq = irq /\ completion = done
Quiet(r) == Device(r, FALSE, FALSE, FALSE, 0)
Addressed(r, t) == r.dev = req[t].dev /\ r.sector = req[t].sector
Stored(t) == last[req[t].dev][req[t].sector]
Written(t) == [last EXCEPT ![req[t].dev][req[t].sector] = req[t].value]

ReadService(r, t) ==
  /\ disk = last
  /\ ide_pc[t] = "down" =>
       /\ expecting /\ Addressed(r, t)
       /\ \/ Device(r, TRUE, FALSE, FALSE, 0) /\ r.command = "read"
          \/ Device(r, FALSE, TRUE, TRUE, 0) /\ r.data = Stored(t)
          \/ Device(r, FALSE, TRUE, FALSE, 1) /\ r.data = Stored(t)
  /\ ide_pc[t] = "busy" => Device(r, FALSE, TRUE, FALSE, 0) /\ r.data = Stored(t)
  /\ ide_pc[t] = "release" => Quiet(r) /\ buffer[t] = Stored(t)

WriteService(r, t) ==
  /\ ide_pc[t] = "busy" =>
       /\ disk = last /\ expecting /\ Addressed(r, t)
       /\ \/ Device(r, TRUE, FALSE, FALSE, 0) /\ r.command = "write"
          \/ Device(r, FALSE, TRUE, FALSE, 0) /\ r.command = "data"
  /\ ide_pc[t] = "down" =>
       /\ expecting /\ Addressed(r, t)
       /\ \/ Device(r, TRUE, FALSE, FALSE, 0) /\ r.command = "data"
               /\ r.data = req[t].value /\ disk = last
          \/ Device(r, FALSE, FALSE, TRUE, 0) /\ disk = Written(t)
          \/ Device(r, FALSE, FALSE, FALSE, 1) /\ disk = Written(t)
  /\ ide_pc[t] = "release" => Quiet(r) /\ disk = Written(t)

Service(r, t) ==
  /\ ide_pc[t] = "select" => Quiet(r) /\ disk = last
  /\ ide_pc[t] = "issue" => Quiet(r) /\ disk = last /\ Addressed(r, t)
  /\ ide_pc[t] \in {"down", "busy", "release"} =>
       IF req[t].op = "read" THEN ReadService(r, t) ELSE WriteService(r, t)

Panics == ide_panic => \E t \in Threads : req[t] # NULL /\ req[t].sector >= Size

IdeInv ==
  /\ Types
  /\ \A t \in Threads : /\ ide_pc[t] \in Inside <=> lock = t
                        /\ ide_pc[t] # "idle" => req[t] \in Requests
  /\ lock = NULL => Quiet(reg) /\ disk = last
  /\ lock # NULL => Service(reg, lock)
  /\ Panics

IdeSetting == NULL \notin Threads /\ NULL \notin Requests /\ NULL \notin {"read", "write", "data"}

LEMMA IdeInitInv ==
  ASSUME IdeSetting, Init
  PROVE  IdeInv
<1>1. Types
  BY Zenon DEF Init, Types, IdeLabels, NoValue
<1>2. Quiet(reg)
  BY DEF Init, Quiet, Device
<1>3. \A t \in Threads : /\ ide_pc[t] \in Inside <=> lock = t
                         /\ ide_pc[t] # "idle" => req[t] \in Requests
  BY Zenon DEF Init, Inside, IdeSetting
<1>4. lock = NULL /\ disk = last /\ ~ide_panic
  BY DEF Init
<1>5. Panics
  BY <1>4 DEF Panics
<1>6. (lock = NULL => Quiet(reg) /\ disk = last) /\ (lock # NULL => Service(reg, lock))
  BY <1>2, <1>4, Zenon
<1>7. QED  BY <1>1, <1>3, <1>5, <1>6, Zenon DEF IdeInv

\* A step of a thread that is not at the controller and does not take the lock.
LEMMA OutsideStep ==
  ASSUME IdeSetting, IdeInv, NEW t \in Threads, ide_pc[t] \notin Inside, NEW l \in IdeLabels \ Inside,
         ide_pc' = [ide_pc EXCEPT ![t] = l], l # "idle" => req'[t] \in Requests,
         \A u \in Threads \ {t} : req'[u] = req[u] /\ buffer'[u] = buffer[u],
         UNCHANGED <<lock, expecting, completion, reg, disk, last>>, Types', Panics'
  PROVE  IdeInv'
<1>1. ide_pc'[t] = l /\ \A u \in Threads \ {t} : ide_pc'[u] = ide_pc[u]
  BY DEF IdeInv, Types
<1>2. lock # t /\ lock \in Threads \cup {NULL}
  BY DEF IdeInv, Types
<1>3. \A u \in Threads : (ide_pc'[u] \in Inside <=> lock = u) /\ (ide_pc'[u] # "idle" => req'[u] \in Requests)
  BY <1>1, <1>2 DEF IdeInv
<1>4. lock = NULL => Quiet(reg)' /\ disk' = last'
  BY DEF IdeInv, Quiet, Device
<1>5. ASSUME lock # NULL  PROVE Service(reg, lock)'
  <2>1. lock \in Threads \ {t}
    BY <1>2, <1>5
  <2>2. ide_pc'[lock] = ide_pc[lock] /\ req'[lock] = req[lock] /\ buffer'[lock] = buffer[lock]
    BY <1>1, <2>1
  <2>3. Service(reg, lock)
    BY <1>5 DEF IdeInv
  <2>4. (ReadService(reg, lock)' <=> ReadService(reg, lock)) /\ (Quiet(reg)' <=> Quiet(reg))
    BY <2>2 DEF ReadService, Quiet, Device, Addressed, Stored
  <2>5. WriteService(reg, lock)' <=> WriteService(reg, lock)
    BY <2>2 DEF WriteService, Quiet, Device, Addressed, Written
  <2>6. QED  BY <2>2, <2>3, <2>4, <2>5 DEF Service, Addressed
<1>6. QED  BY <1>3, <1>4, <1>5 DEF IdeInv

LEMMA RequestInv ==
  ASSUME IdeSetting, IdeInv, NEW t \in Threads, NEW r \in Requests, check_sector(t, r), ~ide_panic
  PROVE  IdeInv'
<1>1. /\ ide_pc[t] = "idle" /\ req' = [req EXCEPT ![t] = r]
      /\ UNCHANGED <<lock, expecting, completion, reg, disk, buffer, last>>
  BY DEF check_sector
<1>2. req' \in [Threads -> Requests \cup {NULL}] /\ req'[t] = r /\ \A u \in Threads \ {t} : req'[u] = req[u]
  BY <1>1 DEF IdeInv, Types
<1>3. \E l \in {"idle", "acquire"} : ide_pc' = [ide_pc EXCEPT ![t] = l]
  BY <1>1 DEF check_sector, go, IdeInv, Types
<1>4. ide_panic' \in BOOLEAN /\ (ide_panic' => r.sector >= Size)
  BY Zenon DEF check_sector, IdeInv, Types
<1>5. Types'
  BY <1>1, <1>2, <1>3, <1>4 DEF IdeInv, Types, IdeLabels
<1>6. Panics'
  BY <1>2, <1>4 DEF Panics, IdeSetting
<1>7. QED  BY <1>1, <1>2, <1>3, <1>5, <1>6, OutsideStep, Zenon DEF IdeLabels, Inside

LEMMA ReturnInv ==
  ASSUME IdeSetting, IdeInv, NEW t \in Threads, Return(t), ~ide_panic
  PROVE  IdeInv'
<1>1. /\ ide_pc[t] = "done" /\ ide_pc' = [ide_pc EXCEPT ![t] = "idle"] /\ req' = [req EXCEPT ![t] = NULL]
      /\ buffer' = [buffer EXCEPT ![t] = NoValue]
      /\ UNCHANGED <<lock, expecting, completion, reg, disk, last, ide_panic>>
  BY DEF Return, go
<1>2. \A u \in Threads \ {t} : req'[u] = req[u] /\ buffer'[u] = buffer[u]
  BY <1>1 DEF IdeInv, Types
<1>3. Types'
  BY <1>1 DEF IdeInv, Types, IdeLabels
<1>4. Panics'
  BY <1>1 DEF Panics
<1>5. QED  BY <1>1, <1>2, <1>3, <1>4, OutsideStep, Zenon DEF IdeLabels, Inside

\* A step of the thread t that holds the lock after it.
LEMMA HolderStep ==
  ASSUME IdeSetting, IdeInv, NEW t \in Threads, NEW l \in Inside, ide_pc' = [ide_pc EXCEPT ![t] = l],
         lock \in {NULL, t}, lock' = t, req[t] \in Requests, UNCHANGED <<req, ide_panic>>,
         Types', Service(reg, t)'
  PROVE  IdeInv'
<1>1. ide_pc'[t] = l /\ \A u \in Threads \ {t} : ide_pc'[u] = ide_pc[u]
  BY DEF IdeInv, Types
<1>2. \A u \in Threads : (ide_pc'[u] \in Inside <=> lock' = u) /\ (ide_pc'[u] # "idle" => req'[u] \in Requests)
  BY <1>1 DEF IdeInv, IdeSetting
<1>3. Panics'
  BY DEF IdeInv, Panics
<1>4. t # NULL
  BY DEF IdeSetting
<1>5. Service(reg, lock)'
  OBVIOUS
<1>6. QED  BY <1>2, <1>3, <1>4, <1>5 DEF IdeInv

LEMMA AcquireInv ==
  ASSUME IdeSetting, IdeInv, NEW t \in Threads, Acquire(t)
  PROVE  IdeInv'
<1>1. /\ ide_pc[t] = "acquire" /\ lock = NULL /\ lock' = t /\ ide_pc' = [ide_pc EXCEPT ![t] = "select"]
      /\ UNCHANGED <<expecting, completion, reg, disk, req, buffer, ide_panic, last>>
  BY DEF Acquire, go
<1>2. Types' /\ ide_pc'[t] = "select" /\ req[t] \in Requests
  BY <1>1 DEF IdeInv, Types, IdeLabels, Inside
<1>3. Quiet(reg)' /\ disk' = last'
  BY <1>1 DEF IdeInv, Quiet, Device
<1>4. Service(reg, t)'
  BY <1>2, <1>3 DEF Service
<1>5. QED  BY <1>1, <1>2, <1>4, HolderStep, Zenon DEF Inside

\* What the invariant says of a thread inside the driver.
LEMMA Holding ==
  ASSUME IdeSetting, IdeInv, NEW t \in Threads, ide_pc[t] \in Inside
  PROVE  lock = t /\ req[t] \in Requests /\ Service(reg, t)
<1>1. lock = t /\ ide_pc[t] # "idle" /\ t # NULL
  BY DEF IdeInv, Inside, IdeSetting
<1>2. QED  BY <1>1 DEF IdeInv

LEMMA SelectInv ==
  ASSUME IdeSetting, IdeInv, NEW t \in Threads, select_sector(t)
  PROVE  IdeInv'
<1>1. /\ ide_pc[t] = "select" /\ ide_pc' = [ide_pc EXCEPT ![t] = "issue"]
      /\ reg' = [reg EXCEPT !.dev = req[t].dev, !.sector = req[t].sector, !.irq = FALSE]
      /\ UNCHANGED <<lock, expecting, completion, disk, req, buffer, ide_panic, last>>
  BY DEF select_sector, go
<1>2. lock = t /\ req[t] \in Requests /\ Quiet(reg) /\ disk = last
  BY <1>1, Holding DEF Inside, Service
<1>3. /\ reg'.busy = reg.busy /\ reg'.drq = reg.drq /\ reg'.irq = FALSE
      /\ reg'.dev = req[t].dev /\ reg'.sector = req[t].sector
  BY <1>1 DEF IdeInv, Types
<1>4. Types' /\ ide_pc'[t] = "issue"
  BY <1>1, <1>2, Zenon DEF IdeInv, Types, IdeLabels, Inside, Requests
<1>5. Quiet(reg)' /\ disk' = last' /\ Addressed(reg, t)'
  BY <1>1, <1>2, <1>3 DEF Quiet, Device, Addressed
<1>6. Service(reg, t)'
  BY <1>4, <1>5 DEF Service
<1>7. QED  BY <1>1, <1>2, <1>4, <1>6, HolderStep, Zenon DEF Inside

LEMMA IssueInv ==
  ASSUME IdeSetting, IdeInv, NEW t \in Threads, issue_pio_command(t)
  PROVE  IdeInv'
<1> DEFINE l == IF req[t].op = "read" THEN "down" ELSE "busy"
<1>1. /\ ide_pc[t] = "issue" /\ ide_pc' = [ide_pc EXCEPT ![t] = l] /\ expecting' = TRUE
      /\ reg' = [reg EXCEPT !.command = req[t].op, !.busy = TRUE]
      /\ UNCHANGED <<lock, completion, disk, req, buffer, ide_panic, last>>
  BY DEF issue_pio_command, go
<1>2. lock = t /\ req[t] \in Requests /\ Quiet(reg) /\ disk = last /\ Addressed(reg, t)
  BY <1>1, Holding DEF Inside, Service
<1>3. /\ reg'.busy = TRUE /\ reg'.drq = reg.drq /\ reg'.irq = reg.irq
      /\ reg'.dev = reg.dev /\ reg'.sector = reg.sector /\ reg'.command = req[t].op
  BY <1>1 DEF IdeInv, Types
<1>4. Types' /\ ide_pc'[t] = l /\ req[t].op \in {"read", "write"}
  BY <1>1, <1>2, Zenon DEF IdeInv, Types, IdeLabels, Inside, Requests
<1>5. Device(reg, TRUE, FALSE, FALSE, 0)' /\ disk' = last' /\ Addressed(reg, t)'
  BY <1>1, <1>2, <1>3 DEF Quiet, Device, Addressed
<1>6. Service(reg, t)'
  <2>1. CASE req[t].op = "read"
    BY <1>1, <1>3, <1>4, <1>5, <2>1 DEF Service, ReadService, Device, Addressed
  <2>2. CASE req[t].op = "write"
    BY <1>1, <1>3, <1>4, <1>5, <2>2 DEF Service, WriteService, Device, Addressed
  <2>3. QED  BY <1>4, <2>1, <2>2
<1>7. QED  BY <1>1, <1>2, <1>4, <1>6, HolderStep, Zenon DEF Inside

LEMMA DownInv ==
  ASSUME IdeSetting, IdeInv, NEW t \in Threads, sema_down(t)
  PROVE  IdeInv'
<1> DEFINE l == IF req[t].op = "read" THEN "busy" ELSE "release"
<1>1. /\ ide_pc[t] = "down" /\ ide_pc' = [ide_pc EXCEPT ![t] = l] /\ completion > 0
      /\ completion' = completion - 1
      /\ UNCHANGED <<lock, expecting, reg, disk, req, buffer, ide_panic, last>>
  BY DEF sema_down, go
<1>2. lock = t /\ req[t] \in Requests /\ Service(reg, t)
  BY <1>1, Holding DEF Inside
<1>3. Types' /\ ide_pc'[t] = l /\ req[t].op \in {"read", "write"}
  BY <1>1, <1>2 DEF IdeInv, Types, IdeLabels, Inside, Requests
<1>4. completion \in Nat /\ completion # 0
  BY <1>1 DEF IdeInv, Types
<1>5. Service(reg, t)'
  <2>1. CASE req[t].op = "read"
    <3>1. /\ disk = last /\ reg.data = Stored(t) /\ completion = 1
          /\ reg.busy = FALSE /\ reg.drq = TRUE /\ reg.irq = FALSE
      BY <1>1, <1>2, <1>4, <2>1 DEF Service, ReadService, Device
    <3>2. completion' = 0
      BY <1>1, <3>1
    <3>3. QED
      BY <1>1, <1>3, <2>1, <3>1, <3>2 DEF Service, ReadService, Device, Stored
  <2>2. CASE req[t].op = "write"
    <3>1. /\ disk = Written(t) /\ completion = 1
          /\ reg.busy = FALSE /\ reg.drq = FALSE /\ reg.irq = FALSE
      BY <1>1, <1>2, <1>4, <2>2 DEF Service, WriteService, Device
    <3>2. completion' = 0
      BY <1>1, <3>1
    <3>3. QED
      BY <1>1, <1>3, <2>2, <3>1, <3>2 DEF Service, WriteService, Device, Quiet, Written
  <2>3. QED  BY <1>3, <2>1, <2>2
<1>6. QED  BY <1>1, <1>2, <1>3, <1>5, HolderStep, Zenon DEF Inside

LEMMA TransferInv ==
  ASSUME IdeSetting, IdeInv, NEW t \in Threads, Transfer(t)
  PROVE  IdeInv'
<1>1. ide_pc[t] = "busy" /\ ~reg.busy /\ UNCHANGED <<lock, expecting, completion, disk, req, last>>
  BY DEF Transfer
<1>2. lock = t /\ req[t] \in Requests /\ Service(reg, t) /\ req[t].op \in {"read", "write"}
  BY <1>1, Holding DEF Inside, Requests
<1>3. CASE req[t].op = "read"
  <2>1. /\ reg.busy = FALSE /\ reg.drq = TRUE /\ reg.irq = FALSE /\ completion = 0
        /\ reg.data = Stored(t) /\ disk = last
    BY <1>1, <1>2, <1>3 DEF Service, ReadService, Device
  <2>2. /\ ide_pc' = [ide_pc EXCEPT ![t] = "release"] /\ ide_panic' = ide_panic
        /\ reg' = [reg EXCEPT !.drq = FALSE] /\ buffer' = [buffer EXCEPT ![t] = reg.data]
    BY <1>3, <2>1 DEF Transfer, go
  <2>3. /\ reg'.busy = reg.busy /\ reg'.drq = FALSE /\ reg'.irq = reg.irq
        /\ buffer'[t] = reg.data /\ ide_pc'[t] = "release"
    BY <2>2 DEF IdeInv, Types
  <2>4. Types'
    BY <1>1, <2>2, Zenon DEF IdeInv, Types, IdeLabels, Inside
  <2>5. Service(reg, t)'
    BY <1>1, <1>3, <2>1, <2>3 DEF Service, ReadService, Quiet, Device, Stored
  <2>6. QED  BY <1>1, <1>2, <2>2, <2>4, <2>5, HolderStep, Zenon DEF Inside
<1>4. CASE req[t].op = "write"
  <2>1. /\ reg.busy = FALSE /\ reg.drq = TRUE /\ reg.irq = FALSE /\ completion = 0
        /\ reg.command = "data" /\ disk = last /\ expecting
        /\ reg.dev = req[t].dev /\ reg.sector = req[t].sector
    BY <1>1, <1>2, <1>4 DEF Service, WriteService, Device, Addressed
  <2>2. /\ ide_pc' = [ide_pc EXCEPT ![t] = "down"] /\ ide_panic' = ide_panic /\ buffer' = buffer
        /\ reg' = [reg EXCEPT !.drq = FALSE, !.busy = TRUE, !.data = req[t].value]
    BY <1>4, <2>1 DEF Transfer, go
  <2>3. /\ reg'.busy = TRUE /\ reg'.drq = FALSE /\ reg'.irq = reg.irq
        /\ reg'.data = req[t].value /\ reg'.command = reg.command
        /\ reg'.dev = reg.dev /\ reg'.sector = reg.sector /\ ide_pc'[t] = "down"
    BY <2>2 DEF IdeInv, Types
  <2>4. Types'
    BY <1>1, <1>2, <2>2, Zenon DEF IdeInv, Types, IdeLabels, Inside, Requests
  <2>5. Service(reg, t)'
    BY <1>1, <1>4, <2>1, <2>3 DEF Service, WriteService, Device, Addressed
  <2>6. QED  BY <1>1, <1>2, <2>2, <2>4, <2>5, HolderStep, Zenon DEF Inside
<1>5. QED  BY <1>2, <1>3, <1>4

LEMMA ReleaseInv ==
  ASSUME IdeSetting, IdeInv, NEW t \in Threads, Release(t)
  PROVE  IdeInv'
<1>1. /\ ide_pc[t] = "release" /\ lock' = NULL /\ ide_pc' = [ide_pc EXCEPT ![t] = "done"]
      /\ last' = IF req[t].op = "read" THEN last ELSE Written(t)
      /\ UNCHANGED <<expecting, completion, reg, disk, req, buffer, ide_panic>>
  BY DEF Release, go, Written
<1>2. lock = t /\ req[t] \in Requests /\ Service(reg, t) /\ req[t].op \in {"read", "write"}
  BY <1>1, Holding DEF Inside, Requests
<1>3. Quiet(reg) /\ last' = disk
  BY <1>1, <1>2 DEF Service, ReadService, WriteService
<1>4. Types'
  BY <1>1, <1>3 DEF IdeInv, Types, IdeLabels
<1>5. \A u \in Threads : ide_pc'[u] = IF u = t THEN "done" ELSE ide_pc[u]
  BY <1>1 DEF IdeInv, Types
<1>6. \A u \in Threads : /\ ide_pc'[u] \in Inside <=> lock' = u
                         /\ ide_pc'[u] # "idle" => req'[u] \in Requests
  BY <1>1, <1>2, <1>5 DEF IdeInv, Inside, IdeSetting
<1>7. Quiet(reg)' /\ disk' = last' /\ Panics'
  BY <1>1, <1>3 DEF IdeInv, Quiet, Device, Panics
<1>8. QED  BY <1>1, <1>4, <1>6, <1>7, Zenon DEF IdeInv

\* A step of the controller or of its interrupt handler.
LEMMA DeviceStep ==
  ASSUME IdeSetting, IdeInv, NEW t \in Threads, lock = t, Types', Service(reg, t)',
         UNCHANGED <<lock, ide_pc, req, ide_panic>>
  PROVE  IdeInv'
<1>1. lock' # NULL /\ Panics'
  BY DEF IdeSetting, IdeInv, Panics
<1>2. Service(reg, lock)'
  OBVIOUS
<1>3. QED  BY <1>1, <1>2 DEF IdeInv

LEMMA InterruptInv ==
  ASSUME IdeSetting, IdeInv, interrupt_handler
  PROVE  IdeInv'
<1>1. reg.irq /\ UNCHANGED <<lock, expecting, disk, ide_pc, req, buffer, ide_panic, last>>
  BY DEF interrupt_handler
<1>2. PICK t \in Threads : lock = t /\ t # NULL /\ Service(reg, t)
  BY <1>1 DEF IdeInv, Types, Quiet, Device
<1>3. ide_pc[t] \in Inside /\ req[t] \in Requests /\ req[t].op \in {"read", "write"}
  BY <1>2 DEF IdeInv, Inside, Requests
<1>4. /\ ide_pc[t] = "down" /\ expecting /\ completion = 0 /\ Addressed(reg, t)
      /\ reg.busy = FALSE /\ reg.irq = TRUE
      /\ req[t].op = "read" => reg.drq = TRUE /\ reg.data = Stored(t) /\ disk = last
      /\ req[t].op = "write" => reg.drq = FALSE /\ disk = Written(t)
  BY <1>1, <1>2, <1>3, Zenon DEF Inside, Service, ReadService, WriteService, Quiet, Device
<1>5. completion' = completion + 1 /\ reg' = [reg EXCEPT !.irq = FALSE]
  BY <1>4 DEF interrupt_handler
<1>6. /\ completion' = 1 /\ reg'.irq = FALSE /\ reg'.busy = reg.busy /\ reg'.drq = reg.drq
      /\ reg'.data = reg.data /\ reg'.dev = reg.dev /\ reg'.sector = reg.sector
  BY <1>4, <1>5 DEF IdeInv, Types
<1>7. Types'
  <2>1. completion' \in Nat
    BY <1>6
  <2>2. reg' \in [dev : Devices \cup {NULL}, sector : Sectors \cup {0},
                  command : {"read", "write", "data", NULL}, busy : BOOLEAN, drq : BOOLEAN,
                  irq : BOOLEAN, data : Values \cup {NoValue}]
    BY <1>5, Zenon DEF IdeInv, Types
  <2>3. QED  BY <1>1, <2>1, <2>2 DEF IdeInv, Types
<1>8. Service(reg, t)'
  BY <1>1, <1>3, <1>4, <1>6 DEF Service, ReadService, WriteService, Device, Addressed, Stored, Written
<1>9. QED  BY <1>1, <1>2, <1>7, <1>8, DeviceStep

LEMMA ControllerInv ==
  ASSUME IdeSetting, IdeInv, Controller
  PROVE  IdeInv'
<1>1. reg.busy /\ UNCHANGED <<lock, expecting, completion, ide_pc, req, buffer, ide_panic, last>>
  BY DEF Controller
<1>2. PICK t \in Threads : lock = t /\ t # NULL /\ Service(reg, t)
  BY <1>1 DEF IdeInv, Types, Quiet, Device
<1>3. ide_pc[t] \in Inside /\ req[t] \in Requests /\ req[t].op \in {"read", "write"}
  BY <1>2 DEF IdeInv, Inside, Requests
<1>4. /\ disk = last /\ expecting /\ Addressed(reg, t) /\ completion = 0
      /\ reg.busy = TRUE /\ reg.drq = FALSE /\ reg.irq = FALSE
      /\ \/ req[t].op = "read" /\ ide_pc[t] = "down" /\ reg.command = "read"
         \/ req[t].op = "write" /\ ide_pc[t] = "busy" /\ reg.command = "write"
         \/ /\ req[t].op = "write" /\ ide_pc[t] = "down" /\ reg.command = "data"
            /\ reg.data = req[t].value
  BY <1>1, <1>2, <1>3, Zenon DEF Inside, Service, ReadService, WriteService, Quiet, Device
<1>5. CASE req[t].op = "read" /\ ide_pc[t] = "down" /\ reg.command = "read"
  <2>1. /\ reg' = [reg EXCEPT !.busy = FALSE, !.drq = TRUE, !.irq = TRUE,
                              !.data = disk[reg.dev][reg.sector]]
        /\ disk' = disk
    BY <1>5 DEF Controller
  <2>2. /\ reg'.busy = FALSE /\ reg'.drq = TRUE /\ reg'.irq = TRUE
        /\ reg'.data = disk[reg.dev][reg.sector] /\ reg'.dev = reg.dev /\ reg'.sector = reg.sector
    BY <2>1 DEF IdeInv, Types
  <2>3. disk[reg.dev][reg.sector] \in Values \cup {NoValue}
    BY <1>3, <1>4 DEF IdeInv, Types, Requests, Addressed
  <2>4. Types'
    BY <1>1, <2>1, <2>3, Zenon DEF IdeInv, Types
  <2>5. Service(reg, t)'
    BY <1>1, <1>4, <1>5, <2>1, <2>2 DEF Service, ReadService, Device, Addressed, Stored
  <2>6. QED  BY <1>1, <1>2, <2>4, <2>5, DeviceStep
<1>6. CASE req[t].op = "write" /\ ide_pc[t] = "busy" /\ reg.command = "write"
  <2>1. /\ reg' = [reg EXCEPT !.busy = FALSE, !.drq = TRUE, !.command = "data"]
        /\ disk' = disk
    BY <1>6 DEF Controller
  <2>2. /\ reg'.busy = FALSE /\ reg'.drq = TRUE /\ reg'.irq = reg.irq /\ reg'.command = "data"
        /\ reg'.dev = reg.dev /\ reg'.sector = reg.sector
    BY <2>1 DEF IdeInv, Types
  <2>3. Types'
    BY <1>1, <2>1, Zenon DEF IdeInv, Types
  <2>4. Service(reg, t)'
    BY <1>1, <1>4, <1>6, <2>1, <2>2 DEF Service, WriteService, Device, Addressed
  <2>5. QED  BY <1>1, <1>2, <2>3, <2>4, DeviceStep
<1>7. CASE /\ req[t].op = "write" /\ ide_pc[t] = "down" /\ reg.command = "data"
           /\ reg.data = req[t].value
  <2>1. /\ reg' = [reg EXCEPT !.busy = FALSE, !.irq = TRUE, !.command = NULL]
        /\ disk' = [disk EXCEPT ![reg.dev][reg.sector] = reg.data]
    BY <1>7 DEF Controller
  <2>2. /\ reg'.busy = FALSE /\ reg'.drq = reg.drq /\ reg'.irq = TRUE
        /\ reg'.dev = reg.dev /\ reg'.sector = reg.sector
    BY <2>1 DEF IdeInv, Types
  <2>3. reg.dev \in Devices /\ reg.sector \in Sectors /\ reg.data \in Values
    BY <1>3, <1>4, <1>7 DEF Requests, Addressed
  <2>4. disk' \in [Devices -> [Sectors -> Values \cup {NoValue}]]
    BY <2>1, <2>3 DEF IdeInv, Types
  <2>5. reg' \in [dev : Devices \cup {NULL}, sector : Sectors \cup {0},
                  command : {"read", "write", "data", NULL}, busy : BOOLEAN, drq : BOOLEAN,
                  irq : BOOLEAN, data : Values \cup {NoValue}]
    BY <2>1, Zenon DEF IdeInv, Types
  <2>6. Types'
    BY <1>1, <2>4, <2>5 DEF IdeInv, Types
  <2>7. disk' = [last EXCEPT ![req[t].dev][req[t].sector] = req[t].value]
    BY <1>4, <1>7, <2>1 DEF Addressed
  <2>8. Service(reg, t)'
    BY <1>1, <1>4, <1>7, <2>2, <2>7 DEF Service, WriteService, Device, Addressed, Written
  <2>9. QED  BY <1>1, <1>2, <2>6, <2>8, DeviceStep
<1>8. QED  BY <1>4, <1>5, <1>6, <1>7, Zenon

LEMMA IdeNextInv ==
  ASSUME IdeSetting, IdeInv, [Next]_vars
  PROVE  IdeInv'
<1>1. CASE UNCHANGED vars
  <2>1. Types' /\ Panics' /\ Quiet(reg)' = Quiet(reg)
    <3>1. Types'
      BY <1>1 DEF vars, IdeInv, Types
    <3>2. Panics'
      BY <1>1 DEF vars, IdeInv, Panics
    <3>3. Quiet(reg)' = Quiet(reg)
      BY <1>1 DEF vars, Quiet, Device
    <3>4. QED  BY <3>1, <3>2, <3>3
  <2>2. Service(reg, lock)' <=> Service(reg, lock)
    <3>1. reg' = reg /\ lock' = lock /\ ide_pc' = ide_pc /\ req' = req /\ disk' = disk /\ last' = last
          /\ buffer' = buffer /\ expecting' = expecting /\ completion' = completion
      BY <1>1 DEF vars
    <3>2. QED  BY <3>1, Zenon DEF Service, ReadService, WriteService, Quiet, Device, Addressed, Stored, Written
  <2>3. lock \in Threads \cup {NULL}
    BY DEF IdeInv, Types
  <2>4. QED  BY <1>1, <2>1, <2>2, <2>3, Zenon DEF vars, IdeInv
<1>2. CASE Next
  <2>1. ~ide_panic
    BY <1>2 DEF Next
  <2>2. ASSUME NEW t \in Threads, NEW r \in Requests, check_sector(t, r)  PROVE IdeInv'
    BY <2>1, <2>2, RequestInv
  <2>3. ASSUME NEW t \in Threads, Acquire(t) \/ select_sector(t) \/ issue_pio_command(t)
        PROVE  IdeInv'
    BY <2>3, AcquireInv, SelectInv, IssueInv
  <2>4. ASSUME NEW t \in Threads, sema_down(t) \/ Transfer(t) \/ Release(t) \/ Return(t)
        PROVE  IdeInv'
    BY <2>1, <2>4, DownInv, TransferInv, ReleaseInv, ReturnInv
  <2>5. QED  BY <1>2, <2>2, <2>3, <2>4, InterruptInv, ControllerInv DEF Next
<1>3. QED  BY <1>1, <1>2

\* ide_read returns what was last written to its sector and ide_write returns
\* after its data is on the disk, with no completion or interrupt left over for
\* the next command, whichever threads share the channel.
THEOREM IdeServes ==
  ASSUME IdeSetting
  PROVE  Spec => []ServesItsRequest
<1>1. Init => IdeInv
  BY IdeInitInv
<1>2. IdeInv /\ [Next]_vars => IdeInv'
  BY IdeNextInv
<1>3. IdeInv => ServesItsRequest
  <2> SUFFICES ASSUME IdeInv PROVE ServesItsRequest
    OBVIOUS
  <2>1. ASSUME NEW t \in Threads, ide_pc[t] = "issue"  PROVE completion = 0 /\ ~reg.irq
    BY <2>1, Holding, Zenon DEF Inside, Service, Quiet, Device
  <2>2. ASSUME NEW t \in Threads, ide_pc[t] = "release", req[t].op = "read"
        PROVE  buffer[t] = last[req[t].dev][req[t].sector]
    BY <2>2, Holding, Zenon DEF Inside, Service, ReadService, Stored
  <2>3. lock = NULL => disk = last /\ completion = 0 /\ ~reg.irq
    BY DEF IdeInv, Quiet, Device
  <2>4. Panics
    BY DEF IdeInv
  <2>5. QED  BY <2>1, <2>2, <2>3, <2>4 DEF ServesItsRequest, Panics
<1>4. QED  BY <1>1, <1>2, <1>3, PTL DEF Spec

-----------------------------------------------------------------------------
(* The processors.                                                             *)
SmpSetting ==
  /\ \E n \in Nat \ {0} : CPUs = 0 .. n - 1
  /\ None \notin CPUs /\ None \notin Dirs

SmpLabels == {"off", "boot", "alloc", "await", "rendezvous", "run", "lock", "send", "wait",
           "print", "poweroff", "frozen"}

Booting == {"boot", "alloc", "await"}

BootInv ==
  /\ cpu_pc \in [CPUs -> SmpLabels] /\ started \in [CPUs -> BOOLEAN]
  /\ others \in BOOLEAN /\ can_acquire = others
  /\ cur \in Nat \ {0} /\ (cpu_pc[0] = "alloc" => cur < ncpu)
  /\ ~others <=> cpu_pc[0] \in Booting
  /\ ~others => \A c \in CPUs \ {0} :
       /\ c < cur => cpu_pc[c] = "rendezvous"
       /\ c > cur \/ (c = cur /\ cpu_pc[0] # "await") => cpu_pc[c] = "off"
       /\ c = cur /\ cpu_pc[0] = "await" => cpu_pc[c] \in {"alloc", "rendezvous"}
       /\ started[c] <=> cpu_pc[c] = "rendezvous"

Pending == {c \in CPUs : <<c, "tlb">> \in ipi}
Stale(c) == pd[c] # None /\ tlb[c] # 0 /\ tlb[c] # ver[pd[c]]

FlushTypes ==
  /\ pd \in [CPUs -> Dirs \cup {None}] /\ tlb \in [CPUs -> Nat] /\ ver \in [Dirs -> Nat]
  /\ job \in [CPUs -> Dirs \cup {None}]
  /\ flush \in [lock : CPUs \cup {None}, pd : Dirs \cup {None}, remaining : Int]
  /\ flush.lock = None => Pending = {}

\* What each processor has to do with the flush.
Roles ==
  \A k \in CPUs :
    /\ cpu_pc[k] \in {"send", "wait"} => flush.lock = k /\ flush.pd = job[k]
    /\ flush.lock = k => cpu_pc[k] \in {"send", "wait", "frozen"}
    /\ cpu_pc[k] = "send" => Pending = {} /\ flush.remaining = ncpu - 1
    /\ cpu_pc[k] = "wait" => flush.remaining = Cardinality(Pending)
    /\ job[k] # None => cpu_pc[k] \in {"lock", "send", "wait", "frozen"} /\ pd[k] # job[k]

DirsApart == \A c, k \in CPUs : pd[c] = pd[k] /\ c # k => pd[c] = None

\* A TLB is behind only while the processor that changed the table flushes it.
StaleAreNamed ==
  \A c \in CPUs : Stale(c) =>
    \E k \in CPUs : /\ job[k] = pd[c]
                    /\ cpu_pc[k] \in {"lock", "send", "frozen"} \/ (cpu_pc[k] = "wait" /\ c \in Pending)

FlushInv == FlushTypes /\ Roles /\ DirsApart /\ StaleAreNamed

SmpInv == BootInv /\ FlushInv

\* What the proofs use of the set of processors (ProcessorsHold).
Processors ==
  /\ 0 \in CPUs /\ ncpu \in Nat /\ CPUs \subseteq Nat /\ \A c \in Nat : c < ncpu => c \in CPUs
  /\ \A S \in SUBSET CPUs :
       /\ Cardinality(S) \in Nat /\ (Cardinality(S) = 0 => S = {})
       /\ \A c \in S : Cardinality(S \ {c}) = Cardinality(S) - 1

LEMMA SmpInitInv ==
  ASSUME Processors, SmpSetting, SmpInit
  PROVE  SmpInv
<1>1. BootInv
  <2>1. /\ cpu_pc \in [CPUs -> SmpLabels] /\ started \in [CPUs -> BOOLEAN]
        /\ others = FALSE /\ can_acquire = FALSE /\ cur = 1 /\ cpu_pc[0] = "boot"
        /\ \A c \in CPUs \ {0} : c \in Nat /\ cpu_pc[c] = "off" /\ started[c] = FALSE
    BY DEF SmpInit, SmpLabels, Processors
  <2>2. \A c \in CPUs \ {0} : /\ c < cur => cpu_pc[c] = "rendezvous"
                              /\ c > cur \/ (c = cur /\ cpu_pc[0] # "await") => cpu_pc[c] = "off"
                              /\ c = cur /\ cpu_pc[0] = "await" => cpu_pc[c] \in {"alloc", "rendezvous"}
                              /\ started[c] <=> cpu_pc[c] = "rendezvous"
    BY <2>1
  <2>3. cur \in Nat \ {0} /\ cpu_pc[0] # "alloc" /\ cpu_pc[0] \in Booting
    BY <2>1 DEF Booting
  <2>4. ~others /\ can_acquire = others
    BY <2>1, Zenon
  <2>5. QED  BY <2>1, <2>2, <2>3, <2>4, Zenon DEF BootInv
<1>2. Pending = {}
  BY DEF SmpInit, Pending
<1>3. FlushInv
  <2>1. /\ pd \in [CPUs -> Dirs \cup {None}] /\ tlb \in [CPUs -> Nat] /\ ver \in [Dirs -> Nat]
        /\ job \in [CPUs -> Dirs \cup {None}] /\ \A c \in CPUs : pd[c] = None /\ job[c] = None
        /\ \A c \in CPUs : cpu_pc[c] \in {"boot", "off"}
    BY DEF SmpInit
  <2>2. /\ flush \in [lock : CPUs \cup {None}, pd : Dirs \cup {None}, remaining : Int]
        /\ flush.lock = None
    BY DEF SmpInit
  <2>3. QED  BY <1>2, <2>1, <2>2, Zenon DEF FlushInv, FlushTypes, Roles, DirsApart, StaleAreNamed, Stale, SmpSetting
<1>4. QED  BY <1>1, <1>3 DEF SmpInv

\* A processor that takes part in the protocols below has been started.
LEMMA Running ==
  ASSUME Processors, SmpSetting, BootInv, NEW c \in CPUs, cpu_pc[c] \in Interruptible
  PROVE  others
<1>1. c \in Nat /\ cur \in Nat
  BY DEF BootInv, Processors
<1>2. QED  BY <1>1 DEF BootInv, Interruptible, Booting

LEMMA KeepsBoot ==
  ASSUME BootInv, others, UNCHANGED boot_vars, cpu_pc' \in [CPUs -> SmpLabels], cpu_pc'[0] \notin Booting
  PROVE  BootInv'
BY DEF BootInv, boot_vars, Booting

Flushing == {"lock", "send", "wait", "frozen"}

\* A step of processors that take no part in a flush, before it and after it.
LEMMA KeepsFlush ==
  ASSUME FlushInv, UNCHANGED tlb_vars, Pending' = Pending,
         \A c \in CPUs : cpu_pc'[c] = cpu_pc[c] \/ (cpu_pc[c] \notin Flushing /\ cpu_pc'[c] \notin Flushing)
  PROVE  FlushInv'
<1>1. UNCHANGED <<pd, tlb, ver, job, flush>>
  BY DEF tlb_vars
<1>2. \A c \in CPUs : \A l \in Flushing : cpu_pc'[c] = l <=> cpu_pc[c] = l
  BY Zenon
<1>3. \A c \in CPUs : Stale(c)' <=> Stale(c)
  BY <1>1 DEF Stale
<1>4. FlushTypes' /\ DirsApart'
  BY <1>1 DEF FlushInv, FlushTypes, DirsApart
<1>5. Roles'
  BY <1>1, <1>2 DEF FlushInv, Roles, Flushing
<1>6. StaleAreNamed'
  BY <1>1, <1>2, <1>3 DEF FlushInv, StaleAreNamed, Flushing
<1>7. QED  BY <1>4, <1>5, <1>6 DEF FlushInv

-----------------------------------------------------------------------------
(* Booting.                                                                    *)
LEMMA BootStep ==
  ASSUME Processors, SmpSetting, SmpInv, Boot
  PROVE  SmpInv'
<1>1. cpu_pc \in [CPUs -> SmpLabels] /\ 0 \in CPUs /\ cur \in Nat \ {0}
  BY DEF SmpInv, BootInv, Processors
<1>2. UNCHANGED <<tlb_vars, ipi>>
  BY DEF Boot, StartNext, lapic_start_ap, AwaitStarted, ap_main
<1>3. Pending' = Pending
  BY <1>2 DEF Pending
<1>4. CASE StartNext
  <2>1. BootInv'
    <3>1. \A l : cpu_pc' = [cpu_pc EXCEPT ![0] = l] => cpu_pc'[0] = l /\ \A k \in CPUs \ {0} : cpu_pc'[k] = cpu_pc[k]
      BY <1>1
    <3>2. \A l \in SmpLabels : cpu_pc' = [cpu_pc EXCEPT ![0] = l] => cpu_pc' \in [CPUs -> SmpLabels]
      BY <1>1
    <3>3. ~others
      BY <1>4 DEF StartNext, SmpInv, BootInv, Booting
    <3>4. CASE cur < ncpu
      <4>1. cpu_pc' = [cpu_pc EXCEPT ![0] = "alloc"] /\ UNCHANGED boot_vars
        BY <1>4, <3>4 DEF StartNext, Go
      <4>2. cpu_pc' \in [CPUs -> SmpLabels] /\ cpu_pc'[0] = "alloc"
            /\ \A k \in CPUs \ {0} : cpu_pc'[k] = cpu_pc[k]
        BY <3>1, <3>2, <4>1 DEF SmpLabels
      <4>3. QED  BY <1>4, <3>3, <3>4, <4>1, <4>2 DEF StartNext, SmpInv, BootInv, boot_vars, Booting
    <3>5. CASE ~(cur < ncpu)
      <4>1. /\ cpu_pc' = [cpu_pc EXCEPT ![0] = "run"] /\ can_acquire' = TRUE /\ others' = TRUE
            /\ UNCHANGED <<started, cur>>
        BY <1>4, <3>5, Zenon DEF StartNext, Go
      <4>2. cpu_pc' \in [CPUs -> SmpLabels] /\ cpu_pc'[0] = "run"
        BY <3>1, <3>2, <4>1 DEF SmpLabels
      <4>3. QED  BY <1>1, <4>1, <4>2 DEF SmpInv, BootInv, Booting
    <3>6. QED  BY <3>4, <3>5
  <2>2. \A c \in CPUs : cpu_pc'[c] = cpu_pc[c] \/ (cpu_pc[c] \notin Flushing /\ cpu_pc'[c] \notin Flushing)
    BY <1>1, <1>4 DEF StartNext, Go, Flushing
  <2>3. QED  BY <1>2, <1>3, <2>1, <2>2, KeepsFlush DEF SmpInv
<1>5. CASE lapic_start_ap
  <2>1. cpu_pc[0] = "alloc" /\ cpu_pc' = [cpu_pc EXCEPT ![0] = "await", ![cur] = "alloc"] /\ UNCHANGED boot_vars
    BY <1>5 DEF lapic_start_ap
  <2>2. cur \in CPUs \ {0} /\ cpu_pc[cur] = "off" /\ ~others
    BY <1>1, <2>1 DEF SmpInv, BootInv, Booting, Processors
  <2>3. \A c \in CPUs : cpu_pc'[c] = IF c = 0 THEN "await" ELSE IF c = cur THEN "alloc" ELSE cpu_pc[c]
    BY <1>1, <2>1, <2>2
  <2>4. BootInv'
    <3>1. cpu_pc' \in [CPUs -> SmpLabels] /\ cpu_pc'[0] = "await"
      BY <1>1, <2>1, <2>2, <2>3 DEF SmpLabels
    <3>2. QED
      BY <1>1, <2>1, <2>2, <2>3, <3>1 DEF SmpInv, BootInv, boot_vars, Booting, Processors
  <2>5. \A c \in CPUs : cpu_pc'[c] = cpu_pc[c] \/ (cpu_pc[c] \notin Flushing /\ cpu_pc'[c] \notin Flushing)
    <3> TAKE c \in CPUs
    <3>1. CASE c = 0
      <4>1. cpu_pc'[c] = "await"
        BY <2>3, <3>1
      <4>2. cpu_pc[c] = "alloc"
        BY <2>1, <3>1
      <4>3. QED  BY <4>1, <4>2 DEF Flushing
    <3>2. CASE c = cur
      BY <2>2, <2>3, <3>2 DEF Flushing
    <3>3. CASE c # 0 /\ c # cur
      BY <2>3, <3>3
    <3>4. QED  BY <3>1, <3>2, <3>3
  <2>6. QED  BY <1>2, <1>3, <2>4, <2>5, KeepsFlush DEF SmpInv
<1>6. CASE AwaitStarted
  <2>1. BootInv'
    BY <1>1, <1>6 DEF AwaitStarted, Go, SmpInv, BootInv, SmpLabels, Booting, Processors
  <2>2. \A c \in CPUs : cpu_pc'[c] = cpu_pc[c] \/ (cpu_pc[c] \notin Flushing /\ cpu_pc'[c] \notin Flushing)
    BY <1>1, <1>6 DEF AwaitStarted, Go, Flushing
  <2>3. QED  BY <1>2, <1>3, <2>1, <2>2, KeepsFlush DEF SmpInv
<1>7. ASSUME NEW c \in CPUs, ap_main(c)  PROVE SmpInv'
  <2>1. BootInv'
    BY <1>1, <1>7, Zenon DEF ap_main, Go, SmpInv, BootInv, SmpLabels, Booting, Processors
  <2>2. \A k \in CPUs : cpu_pc'[k] = cpu_pc[k] \/ (cpu_pc[k] \notin Flushing /\ cpu_pc'[k] \notin Flushing)
    BY <1>1, <1>7 DEF ap_main, Go, Flushing
  <2>3. QED  BY <1>2, <1>3, <2>1, <2>2, KeepsFlush DEF SmpInv
<1>8. QED  BY <1>4, <1>5, <1>6, <1>7 DEF Boot

-----------------------------------------------------------------------------
(* Running.                                                                    *)

\* Where the processors are after one of them went on, and that booting is over.
LEMMA GoesTo ==
  ASSUME Processors, SmpSetting, SmpInv, NEW c \in CPUs, cpu_pc[c] \in Interruptible, NEW l \in SmpLabels \ Booting,
         cpu_pc' = [cpu_pc EXCEPT ![c] = l], UNCHANGED boot_vars
  PROVE  BootInv' /\ cpu_pc'[c] = l /\ \A k \in CPUs \ {c} : cpu_pc'[k] = cpu_pc[k]
<1>1. others /\ cpu_pc \in [CPUs -> SmpLabels] /\ 0 \in CPUs /\ cpu_pc[0] \notin Booting
  BY Running DEF SmpInv, BootInv, Processors
<1>2. cpu_pc' \in [CPUs -> SmpLabels] /\ cpu_pc'[0] \notin Booting
  BY <1>1
<1>3. QED  BY <1>1, <1>2, KeepsBoot DEF SmpInv

LEMMA StaysAt ==
  ASSUME Processors, SmpSetting, SmpInv, NEW c \in CPUs, cpu_pc[c] \in Interruptible, UNCHANGED <<cpu_pc, boot_vars>>
  PROVE  BootInv'
<1>1. others /\ cpu_pc[0] \notin Booting
  BY Running DEF SmpInv, BootInv
<1>2. QED  BY <1>1, KeepsBoot DEF SmpInv, BootInv

\* The console lock, and switching off.
LEMMA QuietStep ==
  ASSUME Processors, SmpSetting, SmpInv, NEW c \in CPUs,
         acquire_console(c) \/ release_console(c) \/ shutdown_power_off(c) \/ PowerOff(c)
  PROVE  SmpInv'
<1>1. UNCHANGED <<tlb_vars, boot_vars>> /\ cpu_pc[c] \in {"run", "print"}
  BY DEF acquire_console, release_console, shutdown_power_off, PowerOff
<1>2. Pending' = Pending
  BY DEF Pending, acquire_console, release_console, shutdown_power_off, PowerOff,
         lapic_send_ipi_to_all_but_self
<1>3. CASE UNCHANGED cpu_pc
  BY <1>1, <1>2, <1>3, StaysAt, KeepsFlush DEF SmpInv, Interruptible
<1>4. CASE \E l \in {"print", "poweroff"} : cpu_pc' = [cpu_pc EXCEPT ![c] = l]
  <2>1. PICK l \in {"print", "poweroff"} : cpu_pc' = [cpu_pc EXCEPT ![c] = l]
    BY <1>4, Zenon
  <2>2. BootInv' /\ cpu_pc'[c] = l /\ \A k \in CPUs \ {c} : cpu_pc'[k] = cpu_pc[k]
    BY <1>1, <2>1, GoesTo, Zenon DEF Interruptible, SmpLabels, Booting
  <2>3. \A k \in CPUs : cpu_pc'[k] = cpu_pc[k] \/ (cpu_pc[k] \notin Flushing /\ cpu_pc'[k] \notin Flushing)
    BY <1>1, <2>1, <2>2 DEF Flushing
  <2>4. QED  BY <1>1, <1>2, <2>2, <2>3, KeepsFlush DEF SmpInv
<1>5. QED
  BY <1>3, <1>4 DEF acquire_console, release_console, shutdown_power_off, PowerOff, Go

LEMMA SwitchStep ==
  ASSUME Processors, SmpSetting, SmpInv, NEW c \in CPUs, NEW d \in Dirs \cup {None}, Switch(c, d)
  PROVE  SmpInv'
<1>1. /\ cpu_pc[c] = "run" /\ (d = None \/ \A k \in CPUs : pd[k] # d)
      /\ pd' = [pd EXCEPT ![c] = d] /\ tlb' = [tlb EXCEPT ![c] = 0]
      /\ UNCHANGED <<cpu_pc, boot_vars, ver, job, flush, ipi>>
  BY DEF Switch
<1>2. BootInv'
  BY <1>1, StaysAt DEF Interruptible
<1>3. Pending' = Pending
  BY <1>1 DEF Pending
<1>4. /\ pd' \in [CPUs -> Dirs \cup {None}] /\ tlb' \in [CPUs -> Nat]
      /\ pd'[c] = d /\ tlb'[c] = 0
      /\ \A k \in CPUs \ {c} : pd'[k] = pd[k] /\ tlb'[k] = tlb[k]
  BY <1>1 DEF SmpInv, FlushInv, FlushTypes
<1>5. \A k \in CPUs : Stale(k)' => k # c /\ Stale(k)
  BY <1>1, <1>4 DEF Stale
<1>6. \A a, b \in CPUs : pd'[a] = pd'[b] /\ a # b => pd'[a] = None
  <2> TAKE a, b \in CPUs
  <2>1. CASE a # c /\ b # c
    BY <1>4, <2>1 DEF SmpInv, FlushInv, DirsApart
  <2>2. CASE a = c \/ b = c
    BY <1>1, <1>4, <2>2
  <2>3. QED  BY <2>1, <2>2
<1>7. job[c] = None
  BY <1>1 DEF SmpInv, FlushInv, Roles
<1>8. \A k \in CPUs : job[k] # None => pd'[k] # job[k]
  BY <1>4, <1>7, Zenon DEF SmpInv, FlushInv, Roles
<1>9. \A x \in CPUs : Stale(x)' =>
        \E k \in CPUs : /\ job[k] = pd'[x]
                        /\ cpu_pc[k] \in {"lock", "send", "frozen"} \/ (cpu_pc[k] = "wait" /\ x \in Pending)
  BY <1>4, <1>5, Zenon DEF SmpInv, FlushInv, StaleAreNamed
<1>10. FlushInv'
  <2>1. FlushTypes'
    BY <1>1, <1>3, <1>4 DEF SmpInv, FlushInv, FlushTypes
  <2>2. Roles'
    BY <1>1, <1>3, <1>8, Zenon DEF SmpInv, FlushInv, Roles
  <2>3. DirsApart'
    BY <1>1, <1>3, <1>4, <1>6, <1>8, <1>9, Zenon DEF SmpInv, FlushInv, DirsApart
  <2>4. StaleAreNamed'
    BY <1>1, <1>3, <1>4, <1>6, <1>8, <1>9, Zenon DEF SmpInv, FlushInv, StaleAreNamed
  <2>5. QED  BY <2>1, <2>2, <2>3, <2>4 DEF FlushInv
<1>11. QED  BY <1>2, <1>10 DEF SmpInv

LEMMA TouchStep ==
  ASSUME Processors, SmpSetting, SmpInv, NEW c \in CPUs, Touch(c)
  PROVE  SmpInv'
<1>1. /\ cpu_pc[c] = "run" /\ pd[c] # None /\ tlb' = [tlb EXCEPT ![c] = ver[pd[c]]]
      /\ UNCHANGED <<cpu_pc, boot_vars, pd, ver, job, flush, ipi>>
  BY Zenon DEF Touch
<1>2. BootInv' /\ Pending' = Pending
  BY <1>1, StaysAt, Zenon DEF Interruptible, Pending
<1>3. /\ tlb' \in [CPUs -> Nat] /\ tlb'[c] = ver[pd[c]]
      /\ \A k \in CPUs \ {c} : tlb'[k] = tlb[k]
  BY <1>1 DEF SmpInv, FlushInv, FlushTypes
<1>4. \A k \in CPUs : Stale(k)' => Stale(k)
  BY <1>1, <1>3, Zenon DEF Stale
<1>5. FlushInv'
  <2>1. FlushTypes'
    BY <1>1, <1>2, <1>3, <1>4 DEF SmpInv, FlushInv, FlushTypes
  <2>2. Roles'
    BY <1>1, <1>2, <1>3, <1>4, Zenon DEF SmpInv, FlushInv, Roles
  <2>3. DirsApart'
    BY <1>1, <1>2, <1>3, <1>4, Zenon DEF SmpInv, FlushInv, DirsApart
  <2>4. StaleAreNamed'
    BY <1>1, <1>2, <1>3, <1>4, Zenon DEF SmpInv, FlushInv, StaleAreNamed
  <2>5. QED  BY <2>1, <2>2, <2>3, <2>4 DEF FlushInv
<1>6. QED  BY <1>2, <1>5 DEF SmpInv

LEMMA ChangeStep ==
  ASSUME Processors, SmpSetting, SmpInv, NEW c \in CPUs, NEW d \in Dirs, invalidate_pagedir(c, d)
  PROVE  SmpInv'
<1>1. cpu_pc[c] = "run" /\ ver' = [ver EXCEPT ![d] = @ + 1] /\ UNCHANGED <<boot_vars, pd, flush, ipi>>
  BY Zenon DEF invalidate_pagedir
<1>2. Pending' = Pending
  BY <1>1 DEF Pending
<1>3. /\ ver' \in [Dirs -> Nat] /\ \A e \in Dirs \ {d} : ver'[e] = ver[e]
      /\ job[c] = None /\ flush.lock # c /\ d # None
  <2>1. ver \in [Dirs -> Nat]
    BY DEF SmpInv, FlushInv, FlushTypes
  <2>2. ver' \in [Dirs -> Nat] /\ \A e \in Dirs \ {d} : ver'[e] = ver[e]
    BY <1>1, <2>1
  <2>3. job[c] = None /\ flush.lock # c
    BY <1>1, Zenon DEF SmpInv, FlushInv, Roles
  <2>4. QED  BY <2>2, <2>3 DEF SmpSetting
<1>4. CASE pd[c] = d
  <2>1. tlb' = [tlb EXCEPT ![c] = 0] /\ UNCHANGED <<cpu_pc, job>>
    BY <1>4, Zenon DEF invalidate_pagedir
  <2>2. tlb' \in [CPUs -> Nat] /\ tlb'[c] = 0 /\ \A k \in CPUs \ {c} : tlb'[k] = tlb[k]
    BY <2>1 DEF SmpInv, FlushInv, FlushTypes
  <2>3. \A k \in CPUs \ {c} : pd[k] # d
    BY <1>3, <1>4 DEF SmpInv, FlushInv, DirsApart
  <2>4. \A k \in CPUs : Stale(k)' => Stale(k)
    BY <1>1, <1>3, <2>2, <2>3 DEF Stale, SmpInv, FlushInv, FlushTypes
  <2>5. BootInv'
    BY <1>1, <2>1, StaysAt DEF Interruptible
  <2>6. FlushInv'
    <3>1. FlushTypes'
      BY <1>1, <1>2, <1>3, <2>1, <2>2, <2>4 DEF SmpInv, FlushInv, FlushTypes
    <3>2. Roles'
      BY <1>1, <1>2, <1>3, <2>1, <2>2, <2>4, Zenon DEF SmpInv, FlushInv, Roles
    <3>3. DirsApart'
      BY <1>1, <1>2, <1>3, <2>1, <2>2, <2>4, Zenon DEF SmpInv, FlushInv, DirsApart
    <3>4. StaleAreNamed'
      BY <1>1, <1>2, <1>3, <2>1, <2>2, <2>4, Zenon DEF SmpInv, FlushInv, StaleAreNamed
    <3>5. QED  BY <3>1, <3>2, <3>3, <3>4 DEF FlushInv
  <2>7. QED  BY <2>5, <2>6 DEF SmpInv
<1>5. CASE pd[c] # d
  <2>1. tlb' = tlb /\ cpu_pc' = [cpu_pc EXCEPT ![c] = "lock"] /\ job' = [job EXCEPT ![c] = d]
    BY <1>5 DEF invalidate_pagedir, Go
  <2>2. BootInv' /\ cpu_pc'[c] = "lock" /\ \A k \in CPUs \ {c} : cpu_pc'[k] = cpu_pc[k]
    BY <1>1, <2>1, GoesTo, Zenon DEF Interruptible, SmpLabels, Booting
  <2>3. /\ job' \in [CPUs -> Dirs \cup {None}] /\ job'[c] = d
        /\ \A k \in CPUs \ {c} : job'[k] = job[k]
    BY <2>1 DEF SmpInv, FlushInv, FlushTypes
  <2>4. \A x \in CPUs : Stale(x)' =>
          \E k \in CPUs : /\ job'[k] = pd[x]
                          /\ cpu_pc'[k] \in {"lock", "send", "frozen"} \/ (cpu_pc'[k] = "wait" /\ x \in Pending)
    <3> SUFFICES ASSUME NEW x \in CPUs, Stale(x)'
                 PROVE  \E k \in CPUs : /\ job'[k] = pd[x]
                                        /\ \/ cpu_pc'[k] \in {"lock", "send", "frozen"}
                                           \/ cpu_pc'[k] = "wait" /\ x \in Pending
      BY Zenon
    <3>1. CASE pd[x] = d
      BY <2>2, <2>3, <3>1, Zenon
    <3>2. CASE pd[x] # d
      <4>1. pd[x] \in Dirs \ {d} /\ Stale(x)
        BY <1>1, <1>3, <2>1, <3>2 DEF Stale, SmpInv, FlushInv, FlushTypes
      <4>2. PICK k \in CPUs : /\ job[k] = pd[x]
                              /\ cpu_pc[k] \in {"lock", "send", "frozen"} \/ (cpu_pc[k] = "wait" /\ x \in Pending)
        BY <4>1, Zenon DEF SmpInv, FlushInv, StaleAreNamed
      <4>3. k # c
        BY <1>1, <4>2, Zenon
      <4>4. QED  BY <2>2, <2>3, <4>2, <4>3, Zenon
    <3>3. QED  BY <3>1, <3>2, Zenon
  <2>5. \A k \in CPUs :
          /\ cpu_pc'[k] \in {"send", "wait"} => flush.lock = k /\ flush.pd = job'[k]
          /\ flush.lock = k => cpu_pc'[k] \in {"send", "wait", "frozen"}
          /\ cpu_pc'[k] = "send" => Pending = {} /\ flush.remaining = ncpu - 1
          /\ cpu_pc'[k] = "wait" => flush.remaining = Cardinality(Pending)
          /\ job'[k] # None => cpu_pc'[k] \in {"lock", "send", "wait", "frozen"} /\ pd[k] # job'[k]
    <3> TAKE k \in CPUs
    <3>1. CASE k = c
      BY <1>3, <1>5, <2>2, <2>3, <3>1, Zenon
    <3>2. CASE k # c
      <4>1. cpu_pc'[k] = cpu_pc[k] /\ job'[k] = job[k]
        BY <2>2, <2>3, <3>2
      <4>2. QED  BY <4>1, Zenon DEF SmpInv, FlushInv, Roles
    <3>3. QED  BY <3>1, <3>2, Zenon
  <2>6. FlushInv'
    <3>1. FlushTypes'
      BY <1>1, <1>2, <1>3, <2>1, <2>3, <2>4, <2>5, Zenon DEF SmpInv, FlushInv, FlushTypes
    <3>2. Roles'
      BY <1>1, <1>2, <1>3, <2>1, <2>3, <2>4, <2>5, Zenon DEF SmpInv, FlushInv, Roles
    <3>3. DirsApart'
      BY <1>1, Zenon DEF SmpInv, FlushInv, DirsApart
    <3>4. StaleAreNamed'
      BY <1>1, <1>2, <2>4, Zenon DEF StaleAreNamed
    <3>5. QED  BY <3>1, <3>2, <3>3, <3>4 DEF FlushInv
  <2>7. QED  BY <2>2, <2>6, Zenon DEF SmpInv
<1>6. QED  BY <1>4, <1>5

LEMMA LockStep ==
  ASSUME Processors, SmpSetting, SmpInv, NEW c \in CPUs, LockFlush(c)
  PROVE  SmpInv'
<1>1. /\ cpu_pc[c] = "lock" /\ flush.lock = None /\ cpu_pc' = [cpu_pc EXCEPT ![c] = "send"]
      /\ flush' = [lock |-> c, pd |-> job[c], remaining |-> ncpu - 1]
      /\ UNCHANGED <<boot_vars, pd, tlb, ver, job, ipi>>
  BY Zenon DEF LockFlush, Go
<1>2. BootInv' /\ cpu_pc'[c] = "send" /\ \A k \in CPUs \ {c} : cpu_pc'[k] = cpu_pc[k]
  BY <1>1, GoesTo, Zenon DEF Interruptible, SmpLabels, Booting
<1>3. Pending' = Pending /\ Pending = {}
  BY <1>1, Zenon DEF Pending, SmpInv, FlushInv, FlushTypes
<1>4. flush'.lock = c /\ flush'.pd = job[c] /\ flush'.remaining = ncpu - 1
  BY <1>1
<1>5. flush' \in [lock : CPUs \cup {None}, pd : Dirs \cup {None}, remaining : Int]
  BY <1>1 DEF SmpInv, FlushInv, FlushTypes, Processors
<1>6. \A k \in CPUs : cpu_pc[k] \notin {"send", "wait"} /\ c # None
  BY <1>1 DEF SmpInv, FlushInv, Roles, SmpSetting
<1>7. \A k \in CPUs :
        /\ cpu_pc'[k] \in {"send", "wait"} => flush'.lock = k /\ flush'.pd = job[k]
        /\ flush'.lock = k => cpu_pc'[k] \in {"send", "wait", "frozen"}
        /\ cpu_pc'[k] = "send" => Pending = {} /\ flush'.remaining = ncpu - 1
        /\ cpu_pc'[k] = "wait" => flush'.remaining = Cardinality(Pending)
        /\ job[k] # None => cpu_pc'[k] \in {"lock", "send", "wait", "frozen"} /\ pd[k] # job[k]
  <2> TAKE k \in CPUs
  <2>1. job[k] # None => cpu_pc[k] \in {"lock", "send", "wait", "frozen"} /\ pd[k] # job[k]
    BY Zenon DEF SmpInv, FlushInv, Roles
  <2>2. CASE k = c
    BY <1>2, <1>3, <1>4, <2>1, <2>2
  <2>3. CASE k # c
    BY <1>2, <1>4, <1>6, <2>1, <2>3
  <2>4. QED  BY <2>2, <2>3, Zenon
<1>8. \A x \in CPUs : Stale(x)' =>
        \E k \in CPUs : /\ job[k] = pd[x]
                        /\ cpu_pc'[k] \in {"lock", "send", "frozen"} \/ (cpu_pc'[k] = "wait" /\ x \in Pending)
  <2>1. \A x \in CPUs : Stale(x)' => Stale(x)
    BY <1>1, Zenon DEF Stale
  <2>2. \A k \in CPUs : cpu_pc[k] \in {"lock", "send", "frozen"} => cpu_pc'[k] \in {"lock", "send", "frozen"}
    BY <1>2
  <2>3. \A x \in CPUs : Stale(x) => \E k \in CPUs : job[k] = pd[x] /\ cpu_pc[k] \in {"lock", "send", "frozen"}
    BY <1>3, Zenon DEF SmpInv, FlushInv, StaleAreNamed
  <2>4. QED  BY <2>1, <2>2, <2>3, Zenon
<1>9. FlushInv'
  <2>1. FlushTypes'
    BY <1>1, <1>3, <1>4, <1>5, <1>6, <1>7, <1>8, Zenon DEF SmpInv, FlushInv, FlushTypes
  <2>2. Roles'
    BY <1>1, <1>3, <1>4, <1>5, <1>6, <1>7, <1>8, Zenon DEF SmpInv, FlushInv, Roles
  <2>3. DirsApart'
    BY <1>1, Zenon DEF SmpInv, FlushInv, DirsApart
  <2>4. StaleAreNamed'
    BY <1>1, <1>3, <1>8, Zenon DEF StaleAreNamed
  <2>5. QED  BY <2>1, <2>2, <2>3, <2>4 DEF FlushInv
<1>10. QED  BY <1>2, <1>9, Zenon DEF SmpInv

LEMMA SendStep ==
  ASSUME Processors, SmpSetting, SmpInv, NEW c \in CPUs, SendFlush(c)
  PROVE  SmpInv'
<1>1. /\ cpu_pc[c] = "send" /\ cpu_pc' = [cpu_pc EXCEPT ![c] = "wait"]
      /\ UNCHANGED <<boot_vars, pd, tlb, ver, job, flush>>
  BY DEF SendFlush, Go, tlb_vars
<1>2. BootInv' /\ cpu_pc'[c] = "wait" /\ \A k \in CPUs \ {c} : cpu_pc'[k] = cpu_pc[k]
  BY <1>1, GoesTo, Zenon DEF Interruptible, SmpLabels, Booting
<1>3. others
  BY <1>1, Running DEF SmpInv, Interruptible
<1>4. /\ flush.lock = c /\ flush.pd = job[c] /\ flush.remaining = ncpu - 1 /\ Pending = {}
      /\ c # None
  BY <1>1 DEF SmpInv, FlushInv, Roles, SmpSetting
<1>5. Pending' = CPUs \ {c}
  BY <1>3, <1>4, Zenon DEF Pending, SendFlush, lapic_send_ipi_to_all_but_self
<1>6. Cardinality(CPUs \ {c}) = ncpu - 1
  BY DEF ncpu, Processors
<1>7. \A k \in CPUs \ {c} : cpu_pc[k] \notin {"send", "wait"}
  BY <1>4, Zenon DEF SmpInv, FlushInv, Roles
<1>8. \A k \in CPUs :
        /\ cpu_pc'[k] \in {"send", "wait"} => flush.lock = k /\ flush.pd = job[k]
        /\ flush.lock = k => cpu_pc'[k] \in {"send", "wait", "frozen"}
        /\ cpu_pc'[k] = "send" => Pending' = {} /\ flush.remaining = ncpu - 1
        /\ cpu_pc'[k] = "wait" => flush.remaining = Cardinality(Pending')
        /\ job[k] # None => cpu_pc'[k] \in {"lock", "send", "wait", "frozen"} /\ pd[k] # job[k]
  <2> TAKE k \in CPUs
  <2>1. CASE k = c
    BY <1>1, <1>2, <1>4, <1>5, <1>6, <2>1, Zenon DEF SmpInv, FlushInv, Roles
  <2>2. CASE k # c
    BY <1>2, <1>4, <1>7, <2>2, Zenon DEF SmpInv, FlushInv, Roles
  <2>3. QED  BY <2>1, <2>2, Zenon
<1>9. \A x \in CPUs : Stale(x)' =>
        \E k \in CPUs : /\ job[k] = pd[x]
                        /\ cpu_pc'[k] \in {"lock", "send", "frozen"} \/ (cpu_pc'[k] = "wait" /\ x \in Pending')
  <2> SUFFICES ASSUME NEW x \in CPUs, Stale(x)'
               PROVE  \E k \in CPUs : /\ job[k] = pd[x]
                                      /\ \/ cpu_pc'[k] \in {"lock", "send", "frozen"}
                                         \/ cpu_pc'[k] = "wait" /\ x \in Pending'
    BY Zenon
  <2>1. Stale(x) /\ pd[x] # None
    BY <1>1, Zenon DEF Stale
  <2>2. PICK k \in CPUs : job[k] = pd[x] /\ cpu_pc[k] \in {"lock", "send", "frozen"}
    BY <1>4, <2>1, Zenon DEF SmpInv, FlushInv, StaleAreNamed
  <2>3. CASE k = c
    <3>1. x # c
      BY <2>1, <2>2, <2>3, Zenon DEF SmpInv, FlushInv, Roles
    <3>2. QED  BY <1>2, <1>5, <2>2, <2>3, <3>1, Zenon
  <2>4. CASE k # c
    BY <1>2, <2>2, <2>4, Zenon
  <2>5. QED  BY <2>3, <2>4, Zenon
<1>10. FlushInv'
  <2>1. FlushTypes'
    BY <1>1, <1>4, <1>8, <1>9 DEF SmpInv, FlushInv, FlushTypes
  <2>2. Roles'
    BY <1>1, <1>4, <1>8, <1>9, Zenon DEF SmpInv, FlushInv, Roles
  <2>3. DirsApart'
    BY <1>1 DEF SmpInv, FlushInv, DirsApart
  <2>4. StaleAreNamed'
    BY <1>1, <1>4, <1>8, <1>9, Zenon DEF SmpInv, FlushInv, StaleAreNamed
  <2>5. QED  BY <2>1, <2>2, <2>3, <2>4 DEF FlushInv
<1>11. QED  BY <1>2, <1>10, Zenon DEF SmpInv

LEMMA EndStep ==
  ASSUME Processors, SmpSetting, SmpInv, NEW c \in CPUs, EndFlush(c)
  PROVE  SmpInv'
<1>1. /\ cpu_pc[c] = "wait" /\ flush.remaining <= 0 /\ cpu_pc' = [cpu_pc EXCEPT ![c] = "run"]
      /\ flush' = [flush EXCEPT !.lock = None] /\ job' = [job EXCEPT ![c] = None]
      /\ UNCHANGED <<boot_vars, pd, tlb, ver, ipi>>
  BY DEF EndFlush, Go
<1>2. BootInv' /\ cpu_pc'[c] = "run" /\ \A k \in CPUs \ {c} : cpu_pc'[k] = cpu_pc[k]
  BY <1>1, GoesTo, Zenon DEF Interruptible, SmpLabels, Booting
<1>3. Pending' = Pending
  BY <1>1 DEF Pending
<1>4. flush.lock = c /\ flush.remaining = Cardinality(Pending)
  BY <1>1 DEF SmpInv, FlushInv, Roles
<1>5. Pending = {}
  <2>1. Pending \in SUBSET CPUs
    BY DEF Pending
  <2>2. Cardinality(Pending) \in Nat /\ (Cardinality(Pending) = 0 => Pending = {})
    BY <2>1 DEF Processors
  <2>3. QED  BY <1>1, <1>4, <2>2
<1>6. /\ job' \in [CPUs -> Dirs \cup {None}] /\ job'[c] = None
      /\ \A k \in CPUs \ {c} : job'[k] = job[k]
      /\ flush' \in [lock : CPUs \cup {None}, pd : Dirs \cup {None}, remaining : Int]
      /\ flush'.lock = None
  BY <1>1 DEF SmpInv, FlushInv, FlushTypes
<1>7. \A k \in CPUs : cpu_pc'[k] \notin {"send", "wait"} /\ k # None
  <2>1. c # None /\ \A k \in CPUs : k # None
    BY DEF SmpSetting
  <2>2. \A k \in CPUs \ {c} : cpu_pc[k] \notin {"send", "wait"}
    BY <1>4 DEF SmpInv, FlushInv, Roles
  <2>3. QED  BY <1>2, <2>1, <2>2
<1>8. \A k \in CPUs : job'[k] # None =>
        cpu_pc'[k] \in {"lock", "send", "wait", "frozen"} /\ pd[k] # job'[k]
  <2>1. \A k \in CPUs : job[k] # None =>
          cpu_pc[k] \in {"lock", "send", "wait", "frozen"} /\ pd[k] # job[k]
    BY DEF SmpInv, FlushInv, Roles
  <2>2. QED  BY <1>2, <1>6, <2>1, Zenon
<1>9. \A x \in CPUs : Stale(x)' =>
        \E k \in CPUs : /\ job'[k] = pd[x]
                        /\ cpu_pc'[k] \in {"lock", "send", "frozen"} \/ (cpu_pc'[k] = "wait" /\ x \in Pending)
  <2>1. \A x \in CPUs : Stale(x)' => Stale(x)
    BY <1>1 DEF Stale
  <2>2. \A x \in CPUs : Stale(x) =>
          \E k \in CPUs : job[k] = pd[x] /\ cpu_pc[k] \in {"lock", "send", "frozen"}
    BY <1>5 DEF SmpInv, FlushInv, StaleAreNamed
  <2>3. \A k \in CPUs : cpu_pc[k] \in {"lock", "send", "frozen"} => k # c
    BY <1>1
  <2>4. \A k \in CPUs \ {c} : job'[k] = job[k] /\ cpu_pc'[k] = cpu_pc[k]
    BY <1>2, <1>6, Zenon
  <2>5. QED
    <3> SUFFICES ASSUME NEW x \in CPUs, Stale(x)
                 PROVE  \E k \in CPUs : job'[k] = pd[x] /\ cpu_pc'[k] \in {"lock", "send", "frozen"}
      BY <2>1
    <3>1. PICK k \in CPUs : job[k] = pd[x] /\ cpu_pc[k] \in {"lock", "send", "frozen"}
      BY <2>2
    <3>2. QED  BY <2>3, <2>4, <3>1
<1>10. FlushInv'
  <2>1. FlushTypes'
    BY <1>1, <1>3, <1>5, <1>6, <1>7, <1>8, <1>9 DEF SmpInv, FlushInv, FlushTypes
  <2>2. Roles'
    BY <1>1, <1>3, <1>5, <1>6, <1>7, <1>8, <1>9 DEF SmpInv, FlushInv, Roles
  <2>3. DirsApart'
    BY <1>1, <1>3, <1>5, <1>6, <1>7, <1>8, <1>9 DEF SmpInv, FlushInv, DirsApart
  <2>4. StaleAreNamed'
    BY <1>1, <1>3, <1>5, <1>6, <1>7, <1>8, <1>9 DEF SmpInv, FlushInv, StaleAreNamed
  <2>5. QED  BY <2>1, <2>2, <2>3, <2>4 DEF FlushInv
<1>11. QED  BY <1>2, <1>10 DEF SmpInv

LEMMA AnswerStep ==
  ASSUME Processors, SmpSetting, SmpInv, NEW c \in CPUs, pagedir_handle_tlbflush_request(c)
  PROVE  SmpInv'
<1>1. /\ <<c, "tlb">> \in ipi /\ cpu_pc[c] \in Interruptible /\ ipi' = ipi \ {<<c, "tlb">>}
      /\ tlb' = IF pd[c] = flush.pd THEN [tlb EXCEPT ![c] = 0] ELSE tlb
      /\ flush' = [flush EXCEPT !.remaining = @ - 1]
      /\ UNCHANGED <<cpu_pc, boot_vars, pd, ver, job>>
  BY DEF pagedir_handle_tlbflush_request
<1>2. BootInv'
  BY <1>1, StaysAt
<1>3. Pending' = Pending \ {c} /\ c \in Pending
  BY <1>1 DEF Pending
<1>4. Cardinality(Pending \ {c}) = Cardinality(Pending) - 1
  <2>1. Pending \in SUBSET CPUs
    BY DEF Pending
  <2>2. QED  BY <1>3, <2>1 DEF Processors
<1>5. /\ flush' \in [lock : CPUs \cup {None}, pd : Dirs \cup {None}, remaining : Int]
      /\ flush'.lock = flush.lock /\ flush'.pd = flush.pd /\ flush'.remaining = flush.remaining - 1
  BY <1>1 DEF SmpInv, FlushInv, FlushTypes
<1>6. /\ tlb' \in [CPUs -> Nat] /\ (pd[c] = flush.pd => tlb'[c] = 0)
      /\ \A k \in CPUs \ {c} : tlb'[k] = tlb[k]
      /\ pd[c] # flush.pd => tlb' = tlb
  BY <1>1 DEF SmpInv, FlushInv, FlushTypes
<1>7. \A k \in CPUs :
        /\ cpu_pc[k] \in {"send", "wait"} => flush'.lock = k /\ flush'.pd = job[k]
        /\ flush'.lock = k => cpu_pc[k] \in {"send", "wait", "frozen"}
        /\ cpu_pc[k] = "send" => Pending' = {} /\ flush'.remaining = ncpu - 1
        /\ cpu_pc[k] = "wait" => flush'.remaining = Cardinality(Pending')
  BY <1>3, <1>4, <1>5, Zenon DEF SmpInv, FlushInv, Roles
<1>8. \A x \in CPUs : Stale(x)' =>
        \E k \in CPUs : /\ job[k] = pd[x]
                        /\ cpu_pc[k] \in {"lock", "send", "frozen"} \/ (cpu_pc[k] = "wait" /\ x \in Pending')
  <2> SUFFICES ASSUME NEW x \in CPUs, Stale(x)'
               PROVE  \E k \in CPUs : /\ job[k] = pd[x]
                                      /\ \/ cpu_pc[k] \in {"lock", "send", "frozen"}
                                         \/ cpu_pc[k] = "wait" /\ x \in Pending'
    OBVIOUS
  <2>1. Stale(x) /\ ~(x = c /\ pd[c] = flush.pd)
    BY <1>1, <1>6 DEF Stale
  <2>2. PICK k \in CPUs : /\ job[k] = pd[x]
                          /\ cpu_pc[k] \in {"lock", "send", "frozen"} \/ (cpu_pc[k] = "wait" /\ x \in Pending)
    BY <2>1 DEF SmpInv, FlushInv, StaleAreNamed
  <2>3. CASE cpu_pc[k] = "wait" /\ x \in Pending
    <3>1. flush.pd = job[k]
      BY <2>3, Zenon DEF SmpInv, FlushInv, Roles
    <3>2. x # c
      BY <2>1, <2>2, <3>1, Zenon
    <3>3. QED  BY <1>3, <2>2, <2>3, <3>2, Zenon
  <2>4. QED  BY <2>2, <2>3, Zenon
<1>9. flush'.lock = None => Pending' = {}
  BY <1>3, <1>5 DEF SmpInv, FlushInv, FlushTypes
<1>10. \A k \in CPUs : job'[k] # None =>
         cpu_pc'[k] \in {"lock", "send", "wait", "frozen"} /\ pd'[k] # job'[k]
  BY <1>1 DEF SmpInv, FlushInv, Roles
<1>11. FlushInv'
  <2>1. FlushTypes'
    BY <1>1, <1>5, <1>6, <1>7, <1>8, <1>9, <1>10 DEF SmpInv, FlushInv, FlushTypes
  <2>2. Roles'
    BY <1>1, <1>5, <1>6, <1>7, <1>8, <1>9, <1>10 DEF SmpInv, FlushInv, Roles
  <2>3. DirsApart'
    BY <1>1, <1>5, <1>6, <1>7, <1>8, <1>9, <1>10 DEF SmpInv, FlushInv, DirsApart
  <2>4. StaleAreNamed'
    BY <1>1, <1>5, <1>6, <1>7, <1>8, <1>9, <1>10 DEF SmpInv, FlushInv, StaleAreNamed
  <2>5. QED  BY <2>1, <2>2, <2>3, <2>4 DEF FlushInv
<1>12. QED  BY <1>2, <1>11 DEF SmpInv

LEMMA FreezeStep ==
  ASSUME Processors, SmpSetting, SmpInv, NEW c \in CPUs, shutdown_handle_ipi(c)
  PROVE  SmpInv'
<1>1. /\ cpu_pc[c] \in Interruptible /\ UNCHANGED <<boot_vars, pd, tlb, ver, job, flush>>
      /\ ipi' = ipi \ {<<c, "shutdown">>}
      /\ cpu_pc' = cpu_pc \/ cpu_pc' = [cpu_pc EXCEPT ![c] = "frozen"]
  BY DEF shutdown_handle_ipi, tlb_vars
<1>2. Pending' = Pending
  BY <1>1 DEF Pending
<1>3. CASE cpu_pc' = cpu_pc
  <2>1. UNCHANGED tlb_vars
    BY DEF shutdown_handle_ipi
  <2>2. QED  BY <1>1, <1>2, <1>3, <2>1, StaysAt, KeepsFlush DEF SmpInv
<1>4. CASE cpu_pc' = [cpu_pc EXCEPT ![c] = "frozen"]
  <2>1. BootInv' /\ cpu_pc'[c] = "frozen" /\ \A k \in CPUs \ {c} : cpu_pc'[k] = cpu_pc[k]
    BY <1>1, <1>4, GoesTo, Zenon DEF SmpLabels, Booting
  <2>2. flush.lock = c => cpu_pc[c] \in {"send", "wait", "frozen"}
    BY Zenon DEF SmpInv, FlushInv, Roles
  <2>3. \A k \in CPUs :
          /\ cpu_pc'[k] \in {"send", "wait"} => flush.lock = k /\ flush.pd = job[k]
          /\ flush.lock = k => cpu_pc'[k] \in {"send", "wait", "frozen"}
          /\ cpu_pc'[k] = "send" => Pending = {} /\ flush.remaining = ncpu - 1
          /\ cpu_pc'[k] = "wait" => flush.remaining = Cardinality(Pending)
          /\ job[k] # None => cpu_pc'[k] \in {"lock", "send", "wait", "frozen"} /\ pd[k] # job[k]
    <3> TAKE k \in CPUs
    <3>1. CASE k = c
      BY <2>1, <3>1, Zenon DEF SmpInv, FlushInv, Roles
    <3>2. CASE k # c
      BY <2>1, <3>2, Zenon DEF SmpInv, FlushInv, Roles
    <3>3. QED  BY <3>1, <3>2, Zenon
  <2>4. \A x \in CPUs : Stale(x)' =>
          \E k \in CPUs : /\ job[k] = pd[x]
                          /\ cpu_pc'[k] \in {"lock", "send", "frozen"} \/ (cpu_pc'[k] = "wait" /\ x \in Pending)
    <3>1. \A x \in CPUs : Stale(x)' => Stale(x)
      BY <1>1, Zenon DEF Stale
    <3> SUFFICES ASSUME NEW x \in CPUs, Stale(x)
                 PROVE  \E k \in CPUs : /\ job[k] = pd[x]
                                        /\ \/ cpu_pc'[k] \in {"lock", "send", "frozen"}
                                           \/ cpu_pc'[k] = "wait" /\ x \in Pending
      BY <3>1, Zenon
    <3>2. PICK k \in CPUs : /\ job[k] = pd[x]
                            /\ \/ cpu_pc[k] \in {"lock", "send", "frozen"}
                               \/ cpu_pc[k] = "wait" /\ x \in Pending
      BY Zenon DEF SmpInv, FlushInv, StaleAreNamed
    <3>3. cpu_pc'[k] = cpu_pc[k] \/ cpu_pc'[k] = "frozen"
      BY <2>1
    <3>4. QED  BY <3>2, <3>3, Zenon
  <2>5. FlushInv'
    <3>1. FlushTypes'
      BY <1>1, <1>2, <2>3, <2>4, Zenon DEF SmpInv, FlushInv, FlushTypes
    <3>2. Roles'
      BY <1>1, <1>2, <2>3, <2>4, Zenon DEF SmpInv, FlushInv, Roles
    <3>3. DirsApart'
      BY <1>1 DEF SmpInv, FlushInv, DirsApart
    <3>4. StaleAreNamed'
      BY <1>1, <1>2, <2>4, Zenon DEF StaleAreNamed
    <3>5. QED  BY <3>1, <3>2, <3>3, <3>4 DEF FlushInv
  <2>6. QED  BY <2>1, <2>5 DEF SmpInv
<1>5. QED  BY <1>1, <1>3, <1>4

LEMMA SmpNextInv ==
  ASSUME Processors, SmpSetting, SmpInv, [SmpNext]_smp_vars
  PROVE  SmpInv'
<1>1. CASE UNCHANGED smp_vars
  <2>1. UNCHANGED <<cpu_pc, started, can_acquire, others, cur, pd, tlb, ver, job, flush, ipi>>
    BY <1>1 DEF smp_vars
  <2>2. Pending' = Pending /\ \A c \in CPUs : Stale(c)' <=> Stale(c)
    BY <2>1, Zenon DEF Pending, Stale
  <2>3. BootInv'
    BY <2>1, Zenon DEF SmpInv, BootInv
  <2>4. FlushInv'
    <3>1. FlushTypes'
      BY <2>1, <2>2 DEF SmpInv, FlushInv, FlushTypes
    <3>2. Roles'
      BY <2>1, <2>2, Zenon DEF SmpInv, FlushInv, Roles
    <3>3. DirsApart'
      BY <2>1, <2>2 DEF SmpInv, FlushInv, DirsApart
    <3>4. StaleAreNamed'
      BY <2>1, <2>2, Zenon DEF SmpInv, FlushInv, StaleAreNamed
    <3>5. QED  BY <3>1, <3>2, <3>3, <3>4 DEF FlushInv
  <2>5. QED  BY <2>3, <2>4 DEF SmpInv
<1>2. CASE Boot
  BY <1>2, BootStep
<1>3. ASSUME NEW c \in CPUs, Work(c)  PROVE SmpInv'
  BY <1>3, QuietStep, TouchStep, SwitchStep, ChangeStep DEF Work
<1>4. ASSUME NEW c \in CPUs, SmpStep(c)  PROVE SmpInv'
  BY <1>4, AnswerStep, FreezeStep, LockStep, SendStep, EndStep, QuietStep DEF SmpStep, Handle, Flush
<1>5. ASSUME NEW c \in CPUs, shutdown_power_off(c)  PROVE SmpInv'
  BY <1>5, QuietStep
<1>6. QED  BY <1>1, <1>2, <1>3, <1>4, <1>5 DEF SmpNext

INSTANCE FiniteSetTheorems

LEMMA ProcessorsHold ==
  ASSUME SmpSetting
  PROVE  Processors
<1>1. PICK n \in Nat \ {0} : CPUs = 0 .. n - 1
  BY DEF SmpSetting
<1>2. IsFiniteSet(0 .. n - 1) /\ Cardinality(0 .. n - 1) = n
  BY <1>1, FS_Interval
<1>3. \A S \in SUBSET CPUs : IsFiniteSet(S)
  BY <1>1, <1>2, FS_Subset, Zenon
<1>4. \A S \in SUBSET CPUs : Cardinality(S) \in Nat /\ (Cardinality(S) = 0 => S = {})
  BY <1>3, FS_CardinalityType, FS_EmptySet
<1>5. \A S \in SUBSET CPUs : \A c \in S : Cardinality(S \ {c}) = Cardinality(S) - 1
  BY <1>3, FS_RemoveElement, Zenon
<1>6. QED  BY <1>1, <1>2, <1>4, <1>5 DEF ncpu, Processors

\* While spinlocks cannot be used at most one processor is in the page allocator,
\* and a TLB is behind a page table only until the processor that changed it
\* leaves invalidate_pagedir, for any number of processors.
THEOREM SmpAgreement ==
  ASSUME SmpSetting
  PROVE  SmpSpec => []ProcessorsAgree
<1>1. SmpInit => SmpInv
  BY SmpInitInv, ProcessorsHold
<1>2. SmpInv /\ [SmpNext]_smp_vars => SmpInv'
  BY SmpNextInv, ProcessorsHold
<1>3. SmpInv => ProcessorsAgree
  <2> SUFFICES ASSUME SmpInv PROVE ProcessorsAgree
    OBVIOUS
  <2> DEFINE Allocating == {c \in CPUs : cpu_pc[c] = "alloc"}
  <2>1. ASSUME ~can_acquire  PROVE Cardinality(Allocating) <= 1
    <3>1. ~others /\ cur \in Nat /\ CPUs \subseteq Nat
      BY <2>1, ProcessorsHold DEF SmpInv, BootInv, Processors
    <3>2. \A c \in CPUs \ {0} : cpu_pc[c] = "alloc" => c = cur /\ cpu_pc[0] = "await"
      BY <3>1 DEF SmpInv, BootInv
    <3>3. \E x \in Nat : Allocating \subseteq {x}
      <4>1. CASE cpu_pc[0] = "await"
        BY <3>1, <3>2, <4>1, Zenon
      <4>2. CASE cpu_pc[0] # "await"
        BY <3>2, <4>2
      <4>3. QED  BY <4>1, <4>2
    <3>4. PICK x \in Nat : Allocating \subseteq {x}
      BY <3>3
    <3> HIDE DEF Allocating
    <3>5. Cardinality({x}) = 1 /\ IsFiniteSet({x})
      BY FS_Singleton, Zenon
    <3>6. QED  BY <3>4, <3>5, FS_Subset, Zenon
  <2>2. \A c \in CPUs : pd[c] # None /\ tlb[c] # 0 /\ tlb[c] # ver[pd[c]] =>
          \E k \in CPUs : job[k] = pd[c]
    BY Zenon DEF SmpInv, FlushInv, StaleAreNamed, Stale
  <2>3. QED  BY <2>1, <2>2, Zenon DEF ProcessorsAgree
<1>4. QED  BY <1>1, <1>2, <1>3, PTL DEF SmpSpec
=============================================================================
