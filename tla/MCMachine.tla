----------------------------- MODULE MCMachine -----------------------------
(***************************************************************************)
(* Small instances, for TLC, of the parts of the kernel that hand out the  *)
(* processor, memory and characters, of the libraries, and of the program  *)
(* that relays a console.  A behaviour is one of one part, chosen at the   *)
(* start; the scheduler, the pipe and the array queue have this module's   *)
(* own variables.                                                          *)
(***************************************************************************)
EXTENDS Scheduler, Pipe, ArrayQueue

CONSTANT None

VARIABLES part,
  used_map, pool_lock, desc_lock, free_list, arena, held, op,
  heap,
  pages, space, live, copy_failed,
  cmd_line, result,
  list, seq, table, members, n, results, mem, call, spec, printed,
  cmos, shown, rtc, time,
  sys_pc, sys_call, arg, copy, sys_free, lost, children,
  cx, cy, fb, hw, paper, px, py, count,
  txq, inq, ier, rbr, thre, holder, depth, back, con_pc, flag, blocked, left, budget, unsent,
  unread, wrong, overtaken, stale, forgotten,
  kind, phase, sides, rd, wr, made, read, sunk, peer

malloc == <<used_map, pool_lock, desc_lock, free_list, arena, held, op>>
memory == <<pages, space, live, copy_failed>>
args == <<cmd_line, result>>
lists == <<list, seq>>
hash == <<table, members>>
division == <<n, results>>
stdlib == <<mem, call>>
format == <<spec, printed>>
rtclock == <<cmos, shown, rtc, time>>
syscall == <<sys_pc, sys_call, arg, copy, sys_free, lost, children>>
vga == <<cx, cy, fb, hw, paper, px, py, count>>
console == <<txq, inq, ier, rbr, thre, holder, depth, back, con_pc, flag, blocked, left, budget,
             unsent, unread, wrong, overtaken, stale, forgotten>>
relay == <<kind, phase, sides, rd, wr, made, read, sunk, peer>>
all == <<part, vars, pipe_vars, q_vars, malloc, heap, memory, args, lists, hash, division, stdlib, format,
         rtclock, syscall, vga, console, relay>>

Three == 1 .. 3
MCNice == [t \in Three |-> IF t = 3 THEN 5 ELSE 0]
\* prio_to_weight
MCWeight ==
  LET w == <<88761, 71755, 56483, 46273, 36291, 29154, 23254, 18705, 14949, 11916,
             9548, 7620, 6100, 4904, 3906, 3121, 2501, 1991, 1586, 1277,
             1024, 820, 655, 526, 423, 335, 272, 215, 172, 137,
             110, 87, 70, 56, 45, 36, 29, 23, 18, 15>>
  IN [i \in 0 .. 39 |-> w[i + 1]]

\* A text that a 0 cuts short.
Texts == {<<1, 0, 2>>}
Malloc == INSTANCE KernelHeap
            WITH Threads <- {"t1", "t2"}, Nobody <- None, NumPages <- 3, PGSIZE <- 8,
                 ArenaSize <- 3, MinBlock <- 2, Requests <- {1, 3, 6}
Heap == INSTANCE UserHeap
          WITH MIN_BLOCK_SIZE_WORDS <- 4, CHUNKSIZE <- 12, SearchLimit <- 1, HeapLimit <- 28,
               Requests <- {1, 20, 40}, h <- heap
Seg(first, last, short) == [first |-> first, last |-> last, short |-> short]
Memory == INSTANCE AddressSpace
            WITH Procs <- {"p", "q"}, KernelPages <- 101 .. 106, UserPages <- 1 .. 5,
                 DirSize <- 2, TableSize <- 3, PGSIZE <- 2, Increments <- {1, 2, 3},
                 Programs <- {<<Seg(1, 1, FALSE)>>, <<Seg(0, 0, FALSE), Seg(1, 2, FALSE)>>,
                              <<Seg(1, 1, FALSE), Seg(2, 3, TRUE)>>},
                 m <- pages
Args == INSTANCE ProgramArgs WITH PGSIZE <- 32, MaxLine <- 8
\* Elements 2 and 3 are equal, and 4 shares their bucket in tables of two.
Lists == INSTANCE Containers
           WITH Elems <- 1 .. 5, key <- <<1, 2, 2, 3, 4>>, hash <- <<5, 1, 1, 7, 2>>,
                MinBuckets <- 1, BEST_ELEMS_PER_BUCKET <- 1, l <- list
FlagSets ==
  {f \in SUBSET {"MINUS", "PLUS", "SPACE", "POUND", "ZERO", "GROUP"} : Cardinality(f) <= 2}
Conversion(types, convs) ==
  [flags : FlagSets, width : {0, 7, -7}, precision : {-1, 0, 12}, type : types, conv : convs]
StdLib == INSTANCE StdLib
            WITH Size <- 4, Bytes <- 0 .. 2, W <- 4, dividend <- n,
                 Bits <- [CHAR |-> 3, INT |-> 10, LONG |-> 10, INTMAX |-> 18], BufSize <- 10,
                 Conversions <- Conversion({"CHAR", "INT", "INTMAX"}, {"d", "o", "x"})
                                  \cup Conversion({"INT"}, {"u", "c", "s", "p", "f"}),
                 Words <- {0, 4, 512, 262143}, Strings <- {<<-10>>, <<>>, <<-6, -6, -6>>},
                 Room <- 16, Sizes <- {0, 1, 6}, per_line <- 4
\* The last seconds of an hour, of February in a leap year, and of a century.
Moments == {<<59, 59, 11, 14, 11, 26>>, <<58, 59, 23, 28, 2, 24>>, <<59, 59, 23, 31, 12, 99>>}
Clock == INSTANCE Clock WITH MaxTicks <- 3, clock <- cmos, rd <- rtc
Syscall == INSTANCE Syscall
             WITH Procs <- {"p", "q"}, W <- 4, PHYS_BASE <- 12, PGSIZE <- 3, Mapped <- {0, 1, 3},
                  Zeros <- {4, 11}, Pointers <- {2, 5, 9, 15}, Stacks <- {0, 8, 15},
                  Sizes <- {0, 2, 4, 12}, Pages <- 6,
                  pc <- sys_pc, call <- sys_call, free <- sys_free
\* Input that fills its queue before two readers; two messages that fill theirs
\* beside a byte printed with interrupts off, or with another message within; a
\* message while input comes.
Supply(say, take, byte, key, off, nest, flush) ==
  [say |-> say, read |-> take, byte |-> byte, key |-> key, off |-> off, nest |-> nest, flush |-> flush]
Supplies == {Supply(0, 4, 2, 2, 0, 0, 0), Supply(2, 0, 0, 0, 1, 0, 1), Supply(2, 0, 0, 0, 0, 1, 1),
             Supply(1, 1, 2, 0, 0, 0, 0)}
Console == INSTANCE Console
             WITH Writers <- {"w1", "w2"}, Readers <- {"r1", "r2"}, INTQ_BUFSIZE <- 3, MessageSize <- 2,
                  Budgets <- Supplies, COL_CNT <- 4, ROW_CNT <- 2, TabStop <- 2, Chars <- {"a"}, MaxChars <- 6,
                  pc <- con_pc
Relay == INSTANCE Relay
           WITH Kinds <- {"pty", "unix"}, BUFSIZ <- 2, MaxBytes <- [i \in {0, 1} |-> 2 * i + 1], p <- sides, got <- sunk

Parts == {"sched", "pipe", "queue", "malloc", "heap", "memory", "args", "lists", "hash",
          "division", "stdlib", "format", "clock", "syscall", "vga", "console", "relay"}

\* The parts with many initial states have one while another part runs.  The
\* initial thread has the first tid.
MCInit ==
  /\ part \in Parts
  /\ n \in IF part = "division" THEN 0 .. 255 ELSE {0}
  /\ mem \in IF part = "stdlib" THEN [1 .. 4 -> 0 .. 2] ELSE {[i \in 1 .. 4 |-> 0]}
  /\ hw \in IF part = "vga" THEN 0 .. 7 ELSE {0}
  /\ curr = 1
  /\ budget \in IF part = "console" THEN Supplies ELSE {CHOOSE b \in Supplies : TRUE}
  /\ kind \in IF part = "relay" THEN {"pty", "unix"} ELSE {"pty"}
  /\ cmos \in IF part = "clock" THEN Moments ELSE {CHOOSE m \in Moments : TRUE}
  /\ discard_mode \in IF part = "queue" THEN BOOLEAN ELSE {FALSE}
  /\ Init /\ PipeInit /\ QueueInit /\ Malloc!Init /\ Heap!Init /\ Memory!Init /\ Args!Init
  /\ Lists!Init /\ StdLib!Init /\ StdLib!FormatInit
  /\ Clock!Init /\ Syscall!Init /\ Console!ScreenInit /\ Console!Init /\ Relay!Init

Others(p) ==
  /\ IF p = "sched" THEN TRUE ELSE UNCHANGED vars
  /\ IF p = "pipe" THEN TRUE ELSE UNCHANGED pipe_vars
  /\ IF p = "queue" THEN TRUE ELSE UNCHANGED q_vars
  /\ IF p = "malloc" THEN TRUE ELSE UNCHANGED malloc
  /\ IF p = "heap" THEN TRUE ELSE UNCHANGED heap
  /\ IF p = "memory" THEN TRUE ELSE UNCHANGED memory
  /\ IF p = "args" THEN TRUE ELSE UNCHANGED args
  /\ IF p = "lists" THEN TRUE ELSE UNCHANGED lists
  /\ IF p = "hash" THEN TRUE ELSE UNCHANGED hash
  /\ IF p = "division" THEN TRUE ELSE UNCHANGED division
  /\ IF p = "stdlib" THEN TRUE ELSE UNCHANGED stdlib
  /\ IF p = "format" THEN TRUE ELSE UNCHANGED format
  /\ IF p = "clock" THEN TRUE ELSE UNCHANGED rtclock
  /\ IF p = "syscall" THEN TRUE ELSE UNCHANGED syscall
  /\ IF p = "vga" THEN TRUE ELSE UNCHANGED vga
  /\ IF p = "console" THEN TRUE ELSE UNCHANGED console
  /\ IF p = "relay" THEN TRUE ELSE UNCHANGED relay

\* The heaps and the containers never come to an end; the other parts may.
MCNext ==
  /\ \/ part = "sched" /\ Next
     \/ part = "pipe" /\ PipeNext
     \/ part = "queue" /\ QueueNext
     \/ part = "malloc" /\ Malloc!Next
     \/ part = "heap" /\ Heap!Next
     \/ part = "memory" /\ Memory!Next
     \/ part = "args" /\ Args!Next
     \/ part = "lists" /\ Lists!ListNext
     \/ part = "hash" /\ Lists!HashNext
     \/ part = "division" /\ StdLib!Divide
     \/ part = "stdlib" /\ StdLib!Calls
     \/ part = "format" /\ StdLib!FormatNext
     \/ part = "clock" /\ Clock!Next
     \/ part = "syscall" /\ Syscall!Next
     \/ part = "vga" /\ Console!ScreenNext
     \/ part = "console" /\ Console!Next
     \/ part = "relay" /\ Relay!Next
     \/ part \notin {"malloc", "heap", "lists", "hash"} /\ UNCHANGED all
  /\ Others(part) /\ UNCHANGED part

MCSpec == MCInit /\ [][MCNext]_all
-----------------------------------------------------------------------------
\* Blocks of the kernel heap do not overlap, and no page is lost or freed twice.
KernelHeapIsSound == part = "malloc" => Malloc!BlocksAreDisjoint /\ Malloc!PagesAreReturned
\* The user heap is tiled by its blocks and grows only when it has to.
UserHeapIsSound == part = "heap" => Heap!HeapIsTiled /\ Heap!GrowsOnlyWhenFull
\* Address spaces share no page, what sbrk granted is mapped, and a program finds
\* the words of its command line in argv.
SpacesAreSound ==
  /\ part = "memory" => Memory!SpacesAreApart /\ Memory!HeapIsMapped
  /\ part = "args" => Args!ProgramSeesItsLine
\* Lists and hash tables hold what their callers put in.
ContainersKeepTheirElements ==
  /\ part = "lists" => Lists!LinksMatchSequence
  /\ part = "hash" => Lists!HashHoldsItsElements
\* Calls of string.c, stdlib.c and stdio.c, and of the clock, do what they say;
\* 64-bit quotients, and the remainders that fit their word, are exact.
CallsKeepTheirPromise ==
  /\ part = "division" => StdLib!DivisionIsExact
  /\ part = "stdlib" => StdLib!CallsKeepTheirPromise
  /\ part = "format" => StdLib!FormatsAsAsked /\ StdLib!DumpShowsEachByte
  /\ part = "clock" => Clock!TimeIsOfOneMoment
\* The pages of system calls are returned, and checked memory is mapped.
SyscallsAreSound == part = "syscall" => Syscall!ArgPagesAreReturned /\ Syscall!CheckedMemoryIsMapped
\* The screen shows the last rows of the text.
ScreenShowsText == part = "vga" => Console!ScreenShowsText
\* Bytes pass the serial port and the input queue in order, messages are not
\* mixed, a wake-up of an interrupt queue is lost only by readers that take
\* each other's place, and the interrupts a queue needs are on unless updates
\* of the register overtook each other.
ConsoleIsSound ==
  part = "console" =>
    /\ Console!BytesKeepTheirOrder /\ Console!MessagesAreNotMixed
    /\ Console!IntqNoLostWakeup /\ Console!RegisterFollowsQueues
\* The relays pass bytes on in order, and all of them unless a sink takes no
\* more or the socket ends.
RelayLosesNothing == part = "relay" => Relay!RelayKeepsOrder /\ Relay!AllOutputRelayed
=============================================================================
