------------------------------ MODULE Console ------------------------------
(***************************************************************************)
(* The console: interrupt queues (devices/intq.c), the input buffer        *)
(* (input.c), the serial port (serial.c), the keyboard (kbd.c) and the     *)
(* console lock (lib/kernel/console.c); and, apart from them at the end of *)
(* the module, the text display (vga.c).                                   *)
(*                                                                         *)
(* Threads print messages of several bytes under the console lock and      *)
(* read keys; CPU 0 takes the interrupts of the serial port and of the     *)
(* keyboard, one handler at a time; any other CPU may print a byte with    *)
(* interrupts off.  A section under the spinlock of a queue is one step,   *)
(* and so is a write to the interrupt enable register.  A byte that comes  *)
(* while another is unread is lost in the UART, which is not modelled.     *)
(***************************************************************************)
EXTENDS Integers, Sequences, FiniteSets

CONSTANTS Writers, Readers, None,
          INTQ_BUFSIZE,
          MessageSize,   \* bytes of a message
          Budgets        \* bounds, one for each scenario: how many of each source

Handlers == {"cpu0", "off"}   \* CPU 0's handler, a CPU with interrupts off
Actors == Writers \cup Readers \cup Handlers

\* Messages of threads, reads of a key, bytes that arrive, keys pressed, bytes
\* printed with interrupts off, messages within another, flushes.
Sources == {"say", "read", "byte", "key", "off", "nest", "flush"}

VARIABLES txq, inq,      \* the two struct intq
          ier,           \* the interrupt enable register: xmit, recv
          rbr, thre,     \* the UART: received byte or None, holding register empty
          holder, depth, \* console_lock and console_lock_depth
          back,          \* where the holder goes on after a nested message
          pc, flag,      \* where an actor is; the answer it read before
          blocked,       \* threads asleep in wait ()
          left,          \* bytes left of a writer's message
          budget,        \* how many of each source may still come
          unsent, unread,  \* history: bytes put into txq and inq and not yet out
          wrong,         \* history: a byte came out that was not the oldest
          overtaken,     \* history: actors that read a queue, will write ier, and
                         \* saw somebody else write it in between
          stale,         \* history: ier was last written by one of them
          forgotten      \* history: threads whose place as waiter another took

register == <<ier, overtaken, stale>>
uart == <<register, rbr, thre>>
lock == <<holder, depth, back>>
sleep == <<blocked, forgotten>>
past == <<unsent, unread, wrong>>
vars == <<txq, inq, uart, lock, pc, flag, sleep, left, budget, past>>

next(pos) == (pos + 1) % INTQ_BUFSIZE
intq_empty(q) == q.head = q.tail
intq_full(q) == next(q.head) = q.tail
intq_init == [head |-> 0, tail |-> 0, buf |-> [i \in 0 .. INTQ_BUFSIZE - 1 |-> None],
              not_full |-> None, not_empty |-> None]
Contents(q) == [i \in 1 .. (q.head - q.tail) % INTQ_BUFSIZE |->
                  q.buf[(q.tail + i - 1) % INTQ_BUFSIZE]]

\* intq_getc and intq_putc when they need not wait, with the signal at their
\* end.  The slot of a byte that was taken is not read again.
Taken(q) == [q EXCEPT !.buf[q.tail] = None, !.tail = next(@), !.not_full = None]
Stored(q, byte) == [q EXCEPT !.buf[q.head] = byte, !.head = next(@), !.not_empty = None]

go(a, label) == pc' = [pc EXCEPT ![a] = label]
note(a, b) == flag' = [flag EXCEPT ![a] = b]
Spend(source) == budget[source] > 0 /\ budget' = [budget EXCEPT ![source] = @ - 1]

\* wait (): the queue remembers the last thread that came, old is the one before.
Sleep(t, old) == blocked' = blocked \cup {t} /\ forgotten' = forgotten \cup ({old} \ {t, None})
Wake(T) == blocked' = blocked \ T /\ UNCHANGED forgotten

\* An actor that has read what it will write to the register; one that will
\* write it.
Knows(a) == pc[a] \in {"ier", "notify_full", "notified", "notified_full", "transmit", "drained", "more"}
Writes(a) == Knows(a) \/ pc[a] \in {"look", "notify"}

\* outb (IER_REG) by actor a.
outb_ier(a, xmit, recv) ==
  /\ ier' = [xmit |-> xmit, recv |-> recv]
  /\ stale' = (a \in overtaken)
  /\ overtaken' = {b \in Actors \ {a} : Knows(b)}

Init ==
  /\ txq = intq_init /\ inq = intq_init
  /\ ier = [xmit |-> FALSE, recv |-> TRUE]     \* serial_init_queue
  /\ rbr = None /\ thre = TRUE
  /\ holder = None /\ depth = 0 /\ back = "idle"
  /\ pc = [a \in Actors |-> "idle"] /\ flag = [a \in Actors |-> FALSE]
  /\ blocked = {}
  /\ left = [w \in Writers |-> MessageSize]
  /\ budget \in Budgets
  /\ unsent = << >> /\ unread = << >> /\ wrong = FALSE
  /\ overtaken = {} /\ stale = FALSE /\ forgotten = {}

-----------------------------------------------------------------------------
(***************************************************************************)
(* The hardware.                                                           *)
(***************************************************************************)
Arrive ==
  /\ rbr = None /\ Spend("byte")
  /\ rbr' = <<"rx", budget["byte"]>>
  /\ UNCHANGED <<txq, inq, register, thre, lock, pc, flag, sleep, left, past>>

HoldingEmpty ==
  /\ ~thre /\ thre' = TRUE
  /\ UNCHANGED <<txq, inq, register, rbr, lock, pc, flag, sleep, left, budget, past>>

\* The oldest n bytes of txq go to the holding register.
Out(n) ==
  /\ thre /\ thre' = FALSE
  /\ wrong' = (wrong \/ SubSeq(unsent, 1, n) # SubSeq(Contents(txq), 1, n))

-----------------------------------------------------------------------------
(***************************************************************************)
(* Printing.                                                               *)
(***************************************************************************)

\* acquire_console: for the first time, or again by the thread that has it,
\* which may print a byte from a timer interrupt in the middle of its message.
acquire_console(w) ==
  /\ w \notin blocked
  /\ \/ /\ pc[w] = "idle" /\ left[w] = MessageSize
        /\ holder = None /\ holder' = w /\ Spend("say")
        /\ UNCHANGED <<depth, back>>
     \/ /\ pc[w] \in {"put", "release"} /\ depth = 0 /\ Spend("nest")
        /\ depth' = depth + 1 /\ back' = pc[w]
        /\ UNCHANGED holder
  /\ go(w, "put")
  /\ UNCHANGED <<txq, inq, uart, flag, sleep, left, past>>

release_console(w) ==
  /\ pc[w] = "release"
  /\ IF depth > 0 THEN depth' = depth - 1 /\ go(w, back) /\ UNCHANGED holder
                  ELSE holder' = None /\ go(w, "idle") /\ UNCHANGED depth
  /\ UNCHANGED <<txq, inq, uart, back, flag, sleep, left, budget, past>>

\* serial_putc of a thread: intq_putc sleeps while the queue is full.
serial_putc(w) ==
  /\ pc[w] = "put" /\ w \notin blocked
  /\ IF intq_full(txq)
     THEN /\ txq' = [txq EXCEPT !.not_full = w] /\ Sleep(w, txq.not_full)
          /\ UNCHANGED <<pc, left, unsent>>
     ELSE LET byte == <<w, IF depth > 0 THEN 0 ELSE left[w]>>
          IN /\ txq' = Stored(txq, byte)
             /\ Wake({txq.not_empty})
             /\ unsent' = Append(unsent, byte)
             /\ left' = [left EXCEPT ![w] = IF depth > 0 THEN @ ELSE @ - 1]
             /\ go(w, "look")
  /\ UNCHANGED <<inq, uart, lock, flag, budget, unread, wrong>>

MutantPollsNewest ==
  /\ pc["off"] = "idle" /\ Spend("off")
  /\ LET byte == <<"off", budget["off"]>>
     IN IF intq_full(txq)
        THEN /\ thre /\ thre' = FALSE
             /\ wrong' = (wrong \/ Head(Append(unsent, byte)) # byte)
             /\ UNCHANGED <<txq, unsent, sleep>>
        ELSE /\ txq' = Stored(txq, byte)
             /\ unsent' = Append(unsent, byte)
             /\ Wake({txq.not_empty})
             /\ UNCHANGED <<wrong, thre>>
  /\ go("off", "look")
  /\ UNCHANGED <<inq, register, rbr, lock, flag, left, unread>>

\* serial_putc with interrupts off: a byte is sent by polling to make room.
PutOff ==
  /\ pc["off"] = "idle" /\ Spend("off")
  /\ LET byte == <<"off", budget["off"]>>
     IN IF intq_full(txq)
        THEN /\ Out(1)
             /\ txq' = Stored(Taken(txq), byte)
             /\ Wake({txq.not_full, txq.not_empty})
             /\ unsent' = Append(Tail(unsent), byte)
        ELSE /\ txq' = Stored(txq, byte)
             /\ Wake({txq.not_empty})
             /\ unsent' = Append(unsent, byte)
             /\ UNCHANGED <<wrong, thre>>
  /\ go("off", "look")
  /\ UNCHANGED <<inq, register, rbr, lock, flag, left, unread>>

\* The rest of serial_putc: whether input has room, then the register.
LookInput(a) ==
  /\ pc[a] = "look"
  /\ note(a, ~intq_full(inq)) /\ go(a, "ier")
  /\ UNCHANGED <<txq, inq, uart, lock, sleep, left, budget, past>>

write_ier(a) ==
  /\ pc[a] = "ier" /\ a \in Writers \cup {"off"}
  /\ outb_ier(a, TRUE, flag[a])
  /\ note(a, FALSE)
  /\ go(a, IF a = "off" THEN "idle" ELSE IF depth = 0 /\ left[a] > 0 THEN "put" ELSE "release")
  /\ UNCHANGED <<txq, inq, rbr, thre, lock, sleep, left, budget, past>>

\* serial_flush; it keeps the queue's spinlock until all is sent.
serial_flush ==
  /\ ~intq_empty(txq) /\ pc["off"] = "idle" /\ Spend("flush")
  /\ Out(Len(Contents(txq))) /\ unsent' = << >>
  /\ txq' = [txq EXCEPT !.buf = intq_init.buf, !.tail = txq.head, !.not_full = None]
  /\ Wake({txq.not_full})
  /\ UNCHANGED <<inq, register, rbr, lock, pc, flag, left, unread>>

-----------------------------------------------------------------------------
(***************************************************************************)
(* Reading keys.                                                           *)
(***************************************************************************)
input_getc(r) ==
  /\ pc[r] = "idle" /\ r \notin blocked /\ budget["read"] > 0
  /\ IF intq_empty(inq)
     THEN /\ inq' = [inq EXCEPT !.not_empty = r] /\ Sleep(r, inq.not_empty)
          /\ UNCHANGED <<pc, budget, unread, wrong>>
     ELSE /\ inq' = Taken(inq) /\ Wake({inq.not_full}) /\ Spend("read")
          /\ unread' = Tail(unread)
          /\ wrong' = (wrong \/ inq.buf[inq.tail] # Head(unread))
          /\ go(r, "notify")
  /\ UNCHANGED <<txq, uart, lock, flag, left, unsent>>

\* serial_notify, of a reader or of the keyboard's handler: whether there is
\* output left, then the register.
serial_notify(a) ==
  /\ pc[a] \in {"notify", "notify_full"}
  /\ note(a, ~intq_empty(txq))
  /\ go(a, IF pc[a] = "notify" THEN "notified" ELSE "notified_full")
  /\ UNCHANGED <<txq, inq, uart, lock, sleep, left, budget, past>>

NotifyEnd(a) ==
  /\ pc[a] \in {"notified", "notified_full"}
  /\ outb_ier(a, flag[a], pc[a] = "notified")
  /\ go(a, "idle") /\ note(a, FALSE)
  /\ UNCHANGED <<txq, inq, rbr, thre, lock, sleep, left, budget, past>>

-----------------------------------------------------------------------------
(***************************************************************************)
(* The handlers of CPU 0.                                                  *)
(***************************************************************************)

\* keyboard_interrupt for a key that is a character; others touch no queue.
keyboard_interrupt ==
  /\ pc["cpu0"] = "idle" /\ Spend("key")
  /\ LET key == <<"key", budget["key"]>>
     IN IF intq_full(inq) THEN UNCHANGED <<inq, sleep, unread>>
        ELSE /\ inq' = Stored(inq, key) /\ Wake({inq.not_empty})
             /\ unread' = Append(unread, key)
  /\ go("cpu0", IF intq_full(inq') THEN "notify_full" ELSE "notify")
  /\ UNCHANGED <<txq, uart, lock, flag, left, unsent, wrong>>

\* serial_interrupt: receive, transmit, write the register.
SerialReceive ==
  /\ pc["cpu0"] = "idle"
  /\ (ier.recv /\ rbr # None) \/ (ier.xmit /\ thre)
  /\ IF intq_full(inq) \/ rbr = None THEN UNCHANGED <<inq, rbr, sleep, unread>>
     ELSE /\ inq' = Stored(inq, rbr) /\ Wake({inq.not_empty})
          /\ unread' = Append(unread, rbr)
          /\ rbr' = None
  /\ note("cpu0", ~intq_full(inq')) /\ go("cpu0", "transmit")
  /\ UNCHANGED <<txq, register, thre, lock, left, budget, unsent, wrong>>

SerialTransmit ==
  /\ pc["cpu0"] = "transmit"
  /\ IF intq_empty(txq) \/ ~thre THEN UNCHANGED <<txq, sleep, unsent, wrong, thre>>
     ELSE /\ Out(1) /\ unsent' = Tail(unsent)
          /\ txq' = Taken(txq) /\ Wake({txq.not_full})
  /\ go("cpu0", IF intq_empty(txq') THEN "drained" ELSE "more")
  /\ UNCHANGED <<inq, register, rbr, lock, flag, left, budget, unread>>

SerialEnd ==
  /\ pc["cpu0"] \in {"drained", "more"}
  /\ outb_ier("cpu0", pc["cpu0"] = "more", flag["cpu0"])
  /\ go("cpu0", "idle") /\ note("cpu0", FALSE)
  /\ UNCHANGED <<txq, inq, rbr, thre, lock, sleep, left, budget, past>>

Next ==
  \/ Arrive \/ HoldingEmpty \/ PutOff \/ serial_flush
  \/ \E w \in Writers : acquire_console(w) \/ release_console(w) \/ serial_putc(w)
  \/ \E a \in Actors : LookInput(a) \/ write_ier(a) \/ serial_notify(a) \/ NotifyEnd(a)
  \/ \E r \in Readers : input_getc(r)
  \/ keyboard_interrupt \/ SerialReceive \/ SerialTransmit \/ SerialEnd

Spec == Init /\ [][Next]_vars
-----------------------------------------------------------------------------
(* Whoever moves bytes, a thread, a handler, a CPU that polls because it     *)
(* may not sleep, or serial_flush: what leaves the port and what readers     *)
(* take is what was put into the queue, in order, none lost or repeated.     *)
BytesKeepTheirOrder == ~wrong /\ Contents(txq) = unsent /\ Contents(inq) = unread

(* The console lock keeps threads "from mixing their output": a thread that  *)
(* has begun a message and not ended it holds the lock, also after it has    *)
(* printed another message from within the first.                            *)
MessagesAreNotMixed ==
  /\ \A w \in Writers : pc[w] # "idle" => holder = w
  /\ holder = None => depth = 0

(* A thread asleep in wait () of an interrupt queue is the one its queue     *)
(* will wake, and there is nothing for it to do yet, because the test, the   *)
(* waiter field and thread_block are one step under the queue's spinlock.    *)
(* The field holds one thread.  Writers come one at a time, by the console   *)
(* lock, and none is ever forgotten; readers hold no lock in file_read, and  *)
(* one whose place another reader took is not woken again.                   *)
IntqNoLostWakeup ==
  /\ \A t \in blocked : \/ t \in Writers /\ txq.not_full = t /\ intq_full(txq)
                        \/ t \in Readers /\ inq.not_empty = t /\ intq_empty(inq)
                        \/ t \in forgotten
  /\ forgotten \subseteq Readers

(* Once nobody is about to write the interrupt enable register, it lets the  *)
(* port ask for bytes while txq has some, and deliver bytes while the input  *)
(* buffer has room: no byte waits with its interrupt off.  The register is   *)
(* written after the queues are unlocked, so this needs that its last writer *)
(* was not overtaken: one that reads a queue, sees somebody else's update of *)
(* the register go before its own and then writes its older answer can leave *)
(* either interrupt off, which the comment in serial_interrupt ("in the      *)
(* worst case, we may allow an additional interrupt") does not mention.      *)
RegisterFollowsQueues ==
  (~stale /\ \A a \in Actors : ~Writes(a)) =>
    (intq_empty(txq) \/ ier.xmit) /\ (intq_full(inq) \/ ier.recv)
-----------------------------------------------------------------------------
(***************************************************************************)
(* The text display (devices/vga.c): vga_putc under the transmit lock, the *)
(* cursor, scrolling and control characters.  The paper is the text as a   *)
(* terminal that never runs out of rows would show it.                     *)
(***************************************************************************)
CONSTANTS COL_CNT, ROW_CNT, TabStop,
          Chars,      \* printable characters
          MaxChars    \* bound on the characters written

VARIABLES cx, cy, fb,       \* cursor and frame buffer
          hw,               \* the position in the hardware cursor registers
          paper, px, py,    \* rows written so far and the position on them
          count
screen_vars == <<cx, cy, fb, hw, paper, px, py, count>>

Blank == "blank"
Cols == 0 .. COL_CNT - 1
Rows == 0 .. ROW_CNT - 1
clear_row == [x \in Cols |-> Blank]
find_cursor(cp) == <<cp % COL_CNT, cp \div COL_CNT>>

\* The firmware leaves its cursor anywhere on a screen taken to be blank.
ScreenInit ==
  /\ hw \in 0 .. COL_CNT * ROW_CNT - 1
  /\ cx = find_cursor(hw)[1] /\ cy = find_cursor(hw)[2]
  /\ fb = [y \in Rows |-> clear_row]
  /\ paper = [i \in 1 .. ROW_CNT |-> clear_row] /\ px = cx /\ py = cy + 1 /\ count = 0

MutantNoClear(s) ==
  IF s.cy + 1 < ROW_CNT THEN [s EXCEPT !.cx = 0, !.cy = @ + 1]
  ELSE [s EXCEPT !.cx = 0, !.fb = [y \in Rows |-> IF y = ROW_CNT - 1 THEN s.fb[y] ELSE s.fb[y + 1]]]
newline(s) ==
  IF s.cy + 1 < ROW_CNT THEN [s EXCEPT !.cx = 0, !.cy = @ + 1]
  ELSE [s EXCEPT !.cx = 0, !.fb = [y \in Rows |-> IF y = ROW_CNT - 1 THEN clear_row ELSE s.fb[y + 1]]]
cls(s) == [cx |-> 0, cy |-> 0, fb |-> [y \in Rows |-> clear_row]]
Round(x) == ((x + TabStop - 1) \div TabStop) * TabStop

vga_putc_on(s, c) ==
  CASE c = "newline"   -> newline(s)
    [] c = "formfeed"  -> cls(s)
    [] c = "backspace" -> [s EXCEPT !.cx = IF @ > 0 THEN @ - 1 ELSE @]
    [] c = "return"    -> [s EXCEPT !.cx = 0]
    [] c = "tab"       -> LET t == [s EXCEPT !.cx = Round(@ + 1)]
                          IN  IF t.cx >= COL_CNT THEN newline(t) ELSE t
    [] c = "bell"      -> s
    [] OTHER           -> LET t == [s EXCEPT !.fb[s.cy][s.cx] = c, !.cx = @ + 1]
                          IN  IF t.cx >= COL_CNT THEN newline(t) ELSE t

move_cursor(s) == s.cx + COL_CNT * s.cy

\* The same character on the paper: rows are added at the end, never dropped.
Down(t) == IF t.y = Len(t.rows) THEN [rows |-> Append(t.rows, clear_row), x |-> 0, y |-> t.y + 1]
           ELSE [t EXCEPT !.x = 0, !.y = @ + 1]
Type(t, c) ==
  CASE c = "newline"   -> Down(t)
    [] c = "formfeed"  -> [rows |-> [i \in 1 .. ROW_CNT |-> clear_row], x |-> 0, y |-> 1]
    [] c = "backspace" -> [t EXCEPT !.x = IF @ = 0 THEN 0 ELSE @ - 1]
    [] c = "return"    -> [t EXCEPT !.x = 0]
    [] c = "tab"       -> IF t.x >= COL_CNT - TabStop THEN Down(t)
                          ELSE [t EXCEPT !.x = CHOOSE x \in t.x + 1 .. COL_CNT : x % TabStop = 0
                                                        /\ \A z \in t.x + 1 .. x - 1 : z % TabStop # 0]
    [] c = "bell"      -> t
    [] OTHER           -> LET u == [t EXCEPT !.rows[t.y][t.x] = c]
                          IN  IF t.x + 1 = COL_CNT THEN Down(u) ELSE [u EXCEPT !.x = @ + 1]

Controls == {"newline", "formfeed", "backspace", "return", "tab", "bell"}
vga_putc(c) ==
  LET s == vga_putc_on([cx |-> cx, cy |-> cy, fb |-> fb], c)
      t == Type([rows |-> paper, x |-> px, y |-> py], c)
  IN  /\ count < MaxChars /\ count' = count + 1
      /\ cx' = s.cx /\ cy' = s.cy /\ fb' = s.fb /\ hw' = move_cursor(s)
      /\ paper' = t.rows /\ px' = t.x /\ py' = t.y
ScreenNext == \E c \in Chars \cup Controls : vga_putc(c)
-----------------------------------------------------------------------------
(* The screen is the last ROW_CNT rows of the paper and the cursor, the one in *)
(* the hardware too, is where the next character goes, on the screen: after    *)
(* any characters, at the right margin, at a tab stop and while scrolling.     *)
ScreenShowsText ==
  LET top == Len(paper) - ROW_CNT IN
  /\ \A y \in Rows : fb[y] = paper[top + y + 1]
  /\ cx = px /\ cy = py - top - 1 /\ cx \in Cols /\ cy \in Rows
  /\ find_cursor(hw) = <<cx, cy>>
=============================================================================
