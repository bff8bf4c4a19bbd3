------------------------------- MODULE Relay -------------------------------
(***************************************************************************)
(* The relays of utils/squish-pty.c and utils/squish-unix.c: two byte      *)
(* pipes, stdin to the peer and the peer to stdout, driven by one select   *)
(* loop until the peer's process is dead, and a last loop that drains it.  *)
(* The peer is the pseudoterminal or the socket of the emulator; the bytes *)
(* of each direction are numbered in the order they were produced.  Pipe 0 *)
(* writes to the peer and pipe 1 reads from it; the other ends are stdin   *)
(* and stdout.                                                             *)
(***************************************************************************)
EXTENDS Integers, Sequences, SequencesExt

CONSTANTS Kinds,     \* relays run: "pty", "unix"
          BUFSIZ,    \* size of a pipe's buffer
          MaxBytes   \* source -> bytes it produces

VARIABLES kind, phase,  \* which relay, and where it is: at the end "done", "cut" (it
                        \* returned because the socket took nothing) or "failed"
          p,            \* pipes[0 .. 1]: in, out open; buf, size, ofs, active
          rd, wr,       \* the sets select returned
          made,         \* source -> bytes produced so far
          read,         \* source -> bytes the relay has read
          got,          \* sink -> the bytes written to it
          peer          \* the peer: "open", "closed" its end, or "dead"
vars == <<kind, phase, p, rd, wr, made, read, got, peer>>

Pipes == {0, 1}
NewPipe == [in |-> TRUE, out |-> TRUE, buf |-> [j \in 0 .. BUFSIZ - 1 |-> 0],
            size |-> 0, ofs |-> 0, active |-> FALSE]
Init ==
  /\ kind \in Kinds /\ phase = "select" /\ peer = "open"
  /\ p = [i \in Pipes |-> NewPipe]
  /\ rd = {} /\ wr = {}
  /\ made = [i \in Pipes |-> 0] /\ read = made /\ got = [i \in Pipes |-> <<>>]

\* The user types; the peer prints, closes its end, dies.
Produce(i) ==
  /\ made[i] < MaxBytes[i] /\ (i = 1 => peer = "open")
  /\ made' = [made EXCEPT ![i] = @ + 1]
  /\ UNCHANGED <<kind, phase, p, rd, wr, read, got, peer>>
Stop ==
  /\ peer' \in [open |-> {"closed", "dead"}, closed |-> {"dead"}, dead |-> {}][peer]
  /\ UNCHANGED <<kind, phase, p, rd, wr, made, read, got>>

\* The source has bytes, or its end can be read: the user's file ends after
\* its MaxBytes, the peer's side closes when it dies.
AtEnd(i) == made[i] = read[i] /\ IF i = 0 THEN made[0] = MaxBytes[0] ELSE peer # "open"
Readable(i) == made[i] > read[i] \/ AtEnd(i)

Looping == IF kind = "pty" THEN p[1].in
           ELSE p[0].in \/ p[1].in \/ (p[1].size > 0 /\ p[1].out)
WantsRead(i) == (i = 0 => p[1].active) /\ p[i].in /\ p[i].size + p[i].ofs < BUFSIZ
WantsWrite(i) == (i = 0 => p[1].active) /\ p[i].out /\ p[i].size > 0

\* One select.  A dead child ends the loop: squish-pty looks at its descriptor
\* first, squish-unix learns of it when select is interrupted.
Select ==
  /\ phase = "select" /\ Looping
  /\ \/ peer = "dead" /\ phase' = "final" /\ UNCHANGED <<rd, wr>>
     \/ /\ peer # "dead" \/ kind = "unix"
        /\ rd' = {i \in Pipes : WantsRead(i) /\ Readable(i)}
        /\ wr' \in SUBSET {i \in Pipes : WantsWrite(i)}
        /\ rd' \cup wr' # {}
        /\ phase' = "pipe0"
  /\ UNCHANGED <<kind, p, made, read, got, peer>>
Leave ==
  /\ phase = "select" /\ ~Looping
  /\ phase' = IF kind = "pty" THEN "final" ELSE "done"
  /\ UNCHANGED <<kind, p, rd, wr, made, read, got, peer>>

\* handle_error of each relay when a read found the end of pipe i: the
\* descriptor after it and whether the relay goes on.  A pseudoterminal
\* reports the end as the error EIO.
handle_error_pty(i) == [in |-> FALSE, on |-> TRUE]
handle_error_unix(i) == [in |-> i = 1, on |-> i = 0]
handle_error(i) == IF kind = "pty" THEN handle_error_pty(i) ELSE handle_error_unix(i)

\* handle_error when a write returned 0, which closes stdout and leaves the
\* peer's descriptor as it is, or EIO from a pseudoterminal nobody has open.
Unwritten(q, i) ==
  {[q EXCEPT !.out = (i = 0)]}
    \cup (IF kind = "pty" /\ i = 0 /\ peer # "open" THEN {[q EXCEPT !.out = FALSE]} ELSE {})

Fill(q, at, from, n) == [j \in DOMAIN q.buf |-> IF j \in at .. at + n - 1 THEN from + 1 + j - at
                                                ELSE q.buf[j]]
Taken(q, n) == [k \in 1 .. n |-> q.buf[q.ofs + k - 1]]

ReadPipe(q, from, n) ==
  LET r == [q EXCEPT !.buf = Fill(q, q.ofs + q.size, from, n), !.size = @ + n, !.active = TRUE]
  IN  IF r.size = BUFSIZ /\ r.ofs # 0
      THEN [r EXCEPT !.buf = [j \in DOMAIN r.buf |-> IF j < r.size THEN r.buf[j + r.ofs]
                                                     ELSE r.buf[j]], !.ofs = 0]
      ELSE r
MutantWritePipe(q, n) == [q EXCEPT !.ofs = IF q.size = n THEN 0 ELSE @, !.size = @ - n]
WritePipe(q, n) == [q EXCEPT !.ofs = IF q.size = n THEN 0 ELSE @ + n, !.size = @ - n]

\* The turn of pipe i in the loop over the ready descriptors: a read of 1 to all
\* the bytes that fit, then a write of 1 to all the bytes in the buffer, or of
\* none.  squish-unix returns at the end of its socket, or when that takes none.
Turn(i) ==
  LET eof  == i \in rd /\ AtEnd(i)
      h    == handle_error(i)
      room == BUFSIZ - p[i].ofs - p[i].size
      next == IF i = 0 THEN "pipe1" ELSE "select"
  IN  /\ phase = IF i = 0 THEN "pipe0" ELSE "pipe1"
      /\ \E n \in IF i \in rd /\ ~eof THEN 1 .. room ELSE {0} :
           /\ n <= made[i] - read[i]
           /\ read' = [read EXCEPT ![i] = @ + n]
           /\ LET q == IF eof THEN [p[i] EXCEPT !.in = h.in]
                       ELSE IF n > 0 THEN ReadPipe(p[i], read[i], n) ELSE p[i]
              IN  \/ /\ i \notin wr \/ (eof /\ ~h.on)
                     /\ p' = [p EXCEPT ![i] = q]
                     /\ phase' = IF eof /\ ~h.on THEN "done" ELSE next
                     /\ UNCHANGED got
                  \/ /\ i \in wr /\ ~(eof /\ ~h.on)
                     /\ \E w \in 1 .. q.size :
                          /\ p' = [p EXCEPT ![i] = WritePipe(q, w)]
                          /\ got' = [got EXCEPT ![i] = @ \o Taken(q, w)]
                     /\ phase' = next
                  \/ /\ i \in wr /\ ~(eof /\ ~h.on)
                     /\ \E u \in Unwritten(q, i) : p' = [p EXCEPT ![i] = u]
                     /\ phase' = IF kind = "unix" /\ i = 0 THEN "cut" ELSE next
                     /\ UNCHANGED got
      /\ UNCHANGED <<kind, rd, wr, made, peer>>

\* fail_io: any other error of a read or a write ends the program.
fail_io ==
  /\ \/ phase = "pipe0" /\ 0 \in rd \cup wr
     \/ phase = "pipe1" /\ 1 \in rd \cup wr
     \/ phase = "final" /\ p[1].out /\ p[1].size > 0
  /\ phase' = "failed"
  /\ UNCHANGED <<kind, p, rd, wr, made, read, got, peer>>

\* The last loop: write the buffer out, read again, until nothing more comes.
FinalRelay ==
  /\ phase = "final"
  /\ IF ~p[1].out THEN phase' = "done" /\ UNCHANGED <<p, read, got>>
     ELSE IF p[1].size > 0
     THEN \E w \in 1 .. p[1].size :
            /\ got' = [got EXCEPT ![1] = @ \o Taken(p[1], w)]
            /\ p' = [p EXCEPT ![1].ofs = @ + w, ![1].size = @ - w]
            /\ UNCHANGED <<phase, read>>
     ELSE IF made[1] = read[1] THEN phase' = "done" /\ UNCHANGED <<p, read, got>>
     ELSE \E n \in 1 .. BUFSIZ :
            /\ n <= made[1] - read[1]
            /\ p' = [p EXCEPT ![1] = [@ EXCEPT !.buf = Fill(p[1], 0, read[1], n), !.ofs = 0, !.size = n]]
            /\ read' = [read EXCEPT ![1] = @ + n]
            /\ UNCHANGED <<phase, got>>
  /\ UNCHANGED <<kind, rd, wr, made, peer>>

RelayStep == Select \/ Leave \/ (\E i \in Pipes : Turn(i)) \/ fail_io \/ FinalRelay
Next == (\E i \in Pipes : Produce(i)) \/ Stop \/ RelayStep
Spec == Init /\ [][Next]_vars
-----------------------------------------------------------------------------
(* Every byte reaches its sink once and in the order it was produced: what was *)
(* written and what waits in the buffer are the bytes read so far, and the     *)
(* buffer is never overrun, however select, short reads and short writes       *)
(* interleave.                                                                 *)
RelayKeepsOrder ==
  \A i \in Pipes :
    /\ p[i].ofs + p[i].size <= BUFSIZ
    /\ got[i] \o [k \in 1 .. p[i].size |-> p[i].buf[p[i].ofs + k - 1]] = [k \in 1 .. read[i] |-> k]

(* "Copies data from stdin to PTY and from PTY to stdout until no more data   *)
(* can be read or written": a relay that returned, not because stdout or the  *)
(* socket took nothing, has read everything its peer printed, and squish-pty  *)
(* has written all of it, also after the child's death.  squish-unix returns  *)
(* at the end of its socket with what is still in its buffer.                 *)
AllOutputRelayed ==
  phase = "done" /\ p[1].out =>
    read[1] = made[1] /\ (kind = "pty" => Len(got[1]) = made[1])
=============================================================================
