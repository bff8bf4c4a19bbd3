------------------------------- MODULE Shell -------------------------------
(***************************************************************************)
(* The shell (examples/shell.c, examples/parser.c): the line it reads, the *)
(* pipes it makes, the children it forks, wires, redirects and waits for.  *)
(* The kernel is what its other modules show it to be: a descriptor table  *)
(* per process filled from the lowest free number, pipes that report the   *)
(* end of file when their last writer is gone.  The programs are filters   *)
(* that copy their input to their output until the end.  Running out of    *)
(* descriptors or of memory is left out: every line fits the table.        *)
(***************************************************************************)
EXTENDS Integers, Sequences, FiniteSets, SequencesExt

CONSTANTS Lines,      \* command lines: sequences of commands, a command a sequence
                      \* of words and of "<" and ">", its first word "cd", "exit"
                      \* or a program
          LineSize,   \* sizeof command
          PipeSize, Bytes   \* capacity of a pipe; what a terminal or a file yields

VARIABLES sh,       \* the shell: phase, cursor pos, the line in command, the commands
                    \* left in the list, e (index in it), cmd_index, pipes, pids
          fds,      \* process -> descriptor -> what it is open on; 0 is the shell
          queued,   \* pipe -> bytes in it
          prog      \* child -> what it does next, bytes left, byte in hand
vars == <<sh, fds, queued, prog>>

MaxCmds == Max({Len(l) : l \in Lines})
FDs == 0 .. 2 * MaxCmds + 1
Children == 1 .. MaxCmds
Shut == <<"closed", 0>>
TTY == <<"tty", 0>>
R(i) == <<"read", i>>
Wr(i) == <<"write", i>>
NoFds == [d \in FDs |-> Shut]

LowestFree(t) == Min({d \in FDs : t[d] = Shut})
Open(t, what) == [t EXCEPT ![LowestFree(t)] = what]
dup2(t, old, new) == [t EXCEPT ![new] = t[old]]
Holds(what) == \E p \in DOMAIN fds : \E d \in FDs : fds[p][d] = what
CloseAll(t, pipes) == [d \in FDs |-> IF \E i \in DOMAIN pipes : d \in Range(pipes[i]) THEN Shut ELSE t[d]]

\* eval_redirection: the words after the first "<" and the first ">".  The string
\* pointers in and out are positions, 0 for NULL.
NULL == "null"
eval_redirection(cmd) ==
  LET At(c)  == IF c \in Range(cmd) THEN Min({i \in 1 .. Len(cmd) : cmd[i] = c}) ELSE 0
      in     == At("<")
      out    == At(">")
      words  == SelectSeq(cmd, LAMBDA w : w \notin {"<", ">"})
      Word(i) == IF i <= Len(words) THEN words[i] ELSE NULL
      first  == Word(2)
      second == Word(3)
      in1    == IF out # 0 /\ in > out THEN second ELSE NULL
  IN  [name |-> words[1],
       in   |-> IF in # 0 /\ in1 = NULL THEN first ELSE in1,
       out  |-> IF in # 0 /\ in1 = NULL /\ in < out THEN second
                ELSE IF out # 0 THEN first ELSE NULL]

Idle == [phase |-> "read", pos |-> 0, line |-> <<>>, cmds |-> <<>>, cnt |-> 0, e |-> 1, cmd_index |-> 0,
         pipes |-> <<>>, pids |-> <<>>]
Init ==
  /\ sh = Idle
  /\ fds = [p \in {0} \cup Children |-> [NoFds EXCEPT ![0] = IF p = 0 THEN TTY ELSE Shut,
                                                     ![1] = IF p = 0 THEN TTY ELSE Shut]]
  /\ queued = [i \in Children |-> 0]
  /\ prog = [c \in Children |-> [phase |-> "none", left |-> 0, hand |-> 0, cmd |-> Idle]]

\* read_line: a character, a backspace, Ctrl+U, an arrow; the cursor in the buffer.
ReadChar == sh' = [sh EXCEPT !.pos = IF @ < LineSize - 1 THEN @ + 1 ELSE @]
backspace == sh.pos > 0 /\ sh' = [sh EXCEPT !.pos = @ - 1]
CtrlU == sh' = [sh EXCEPT !.pos = 0]
move_cursor ==
  /\ sh.pos > 0 /\ sh.pos < LineSize - 1
  /\ \E d \in {-1, 1} : sh' = [sh EXCEPT !.pos = @ + d]
read_line ==
  /\ sh.phase = "read"
  /\ ReadChar \/ backspace \/ CtrlU \/ move_cursor
  /\ UNCHANGED <<fds, queued, prog>>

\* A return ends the line; the commands are parsed and a pipe made for each.
MakePipe(acc, i) ==
  LET r == LowestFree(acc.t)
      t == Open(acc.t, R(i))
      w == LowestFree(t)
  IN  [t |-> Open(t, Wr(i)), pipes |-> Append(acc.pipes, <<r, w>>)]
StartLine(line) ==
  /\ sh.phase = "read"
  /\ LET made == FoldLeft(MakePipe, [t |-> fds[0], pipes |-> <<>>], [i \in 1 .. Len(line) |-> i])
     IN  IF line = <<>> THEN sh' = Idle /\ UNCHANGED fds
         ELSE /\ sh' = [Idle EXCEPT !.phase = "loop", !.line = line, !.cmds = [i \in DOMAIN line |-> eval_redirection(line[i])], !.cnt = Len(line),
                                    !.pipes = made.pipes, !.pids = [i \in 1 .. Len(line) |-> 0]]
              /\ fds' = [fds EXCEPT ![0] = made.t]
  /\ UNCHANGED <<queued, prog>>

BuiltIns == {"cd", "exit"}

\* One turn of the loop over the commands: a built-in leaves the list or ends
\* the shell, another command is forked.
built_in_command ==
  /\ sh.phase = "loop" /\ sh.e <= Len(sh.cmds) /\ sh.cmds[sh.e].name \in BuiltIns
  /\ IF sh.cmds[sh.e].name = "exit"
     THEN sh' = [Idle EXCEPT !.phase = "exited", !.line = sh.line] /\ fds' = [fds EXCEPT ![0] = NoFds]
     ELSE sh' = [sh EXCEPT !.cmds = RemoveAt(@, sh.e)] /\ UNCHANGED fds
  /\ UNCHANGED <<queued, prog>>

ForkCommand ==
  /\ sh.phase = "loop" /\ sh.e <= Len(sh.cmds) /\ sh.cmds[sh.e].name \notin BuiltIns
  /\ LET c == sh.cmd_index + 1 IN
     /\ fds' = [fds EXCEPT ![c] = fds[0]]
     /\ prog' = [prog EXCEPT ![c] = [phase |-> "wire", left |-> Bytes, hand |-> 0, cmd |-> sh]]
     /\ sh' = [sh EXCEPT !.pids[c] = c, !.cmd_index = @ + 1, !.e = @ + 1]
  /\ UNCHANGED queued

MutantWaitsFirst ==
  /\ sh.phase = "loop" /\ sh.e > Len(sh.cmds)
  /\ \A c \in Range(sh.pids) \ {0} : prog[c].phase = "done"
  /\ fds' = [fds EXCEPT ![0] = CloseAll(@, sh.pipes)]
  /\ sh' = [sh EXCEPT !.phase = "wait", !.e = 1]
  /\ UNCHANGED <<queued, prog>>

CloseEnds ==
  /\ sh.phase = "loop" /\ sh.e > Len(sh.cmds)
  /\ fds' = [fds EXCEPT ![0] = CloseAll(@, sh.pipes)]
  /\ sh' = [sh EXCEPT !.phase = "wait", !.e = 1]
  /\ UNCHANGED <<queued, prog>>

\* wait for pids[i]; the entry of a built-in was never set and names no child.
WaitChild ==
  /\ sh.phase = "wait" /\ sh.e <= sh.cnt
  /\ IF sh.pids[sh.e] = 0 THEN TRUE ELSE prog[sh.pids[sh.e]].phase = "done"
  /\ sh' = [sh EXCEPT !.e = @ + 1]
  /\ UNCHANGED <<fds, queued, prog>>
Prompt ==
  /\ sh.phase = "wait" /\ sh.e > sh.cnt
  /\ sh' = Idle
  /\ queued' = [i \in Children |-> 0]
  /\ prog' = [c \in Children |-> [phase |-> "none", left |-> 0, hand |-> 0, cmd |-> Idle]]
  /\ UNCHANGED fds

\* The child: its ends of the pipes, its files, its program.
MutantWiresOwnPipe(c) ==
  LET s == prog[c].cmd
      i == s.cmd_index + 1
      out(t) == dup2(t, s.pipes[i][2], 1)
      in(t)  == dup2(t, s.pipes[i][1], 0)
      wired  == IF Len(s.cmds) <= 1 THEN fds[c]
                ELSE IF s.e = 1 THEN out(fds[c])
                ELSE IF s.e = Len(s.cmds) THEN in(fds[c])
                ELSE in(out(fds[c]))
  IN  /\ prog[c].phase = "wire"
      /\ fds' = [fds EXCEPT ![c] = CloseAll(wired, s.pipes)]
      /\ prog' = [prog EXCEPT ![c].phase = "redirect"]
      /\ UNCHANGED <<sh, queued>>

WireChild(c) ==
  LET s == prog[c].cmd
      i == s.cmd_index + 1
      out(t) == dup2(t, s.pipes[i][2], 1)
      in(t)  == dup2(t, s.pipes[i - 1][1], 0)
      wired  == IF Len(s.cmds) <= 1 THEN fds[c]
                ELSE IF s.e = 1 THEN out(fds[c])
                ELSE IF s.e = Len(s.cmds) THEN in(fds[c])
                ELSE in(out(fds[c]))
  IN  /\ prog[c].phase = "wire"
      /\ fds' = [fds EXCEPT ![c] = CloseAll(wired, s.pipes)]
      /\ prog' = [prog EXCEPT ![c].phase = "redirect"]
      /\ UNCHANGED <<sh, queued>>

Redirect(c) ==
  LET cmd == prog[c].cmd.cmds[prog[c].cmd.e]
      in(t)  == IF cmd.in # NULL THEN Open([t EXCEPT ![0] = Shut], <<cmd.in, 0>>) ELSE t
      out(t) == IF cmd.out # NULL THEN Open([t EXCEPT ![1] = Shut], <<cmd.out, 0>>) ELSE t
  IN  /\ prog[c].phase = "redirect"
      /\ fds' = [fds EXCEPT ![c] = out(in(@))]
      /\ prog' = [prog EXCEPT ![c].phase = "exec"]
      /\ UNCHANGED <<sh, queued>>

exec2(c) ==
  /\ prog[c].phase = "exec"
  /\ \/ prog' = [prog EXCEPT ![c].phase = "run", ![c].cmd = Idle] /\ UNCHANGED fds
     \/ /\ prog' = [prog EXCEPT ![c].phase = "done", ![c].cmd = Idle]       \* load failed
        /\ fds' = [fds EXCEPT ![c] = NoFds]
  /\ UNCHANGED <<sh, queued>>

\* The program: copies its input to its output, ends with the input or when
\* nobody reads its output any more.
Ends(c) == prog' = [prog EXCEPT ![c].phase = "done"] /\ fds' = [fds EXCEPT ![c] = NoFds]
RunRead(c) ==
  LET from == fds[c][0] IN
  /\ prog[c].phase = "run" /\ prog[c].hand = 0
  /\ IF from[1] = "read"
     THEN \/ /\ queued[from[2]] > 0
             /\ queued' = [queued EXCEPT ![from[2]] = @ - 1]
             /\ prog' = [prog EXCEPT ![c].hand = 1] /\ UNCHANGED fds
          \/ queued[from[2]] = 0 /\ ~Holds(Wr(from[2])) /\ Ends(c) /\ UNCHANGED queued
     ELSE /\ UNCHANGED queued
          /\ IF prog[c].left = 0 THEN Ends(c)
             ELSE prog' = [prog EXCEPT ![c].left = @ - 1, ![c].hand = 1] /\ UNCHANGED fds
  /\ UNCHANGED sh
RunWrite(c) ==
  LET to == fds[c][1] IN
  /\ prog[c].phase = "run" /\ prog[c].hand = 1
  /\ IF to[1] # "write" THEN prog' = [prog EXCEPT ![c].hand = 0] /\ UNCHANGED <<fds, queued>>
     ELSE IF ~Holds(R(to[2])) THEN Ends(c) /\ UNCHANGED queued
     ELSE /\ queued[to[2]] < PipeSize
          /\ queued' = [queued EXCEPT ![to[2]] = @ + 1]
          /\ prog' = [prog EXCEPT ![c].hand = 0] /\ UNCHANGED fds
  /\ UNCHANGED sh

ShellStep == built_in_command \/ ForkCommand \/ CloseEnds \/ WaitChild \/ Prompt
ChildStep(c) == WireChild(c) \/ Redirect(c) \/ exec2(c) \/ RunRead(c) \/ RunWrite(c)
Next == \/ read_line \/ (\E line \in Lines : StartLine(line)) \/ ShellStep
        \/ \E c \in Children : ChildStep(c)
Fairness == WF_vars(ShellStep) /\ \A c \in Children : WF_vars(ChildStep(c))
Spec == Init /\ [][Next]_vars /\ Fairness
-----------------------------------------------------------------------------
\* The word after the first "<" or ">" of a command, and the place in the line of
\* its c-th command that is not built in.
WordAfter(cmd, c) ==
  LET at == {i \in 1 .. Len(cmd) - 1 : cmd[i] = c} IN IF at = {} THEN NULL ELSE cmd[Min(at) + 1]
PlaceOf(line, c) ==
  CHOOSE k \in DOMAIN line :
    line[k][1] \notin BuiltIns /\ Cardinality({j \in 1 .. k : line[j][1] \notin BuiltIns}) = c

(* A running command holds its standard input and output and no other         *)
(* descriptor.  Its input is the file the line names after "<", else what the *)
(* nearest command before it that is not built in writes, else the terminal;  *)
(* its output is the file after ">", else its own pipe if anything follows it *)
(* in the line, else the terminal: whatever built-ins were removed from the   *)
(* line and however the children interleave.  The cursor of read_line stays   *)
(* in its buffer.                                                             *)
PipelineIsWired ==
  /\ sh.pos \in 0 .. LineSize - 1
  /\ \A c \in Children : prog[c].phase = "run" =>
       LET k == PlaceOf(sh.line, c)
           in == WordAfter(sh.line[k], "<")
           out == WordAfter(sh.line[k], ">")
       IN /\ \A d \in FDs \ {0, 1} : fds[c][d] = Shut
          /\ fds[c][0] = IF in # NULL THEN <<in, 0>> ELSE IF c > 1 THEN R(c - 1) ELSE TTY
          /\ fds[c][1] = IF out # NULL THEN <<out, 0>> ELSE IF k < Len(sh.line) THEN Wr(c) ELSE TTY

(* The prompt comes back after every line that does not end the shell: every  *)
(* command ends, because every reader gets the end of its input once the       *)
(* writers before it are gone, no copy of a write end surviving in the shell   *)
(* or in another command.                                                      *)
PromptReturns == sh.phase = "loop" ~> sh.phase \in {"read", "exited"}
=============================================================================
