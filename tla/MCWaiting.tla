----------------------------- MODULE MCWaiting -----------------------------
(***************************************************************************)
(* Small instances, for TLC, of the parts in which threads, processes and  *)
(* processors wait for each other.  A behaviour is one of one part, chosen *)
(* at the start: the block lock or the processors of the machine (this    *)
(* module's own variables), a pipe, a family of processes, or the shell    *)
(* with its children.                                                      *)
(***************************************************************************)
EXTENDS RWLock, Smp

CONSTANTS t1, t2, t3, t4

Four == {t1, t2, t3, t4}
One == {t4}

VARIABLES part,
  ring, items_avail, slots_avail, read_end, write_end, ref_count, freed, p_pc, seen, buf, size, got, eof,
  bond, children, b_pc, target, reap,
  sh, fds, queued, prog

pipe == <<ring, items_avail, slots_avail, read_end, write_end, ref_count, freed, p_pc, seen, buf,
          size, got, eof>>
family == <<bond, children, b_pc, target, reap>>
shell == <<sh, fds, queued, prog>>
all == <<part, vars, pipe, family, shell, smp_vars>>

\* Two readers, so that one is asleep behind the other when the writer closes.
Pipe == INSTANCE Pipe
          WITH Readers <- {"r1", "r2"}, Writers <- {"w1"}, Messages <- {<<1, 2>>},
               Capacity <- 1, MaxRead <- 1, pc <- p_pc
Family == INSTANCE ProcessBond
            WITH Procs <- {"main", "a", "b"}, Main <- "main", MaxLoad <- 2, PageFails <- {"b"},
                 pc <- b_pc
X == <<"program">>
Lines == {<<>>, <<X, <<"cd">>, X>>, <<X, X, X>>, <<<<"cd">>, X, X>>, <<X, X, <<"cd">>>>, <<X, <<"exit">>>>,
          <<<<"program", "<", "input">>, <<"program", ">", "output">>>>,
          <<<<"program", "<", "input", ">", "output">>>>, <<X, <<"program", "<", "input">>>>,
          <<<<"program", ">", "output", "<", "input">>>>}
Shell == INSTANCE Shell WITH LineSize <- 3, PipeSize <- 1, Bytes <- 2

MCInit ==
  /\ part \in {"lock", "pipe", "family", "shell", "machine"}
  /\ Init /\ Pipe!PipeInit /\ Family!BondInit /\ Shell!Init /\ SmpInit

\* One part moves, the others stay as they were.  The users of the lock never all
\* stop; the other parts may be done.
MCNext ==
  /\ \/ part = "lock" /\ Next /\ UNCHANGED <<pipe, family, shell, smp_vars>>
     \/ part = "pipe" /\ Pipe!PipeNext /\ UNCHANGED <<vars, family, shell, smp_vars>>
     \/ part = "family" /\ Family!BondNext /\ UNCHANGED <<vars, pipe, shell, smp_vars>>
     \/ part = "shell" /\ Shell!Next /\ UNCHANGED <<vars, pipe, family, smp_vars>>
     \/ part = "machine" /\ SmpNext /\ UNCHANGED <<vars, pipe, family, shell>>
     \/ part # "lock" /\ UNCHANGED all
  /\ UNCHANGED part

\* The fairness each part assumes.
MCFairness ==
  /\ Fairness /\ Pipe!PipeFairness /\ Shell!Fairness /\ SmpFairness
  /\ \A p \in {"main", "a", "b"} : WF_family(part = "family" /\ Family!Kernel(p))

MCSpec == MCInit /\ [][MCNext]_all /\ MCFairness
-----------------------------------------------------------------------------
\* The two closers of a pipe free it once.
ReleasedOnce == Pipe!ReleasedOnce
\* Processes asleep in a pipe notice that its other end was closed.
SleepersNoticeClose == Pipe!SleepersNoticeClose
\* process_execute and process_fork come back to their caller, and process_wait
\* once the child exits.
FamilyCallsReturn == Family!CreateReturns /\ Family!WaitReturns
\* The commands of a line are connected by its pipes and hold nothing else of them.
PipelineIsWired == Shell!PipelineIsWired
\* After every line but exit the shell prompts again.
PromptReturns == Shell!PromptReturns
=============================================================================
