---------------------------- MODULE ProgramArgs ----------------------------
(***************************************************************************)
(* The start of a program: the command line split by strtok_r             *)
(* (lib/string.c) and laid out on the first page of its stack by           *)
(* setup_args (userprog/process.c).  The page is the addresses             *)
(* 0 .. PGSIZE - 1, the stack starts at PGSIZE.  The kernel's own array of *)
(* token pointers is taken to be large enough.                             *)
(***************************************************************************)
EXTENDS Integers, Sequences, SequencesExt, FiniteSets, TLC

CONSTANTS PGSIZE, MaxLine

VARIABLES cmd_line, result
vars == <<cmd_line, result>>

NUL == "nul"
Space == " "
Chars == {Space, "a", "b"}

\* string[i], the terminator included.
at(s, i) == IF i > Len(s) THEN NUL ELSE s[i]

\* strtok_r from position i: the token's first and last position and where to go on.
RECURSIVE SkipDelimiters(_, _)
SkipDelimiters(s, i) == IF at(s, i) = Space THEN SkipDelimiters(s, i + 1) ELSE i
RECURSIVE SkipToken(_, _)
SkipToken(s, i) == IF at(s, i) \in {Space, NUL} THEN i ELSE SkipToken(s, i + 1)
strtok_r(s, i) ==
  LET first == SkipDelimiters(s, i)
      end   == SkipToken(s, first)
  IN  IF at(s, first) = NUL THEN [found |-> FALSE, token |-> <<>>, save_ptr |-> first]
      ELSE [found |-> TRUE, token |-> SubSeq(s, first, end - 1),
            save_ptr |-> IF at(s, end) = NUL THEN end ELSE end + 1]

RECURSIVE Tokens(_, _)
Tokens(s, i) ==
  LET t == strtok_r(s, i) IN IF t.found THEN <<t.token>> \o Tokens(s, t.save_ptr) ELSE <<>>

\* Store bytes at esp after moving it down.
Push(m, cells) ==
  LET esp == m.esp - Len(cells)
  IN  [m EXCEPT !.esp = esp,
                !.mem = [a \in esp .. m.esp - 1 |-> cells[a - esp + 1]] @@ @]
PushWord(m, w) == Push(m, <<w, "w", "w", "w">>)    \* a word, by its first byte

\* The strings from the last to the first; pointers[index] is where each went.
RECURSIVE PushStrings(_, _, _)
PushStrings(m, argv, index) ==
  IF index = 0 THEN m
  ELSE LET pushed == Push(m, Append(argv[index], NUL))
       IN  PushStrings([pushed EXCEPT !.pointers = <<pushed.esp>> \o @], argv, index - 1)

WordAlign(m) ==
  LET pad == 4 - ((PGSIZE - m.esp) % 4) IN Push(m, [i \in 1 .. pad |-> 0])

MutantChecksStringsOnly(line) ==
  LET argv == Tokens(line, 1)
      size == Len(line) + 1
  IN  IF size + (size % 4) > PGSIZE THEN [offset |-> -1, mem |-> <<>>]
      ELSE LET strings == WordAlign(PushStrings([esp |-> PGSIZE, mem |-> <<>>, pointers |-> <<>>], argv, Len(argv)))
               table   == FoldRight(LAMBDA p, m : PushWord(m, p), strings.pointers, PushWord(strings, 0))
               args    == PushWord(PushWord(table, table.esp), Len(argv))
           IN  [offset |-> PGSIZE - (args.esp - 4), mem |-> args.mem]

\* setup_args: -1 when the check says the page is too small, otherwise the
\* bytes put on it; the word of the return address is skipped, not written.
setup_args(line) ==
  LET argv == Tokens(line, 1)
      size == Len(line) + 1
  IN  IF size + (size % 4) + (Len(argv) + 1) * 4 + 4 * 3 > PGSIZE THEN [offset |-> -1, mem |-> <<>>]
      ELSE LET strings == WordAlign(PushStrings([esp |-> PGSIZE, mem |-> <<>>, pointers |-> <<>>], argv, Len(argv)))
               table   == FoldRight(LAMBDA p, m : PushWord(m, p), strings.pointers, PushWord(strings, 0))
               args    == PushWord(PushWord(table, table.esp), Len(argv))
           IN  [offset |-> PGSIZE - (args.esp - 4), mem |-> args.mem]

Init == cmd_line = <<>> /\ result = [offset |-> 0, mem |-> <<>>]
Type(c) == /\ Len(cmd_line) < MaxLine /\ result.offset = 0
           /\ cmd_line' = Append(cmd_line, c) /\ UNCHANGED result
Start   == result.offset = 0 /\ result' = setup_args(cmd_line) /\ UNCHANGED cmd_line
Next    == (\E c \in Chars : Type(c)) \/ Start
Spec    == Init /\ [][Next]_vars
-----------------------------------------------------------------------------
\* The words of a line, without strtok_r: the maximal runs of other characters.
Words(s) ==
  LET starts == {i \in DOMAIN s : s[i] # Space /\ (i = 1 \/ s[i - 1] = Space)}
      end(i) == CHOOSE j \in i .. Len(s) : /\ \A k \in i .. j : s[k] # Space
                                           /\ j = Len(s) \/ s[j + 1] = Space
  IN  [k \in 1 .. Cardinality(starts) |->
         LET i == CHOOSE x \in starts : Cardinality({y \in starts : y <= x}) = k
         IN  SubSeq(s, i, end(i))]

(* A program that starts sees its command line: from its stack pointer, argc  *)
(* and argv lead to exactly the words of the line, each terminated, argv ends *)
(* in a null pointer, and nothing was written outside the page, in spite of   *)
(* a check that counts one word of padding less than setup_args may use.      *)
ProgramSeesItsLine ==
  result.offset > 0 =>
    LET words == Words(cmd_line)
        mem   == result.mem
        esp   == PGSIZE - result.offset
        argv  == mem[esp + 8]
        str(p, w) == \A i \in 1 .. Len(w) + 1 : mem[p + i - 1] = at(w, i)
    IN  /\ esp % 4 = 0
        /\ DOMAIN mem \subseteq 0 .. PGSIZE - 1
        /\ mem[esp + 4] = Len(words)
        /\ \A i \in DOMAIN words : str(mem[argv + 4 * (i - 1)], words[i])
        /\ mem[argv + 4 * Len(words)] = 0
=============================================================================
