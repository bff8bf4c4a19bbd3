------------------------------ MODULE Archive ------------------------------
(***************************************************************************)
(* The archive on the scratch device (filesys/fsutil.c, lib/ustar.c):      *)
(* `append' copies files to it, `extract' copies its members to the file   *)
(* system, each from a static sector counter that a boot resets.           *)
(***************************************************************************)
EXTENDS Integers, Sequences, SequencesExt

CONSTANTS BLOCK_SECTOR_SIZE, Sectors,   \* bytes of a sector, sectors of the device
          Files,       \* files of the file system at first: sequences of [path, data]
          Garbage      \* values of the byte behind a heap buffer

VARIABLES disk,        \* scratch device: sector -> contents
          fs,          \* file system: sequence of [path, data]
          ex, ap,      \* the static sector of extract and of append
          pc,          \* "idle", "extract" or "panic"
          members,     \* what the archive ought to hold: [path, data, at]
          boots        \* boots left
vars == <<disk, fs, ex, ap, pc, members, boots>>

Zeros(n) == [i \in 1 .. n |-> 0]
Data(bytes) == [hdr |-> FALSE, name |-> <<>>, size |-> <<>>, chksum |-> <<>>, bytes |-> bytes]
Zero == Data(Zeros(BLOCK_SECTOR_SIZE))

\* A path is the sequence of its components; a leading empty one is the root.
MutantStripsOnce(path) == IF Len(path) > 1 /\ path[1] \in {"", ".", ".."} THEN Tail(path) ELSE path
strip_antisocial_prefixes(path) ==
  LET Stays(i) == path[i] \notin {"", ".", ".."} \/ i = Len(path)
      first == CHOOSE i \in 1 .. Len(path) : Stays(i) /\ \A j \in 1 .. i - 1 : ~Stays(j)
      rest  == SubSeq(path, first, Len(path))
  IN  IF rest \in {<<"">>, <<"..">>} THEN <<".">> ELSE rest

\* Octal fields of three digits, as snprintf writes and parse_octal_field reads.
Octal(n) == <<(n \div 64) % 8, (n \div 8) % 8, n % 8>>
parse_octal_field(s) == FoldLeft(LAMBDA v, d : d + v * 8, 0, s)
calculate_chksum(h) == FoldLeft(LAMBDA v, d : v + d, Len(h.name), h.size)

ustar_make_header(path, size) ==
  LET h == [hdr |-> TRUE, name |-> strip_antisocial_prefixes(path), size |-> Octal(size),
            chksum |-> <<>>, bytes |-> <<>>]
  IN  [h EXCEPT !.chksum = Octal(calculate_chksum(h))]
is_all_zeros(s) == ~s.hdr /\ \A i \in DOMAIN s.bytes : s.bytes[i] = 0
\* The member a header announces; type "eof" at the end, "error" for no header.
ustar_parse_header(s) ==
  IF is_all_zeros(s) THEN [type |-> "eof", path |-> <<>>, size |-> 0]
  ELSE IF ~s.hdr \/ parse_octal_field(s.chksum) # calculate_chksum(s)
  THEN [type |-> "error", path |-> <<>>, size |-> 0]
  ELSE [type |-> "regular", path |-> strip_antisocial_prefixes(s.name),
        size |-> parse_octal_field(s.size)]

Chunks(n) == (n + BLOCK_SECTOR_SIZE - 1) \div BLOCK_SECTOR_SIZE
Init ==
  /\ disk = [s \in 0 .. Sectors - 1 |-> Zero] /\ fs \in Files
  /\ ex = 0 /\ ap = 0 /\ pc = "idle" /\ members = <<>> /\ boots = 1

\* A reboot, with the scratch device and another file system.
Boot ==
  /\ boots > 0 /\ pc # "extract" /\ boots' = boots - 1
  /\ fs' = <<>> /\ ex' = 0 /\ ap' = 0 /\ pc' = "idle"
  /\ UNCHANGED <<disk, members>>

\* The k-th data sector of file f: the rest of the last one is zeroed.
DataSector(f, k) ==
  [i \in 1 .. BLOCK_SECTOR_SIZE |->
     LET at == (k - 1) * BLOCK_SECTOR_SIZE + i IN IF at <= Len(f.data) THEN f.data[at] ELSE 0]

\* The marker is written twice to the same sector; the second time from one byte
\* further on, so that the last byte is the one behind the buffer.
EndMarker(d, s) ==
  {[d EXCEPT ![s] = Data(Append(Zeros(BLOCK_SECTOR_SIZE - 1), g))] : g \in Garbage}

\* What does not fit is a panic, at a data sector or at the marker: the header
\* and the data before it are on the device by then.
fsutil_append(i) ==
  LET f == fs[i]
      n == Chunks(Len(f.data))
      written == [s \in DOMAIN disk |->
                    IF s = ap THEN ustar_make_header(f.path, Len(f.data))
                    ELSE IF s \in ap + 1 .. ap + n THEN Data(DataSector(f, s - ap))
                    ELSE disk[s]]
  IN  /\ pc = "idle"
      /\ IF ap + 1 + n >= Sectors THEN pc' = "panic" /\ disk' = written /\ UNCHANGED ap
         ELSE /\ disk' \in EndMarker(written, ap + 1 + n)
              /\ ap' = ap + 1 + n /\ UNCHANGED pc
      /\ members' = Append(SelectSeq(members, LAMBDA m : m.at < ap),
                           [path |-> strip_antisocial_prefixes(f.path),
                            data |-> f.data, at |-> ap])
      /\ UNCHANGED <<fs, ex, boots>>

\* One member: its header, its sectors, a new file; a read past the end of the
\* device is a panic.  At the marker the start of the archive is erased.  As its comment asks, an extraction precedes the
\* appends of its boot.
fsutil_extract ==
  LET h == IF ex < Sectors THEN ustar_parse_header(disk[ex])
           ELSE [type |-> "error", path |-> <<>>, size |-> 0]
      n == Chunks(h.size)
      bytes == [j \in 1 .. h.size |->
                  disk[ex + 1 + (j - 1) \div BLOCK_SECTOR_SIZE].bytes[1 + ((j - 1) % BLOCK_SECTOR_SIZE)]]
  IN  /\ pc = "extract" \/ (pc = "idle" /\ ex = 0 /\ ap = 0)
      /\ IF h.type = "eof"
         THEN /\ disk' = [disk EXCEPT ![0] = Zero, ![1] = Zero]
              /\ pc' = "idle" /\ ex' = ex + 1 /\ members' = <<>>
              /\ UNCHANGED fs
         ELSE IF h.type = "error" \/ ex + n >= Sectors \/ \E i \in DOMAIN fs : fs[i].path = h.path
         THEN pc' = "panic" /\ UNCHANGED <<disk, fs, ex, members>>
         ELSE /\ fs' = Append(fs, [path |-> h.path, data |-> bytes])
              /\ ex' = ex + 1 + n /\ pc' = "extract"
              /\ UNCHANGED <<disk, members>>
      /\ UNCHANGED <<ap, boots>>

Next == Boot \/ (\E i \in DOMAIN fs : fsutil_append(i)) \/ fsutil_extract
Spec == Init /\ [][Next]_vars
-----------------------------------------------------------------------------
(* Every file appended since the archive was started is read back from it: its *)
(* header parses, with a name that starts with no "/" or "..", and the sectors *)
(* behind it hold its bytes, as far as the device reached for the last one;    *)
(* and while an extraction runs in a fresh file system, what it has created    *)
(* are the first members, byte for byte.                                       *)
ArchiveHoldsItsFiles ==
  /\ \A k \in DOMAIN members :
       LET m == members[k]
           h == ustar_parse_header(disk[m.at])
       IN  /\ h.type = "regular" /\ h.path = m.path /\ h.size = Len(m.data)
           /\ m.path[1] \notin {"", ".."}
           /\ \A s \in {c \in 1 .. Chunks(h.size) : m.at + c < Sectors} : disk[m.at + s].bytes = DataSector(m, s)
           /\ m.at = IF k = 1 THEN 0 ELSE members[k - 1].at + 1 + Chunks(Len(members[k - 1].data))
  /\ pc = "extract" /\ boots = 0 /\ ap = 0 =>
       \A i \in DOMAIN fs : fs[i] = [path |-> members[i].path, data |-> members[i].data]
=============================================================================
