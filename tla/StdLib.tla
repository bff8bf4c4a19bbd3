------------------------------- MODULE StdLib -------------------------------
(***************************************************************************)
(* lib/stdlib.c (the heap sort, the binary search) and the functions of    *)
(* lib/string.c that write memory or measure strings.  One small memory    *)
(* holds both an array to sort and search and, 0 being the null byte,      *)
(* strings; every call works on it in place.                               *)
(*                                                                         *)
(* lib/arithmetic.c: division of two-word integers by the one-word divl    *)
(* instruction.  A word has W bits (32 in the code, a power of two);       *)
(* every C expression keeps the width of its type.                         *)
(*                                                                         *)
(* lib/stdio.c: what vsnprintf makes of a conversion, and the hex dump.    *)
(* A format is a literal character, one conversion and a percent sign.     *)
(* Characters are numbers: a digit is its value, the others are negative.  *)
(* The types are narrower than in the code, in the same order.             *)
(***************************************************************************)
EXTENDS Integers, Sequences, SequencesExt, FiniteSets

CONSTANTS Size, Bytes,    \* the memory is Size bytes long; 0 \in Bytes
          W,
          Bits,           \* the width of each argument type
          BufSize,        \* sizeof buf in format_integer
          Conversions,    \* records flags, width, precision, type, conv
          Words,          \* argument words
          Strings,        \* string arguments, NULL among them
          Room, Sizes,    \* size of the memory, and of the buffers at its start
          per_line

VARIABLES mem, call,      \* the memory; the last call, with the memory before it
          dividend,
          results,        \* divisor -> what the four functions return, or <<>>
          spec, printed   \* the conversion asked for; what each argument gave
-----------------------------------------------------------------------------
MinusSign == -1
PlusSign == -2
Space == -3
Ex == -4
Comma == -5
Letter == -6
Percent == -7
Refusal == -8            \* the text of "<<no %f in kernel>>"
Untouched == -9
NUL == -10
NULL == <<NUL>>          \* the null pointer, and "(null)" when printed
Repeat(ch, n) == IF n <= 0 THEN <<>> ELSE [i \in 1 .. n |-> ch]
Most(x, y) == IF x > y THEN x ELSE y
Least(x, y) == IF x < y THEN x ELSE y
-----------------------------------------------------------------------------
\* The flags and the sign of a `*' width as the conversion uses them: a
\* precision of -1 stands for none, and a negative `*' width asks for MINUS
\* after MINUS has overridden ZERO.
parse_conversion(k) ==
  LET f1 == IF "MINUS" \in k.flags THEN k.flags \ {"ZERO"} ELSE k.flags
      f2 == IF "PLUS" \in k.flags THEN f1 \ {"SPACE"} ELSE f1
      f3 == IF k.width < 0 THEN f2 \cup {"MINUS"} ELSE f2
  IN  [k EXCEPT !.flags = IF k.precision >= 0 THEN f3 \ {"ZERO"} ELSE f3,
                !.width = IF @ < 0 THEN -@ ELSE @,
                !.precision = IF @ < 0 THEN -1 ELSE @]

UnsignedArg(type, word) == word % 2 ^ Bits[type]
SignedArg(type, word) ==
  LET u == UnsignedArg(type, word)
  IN  IF u >= 2 ^ (Bits[type] - 1) THEN u - 2 ^ Bits[type] ELSE u

base(conv) == CASE conv = "o" -> [base |-> 8, x |-> FALSE, group |-> 3]
                [] conv \in {"x", "p"} -> [base |-> 16, x |-> TRUE, group |-> 4]
                [] OTHER -> [base |-> 10, x |-> FALSE, group |-> 3]

\* The digits from the last to the first, as the buffer holds them.
RECURSIVE Digits(_, _, _, _)
Digits(value, b, k, cnt) ==
  IF value = 0 THEN <<>>
  ELSE (IF "GROUP" \in k.flags /\ cnt > 0 /\ cnt % b.group = 0 THEN <<Comma>> ELSE <<>>)
         \o <<value % b.base>> \o Digits(value \div b.base, b, k, cnt + 1)

format_integer(value, is_signed, negative, b, k) ==
  LET sign == IF ~is_signed THEN <<>>
              ELSE IF negative THEN <<MinusSign>>
              ELSE IF "PLUS" \in k.flags THEN <<PlusSign>>
              ELSE IF "SPACE" \in k.flags THEN <<Space>> ELSE <<>>
      x == IF "POUND" \in k.flags /\ value # 0 /\ b.x THEN <<0, Ex>> ELSE <<>>
      digits == Digits(value, b, k, 0)
      precision == IF k.precision < 0 THEN 1 ELSE k.precision
      filled == digits \o Repeat(0, Least(precision, BufSize - 1) - Len(digits))
      octal == "POUND" \in k.flags /\ b.base = 8 /\ (filled = <<>> \/ Last(filled) # 0)
      buf == IF octal THEN Append(filled, 0) ELSE filled
      pad_cnt == k.width - Len(buf) - Len(x) - Len(sign)
      pad(ch, wanted) == IF wanted THEN Repeat(ch, pad_cnt) ELSE <<>>
  IN  pad(Space, k.flags \cap {"MINUS", "ZERO"} = {}) \o sign \o x
        \o pad(0, "ZERO" \in k.flags) \o Reverse(buf) \o pad(Space, "MINUS" \in k.flags)

format_string(string, k) ==
  LET pad == Repeat(Space, k.width - Len(string))
  IN  IF "MINUS" \in k.flags THEN string \o pad ELSE pad \o string

\* -value for a negative intmax_t wraps, and the parameter is an uintmax_t.
Magnitude(v) == (IF v < 0 THEN -v ELSE v) % 2 ^ Bits["INTMAX"]

strnlen(string, n) == IF n = -1 THEN Len(string) ELSE Least(Len(string), n)

\* One conversion of __vprintf; arg is a word or, for %s, a string.
Convert(k0, arg) ==
  LET k == parse_conversion(k0)
      v == SignedArg(k.type, arg)
  IN  CASE k.conv = "d" -> format_integer(Magnitude(v), TRUE, v < 0, base("d"), k)
        [] k.conv \in {"o", "u", "x"} ->
             format_integer(UnsignedArg(k.type, arg), FALSE, FALSE, base(k.conv), k)
        [] k.conv = "c" -> format_string(<<Letter>>, k)
        [] k.conv = "s" -> format_string(SubSeq(arg, 1, strnlen(arg, k.precision)), k)
        [] k.conv = "p" -> format_integer(UnsignedArg("LONG", arg), FALSE, FALSE, base("p"),
                                          [k EXCEPT !.flags = {"POUND"}])
        [] OTHER -> <<Refusal>>
vprintf(k, arg) == <<Letter>> \o Convert(k, arg) \o <<Percent>>

\* The buffer is the first buf_size cells of the memory.
vsnprintf_helper(aux, ch) ==
  [aux EXCEPT !.length = @ + 1,
              !.p = IF aux.length < aux.max_length THEN @ + 1 ELSE @,
              !.cell = IF aux.length < aux.max_length THEN [@ EXCEPT ![aux.p] = ch] ELSE @]
vsnprintf(k, arg, buf_size) ==
  LET aux == FoldLeft(vsnprintf_helper,
                      [p |-> 1, length |-> 0, max_length |-> Most(buf_size - 1, 0),
                       cell |-> Repeat(Untouched, Room)], vprintf(k, arg))
  IN  [length |-> aux.length,
       cell |-> IF buf_size > 0 THEN [aux.cell EXCEPT ![aux.p] = NUL] ELSE aux.cell]

\* hex_dump: the lines, each with its offset, its first column and its bytes.
RECURSIVE hex_dump(_, _)
hex_dump(ofs, bytes) ==
  IF bytes = <<>> THEN <<>>
  ELSE LET start == ofs % per_line
           n == Least(per_line - start, Len(bytes))
       IN  <<[ofs |-> ofs - start, start |-> start, byte |-> SubSeq(bytes, 1, n)]>>
             \o hex_dump(ofs + n, SubSeq(bytes, n + 1, Len(bytes)))
-----------------------------------------------------------------------------
Args(k) == IF k.conv = "s" THEN Strings ELSE Words
Nothing == [conv |-> "none"]
FormatInit == spec = Nothing /\ printed = <<>>
snprintf(k) ==
  /\ spec = Nothing /\ spec' = k
  /\ printed' = [a \in Args(k) |-> [size \in Sizes |-> vsnprintf(k, a, size)]]
Dump(ofs, n) ==
  /\ spec = Nothing /\ spec' = [conv |-> "dump", ofs |-> ofs, n |-> n]
  /\ printed' = hex_dump(ofs, [i \in 1 .. n |-> i])
FormatNext == (\E k \in Conversions : snprintf(k)) \/ (\E o, n \in 0 .. 2 * per_line : Dump(o, n))
-----------------------------------------------------------------------------
\* What a reader makes of a field: the number its digits spell.
Reads(text, b) == FoldLeft(LAMBDA n, ch : IF ch >= 0 THEN n * b + ch ELSE n, 0, text)

(* A buffer of any size, 0 and 1 included, receives as much of the text as   *)
(* fits, terminated, and nothing behind it, and the length returned is the   *)
(* text's.  The text spells the argument's value at the width of its type,   *)
(* the least integer included, with its sign; it has the digits asked for,   *)
(* up to the 63 that format_integer has room for; and it is exactly as wide  *)
(* as its field unless it needs more.  A `0' flag with a negative `*' width  *)
(* is left out: such a field is padded on both sides.                        *)
FormatsAsAsked ==
  spec.conv \notin {"none", "dump"} => \A a \in Args(spec) :
    LET text  == vprintf(spec, a)
        field == Convert(spec, a)
        modulus == 2 ^ Bits[IF spec.conv = "p" THEN "LONG" ELSE spec.type]
        least == IF spec.conv = "d" THEN -(modulus \div 2) ELSE 0
        minus == \E i \in DOMAIN field : field[i] = MinusSign
        value == Reads(field, base(spec.conv).base) * (IF minus THEN -1 ELSE 1)
        width == IF spec.width < 0 THEN -spec.width ELSE spec.width
        digits == Len(SelectSeq(field, LAMBDA ch : ch >= 0 \/ ch = Comma))
    IN  /\ \A size \in Sizes :
             LET r == printed[a][size]
                 kept == Least(Len(text), size - 1)
             IN  /\ r.length = Len(text)
                 /\ \A i \in 1 .. Room :
                      r.cell[i] = IF i > size THEN Untouched
                                  ELSE IF i <= kept THEN text[i]
                                  ELSE IF i = kept + 1 THEN NUL ELSE Untouched
        /\ spec.conv \in {"d", "u", "o", "x", "p"} =>
             /\ value \in least .. least + modulus - 1 /\ (a - value) % modulus = 0
             /\ minus => value < 0
             /\ digits >= Least(IF spec.precision < 0 THEN 1 ELSE spec.precision, BufSize - 1)
        /\ ~("ZERO" \in spec.flags /\ spec.width < 0) /\ spec.conv # "f" =>
             Len(field) = Most(width, Len(Convert([spec EXCEPT !.width = 0], a)))

(* A hex dump shows every byte once, in the column of its address, on lines   *)
(* that start at multiples of the line's size.                                *)
DumpShowsEachByte ==
  spec.conv = "dump" =>
    /\ UNION {{<<printed[i].ofs + printed[i].start + j - 1, printed[i].byte[j]>> :
                 j \in DOMAIN printed[i].byte} : i \in DOMAIN printed}
         = {<<spec.ofs + j - 1, j>> : j \in 1 .. spec.n}
    /\ FoldLeft(LAMBDA t, r : t + Len(r.byte), 0, printed) = spec.n
    /\ \A i \in DOMAIN printed : /\ printed[i].ofs % per_line = 0
                                /\ printed[i].start + Len(printed[i].byte) <= per_line
-----------------------------------------------------------------------------
do_swap(a, i, j) == [a EXCEPT ![i] = a[j], ![j] = a[i]]

\* heapify: float element i down a heap of cnt elements.
RECURSIVE heapify(_, _, _)
heapify(a, i, cnt) ==
  LET left  == 2 * i
      right == 2 * i + 1
      max1  == IF left <= cnt /\ a[left] > a[i] THEN left ELSE i
      max   == IF right <= cnt /\ a[right] > a[max1] THEN right ELSE max1
  IN  IF max = i THEN a ELSE heapify(do_swap(a, i, max), max, cnt)

RECURSIVE BuildHeap(_, _)
BuildHeap(a, i) == IF i = 0 THEN a ELSE BuildHeap(heapify(a, i, Len(a)), i - 1)
RECURSIVE SortHeap(_, _)
SortHeap(a, i) == IF i <= 1 THEN a ELSE SortHeap(heapify(do_swap(a, 1, i), 1, i - 1), i - 1)
sort(a) == SortHeap(BuildHeap(a, Len(a) \div 2), Len(a))

\* binary_search between first (included) and last (excluded); 0 is NULL.
RECURSIVE binary_search(_, _, _, _)
binary_search(a, key, first, last) ==
  IF first >= last THEN 0
  ELSE LET middle == first + (last - first) \div 2
       IN  IF key < a[middle] THEN binary_search(a, key, first, middle)
           ELSE IF key > a[middle] THEN binary_search(a, key, middle + 1, last)
           ELSE middle

\* The string at position p, and the functions that look at one.
RECURSIVE strlen(_, _)
strlen(a, p) == IF a[p] = 0 THEN 0 ELSE 1 + strlen(a, p + 1)
IsString(a, p) == \E i \in p .. Len(a) : a[i] = 0

\* memcpy a byte at a time upwards, as memmove does when dst < src.
RECURSIVE CopyUp(_, _, _, _)
CopyUp(a, dst, src, n) ==
  IF n = 0 THEN a ELSE CopyUp([a EXCEPT ![dst] = a[src]], dst + 1, src + 1, n - 1)
RECURSIVE CopyDown(_, _, _, _)
CopyDown(a, dst, src, n) ==
  IF n = 0 THEN a ELSE CopyDown([a EXCEPT ![dst + n - 1] = a[src + n - 1]], dst, src, n - 1)
MutantMovesUp(a, dst, src, n) == CopyUp(a, dst, src, n)
memmove(a, dst, src, n) == IF dst < src THEN CopyUp(a, dst, src, n) ELSE CopyDown(a, dst, src, n)
\* What memmove returns: the pointer it moved, back at dst only when it copied down.
MovedTo(dst, src, n) == IF dst < src THEN dst + n ELSE dst
memset(a, dst, value, n) == [i \in DOMAIN a |-> IF i \in dst .. dst + n - 1 THEN value ELSE a[i]]

strlcpy(a, dst, src, size) ==
  IF size = 0 THEN a
  ELSE LET n == Least(strlen(a, src), size - 1)
       IN  [CopyUp(a, dst, src, n) EXCEPT ![dst + n] = 0]
strlcat(a, dst, src, size) ==
  LET len == strlen(a, dst)
  IN  IF size = 0 \/ len >= size THEN a
      ELSE LET n == Least(strlen(a, src), size - len - 1)
           IN  [CopyUp(a, dst + len, src, n) EXCEPT ![dst + len + n] = 0]
-----------------------------------------------------------------------------
b == 2 ^ W               \* 1ULL << 32
Trap == -1               \* the divide error #DE
u64(x) == x % (b * b)
s64(x) == IF u64(x) >= (b * b) \div 2 THEN u64(x) - b * b ELSE u64(x)
s32(x) == IF x % b >= b \div 2 THEN (x % b) - b ELSE x % b

divl(x, d) == IF d = 0 \/ x \div d >= b THEN Trap ELSE x \div d

\* nlz: halve the width as the code does from 16 bits to 1.
RECURSIVE Stages(_)
Stages(s) == IF s = 0 THEN <<>> ELSE <<s>> \o Stages(s \div 2)
nlz(word) ==
  FoldLeft(LAMBDA a, s : IF a.x < 2 ^ (W - s) THEN [n |-> a.n + s, x |-> (a.x * 2 ^ s) % b] ELSE a,
           [n |-> 0, x |-> word], Stages(W \div 2)).n

MutantNoCorrection(x, d) ==
  IF d \div b = 0
  THEN divl(b * ((x \div b) % d) + (x % b), d) + b * ((x \div b) \div d)
  ELSE IF x < d THEN 0
  ELSE LET s == nlz(d \div b) IN divl(x \div 2, u64(d * 2 ^ s) \div b) \div 2 ^ (W - 1 - s)

udiv64(x, d) ==
  IF d \div b = 0
  THEN LET q == divl(b * ((x \div b) % d) + (x % b), d)
       IN  IF q = Trap THEN Trap ELSE u64(q + b * ((x \div b) \div d))
  ELSE IF x < d THEN 0
  ELSE LET s == nlz(d \div b)
           t == divl(x \div 2, u64(d * 2 ^ s) \div b)
           q == t \div 2 ^ (W - 1 - s)
       IN  IF t = Trap THEN Trap ELSE IF u64(x - (q - 1) * d) < d THEN u64(q - 1) ELSE q

umod64(x, d) == u64(x - d * udiv64(x, d)) % b     \* returned as a uint32_t

Abs(x) == u64(IF x >= 0 THEN x ELSE -x)
sdiv64(x, d) ==
  LET q == udiv64(Abs(x), Abs(d)) IN s64(IF (x < 0) <=> (d < 0) THEN q ELSE -q)
smod64(x, d) == s32(x - d * sdiv64(x, d))         \* returned as an int32_t
-----------------------------------------------------------------------------
NoCall == [op |-> "none", dst |-> 1, src |-> 1, n |-> 0, ret |-> 0, before |-> <<>>]
Init ==
  /\ mem \in [1 .. Size -> Bytes] /\ call = NoCall
  /\ dividend \in 0 .. b * b - 1 /\ results = <<>>

Does(op, dst, src, n, ret, after) ==
  /\ mem' = after
  /\ call' = [op |-> op, dst |-> dst, src |-> src, n |-> n, ret |-> ret, before |-> mem]
Apart(d, s, n) ==      \* memcpy's regions do not overlap
  d + n <= s \/ s + strlen(mem, s) < d

\* Every call the memory has room for, on a memory not yet changed.
Call(d, s, n) ==
  /\ call = NoCall /\ d + n <= Size + 1 /\ s + n <= Size + 1
  /\ \/ Does("memmove", d, s, n, MovedTo(d, s, n), memmove(mem, d, s, n))
     \/ Does("memset", d, s, n, d, memset(mem, d, 0, n))
     \/ /\ IsString(mem, s) /\ Apart(d, s, n)
        /\ Does("strlcpy", d, s, n, strlen(mem, s), strlcpy(mem, d, s, n))
     \/ /\ IsString(mem, s) /\ IsString(mem, d) /\ Apart(d, s, n)
        /\ d + strlen(mem, d) < s \/ s < d
        /\ Does("strlcat", d, s, n, strlen(mem, s) + strlen(mem, d), strlcat(mem, d, s, n))
Sort == call = NoCall /\ Does("sort", 1, 1, Size, 0, sort(mem))

Calls == (\E d, s \in 1 .. Size, n \in 0 .. Size : Call(d, s, n)) \/ Sort

\* The dividend is divided by every divisor.
Divide ==
  /\ results = <<>>
  /\ results' = [d \in 1 .. b * b - 1 |->
                   [udiv |-> udiv64(dividend, d), umod |-> umod64(dividend, d),
                    sdiv |-> sdiv64(s64(dividend), s64(d)),
                    smod |-> smod64(s64(dividend), s64(d))]]
  /\ UNCHANGED dividend
-----------------------------------------------------------------------------
(* Each call does what it says at every boundary: memmove copies whatever the *)
(* overlap; strlcpy and strlcat write only the size bytes they were given,    *)
(* leave a terminated prefix there and return the length of the whole string; *)
(* sort leaves an ordered permutation, in which binary_search finds a value   *)
(* exactly when it is there.  Two comments promise more than is claimed: that *)
(* memmove returns DST, which it does only when it copies downwards, and that *)
(* strlcat always writes a terminator, which it does not when the string at   *)
(* DST fills SIZE bytes already.                                              *)
CallsKeepTheirPromise ==
  LET old    == call.before
      region == call.dst .. call.dst + call.n - 1
      string(a, p) == SubSeq(a, p, p + strlen(a, p) - 1)
      prefix(s) == SubSeq(s, 1, Least(Len(s), call.n - 1))
      both   == string(old, call.dst) \o string(old, call.src)
      full   == strlen(old, call.dst) >= call.n
  IN  /\ call.op # "none" => \A i \in (1 .. Size) \ region : mem[i] = old[i]
      /\ call.op = "memmove" => \A i \in 0 .. call.n - 1 : mem[call.dst + i] = old[call.src + i]
      /\ call.op = "memmove" /\ call.dst >= call.src => call.ret = call.dst
      /\ call.op = "strlcpy" =>
           /\ call.ret = Len(string(old, call.src))
           /\ call.n > 0 => string(mem, call.dst) = prefix(string(old, call.src))
      /\ call.op = "strlcat" =>
           call.ret = Len(both) /\ IF full THEN mem = old ELSE string(mem, call.dst) = prefix(both)
      /\ call.op = "sort" =>
           /\ \A i, j \in 1 .. Size : i < j => mem[i] <= mem[j]
           /\ \A v \in Bytes : /\ Cardinality({i \in 1 .. Size : mem[i] = v})
                                    = Cardinality({i \in 1 .. Size : old[i] = v})
                               /\ LET at == binary_search(mem, v, 1, Size + 1)
                                  IN  IF v \in Range(mem) THEN mem[at] = v ELSE at = 0

Truncated(x, d) == LET q == Abs(x) \div Abs(d) IN IF (x < 0) <=> (d < 0) THEN q ELSE -q

(* For every dividend and divisor: no division traps, quotients are exact     *)
(* (rounded to zero when signed, wrapping for the least integer over -1), and *)
(* remainders are exact whenever they fit the word they are returned in.      *)
DivisionIsExact ==
  \A d \in DOMAIN results :
    LET r == results[d]
        x == s64(dividend)
        e == s64(d)
    IN  /\ r.udiv = dividend \div d
        /\ dividend % d < b => r.umod = dividend % d
        /\ r.sdiv = s64(Truncated(x, e))
        /\ (x - e * Truncated(x, e)) \in -(b \div 2) .. b \div 2 - 1 => r.smod = x - e * Truncated(x, e)
=============================================================================
