-------------------------------- MODULE Clock --------------------------------
(***************************************************************************)
(* devices/rtc.c: the time of day, read register by register from a clock  *)
(* that goes on ticking (hardware, external).                              *)
(***************************************************************************)
EXTENDS Integers, Sequences, SequencesExt, FiniteSets

CONSTANTS Moments,      \* times the clock may show when a call starts
          MaxTicks      \* bound on the seconds a call lasts; less than a minute

VARIABLES clock,        \* <<sec, min, hour, mday, mon, year>>
          shown,        \* history: what it showed since the call started
          rd,           \* the registers read in this round
          time          \* the result, or -1
vars == <<clock, shown, rd, time>>

days_per_month == <<31, 28, 31, 30, 31, 30, 31, 31, 30, 31, 30, 31>>
Leap(year) == year % 4 = 0
DaysIn(m) == days_per_month[m[5]] + (IF m[5] = 2 /\ Leap(m[6]) THEN 1 ELSE 0)

\* The hardware's next second; its year has two digits.
NextSecond(m) ==
  LET last == <<59, 59, 23, DaysIn(m), 12, 99>>
      first == <<0, 0, 0, 1, 1, 0>>
  IN  [i \in 1 .. 6 |-> IF \E j \in 1 .. i - 1 : m[j] # last[j] THEN m[i]
                        ELSE IF m[i] = last[i] THEN first[i] ELSE m[i] + 1]
Bcd(x) == (x \div 10) * 16 + (x % 10)
bcd_to_bin(x) == (x % 16) + (x \div 16) * 10
cmos_read(i) == Bcd(clock[i])

\* The seconds rtc_get_time makes of the components.
Seconds(m) ==
  LET year == (IF m[6] < 70 THEN m[6] + 100 ELSE m[6]) - 70
      days == year * 365 + (IF year = 0 THEN 0 ELSE (year - 1) \div 4)
                + FoldLeft(LAMBDA s, i : s + days_per_month[i], 0, [i \in 1 .. m[5] |-> i])
                + (IF m[5] > 2 /\ year % 4 = 0 THEN 1 ELSE 0) + m[4] - 1
  IN  days * 24 * 60 * 60 + m[3] * 60 * 60 + m[2] * 60 + m[1]

Init == clock \in Moments /\ shown = {clock} /\ rd = <<>> /\ time = -1
Tick ==
  /\ time = -1 /\ Cardinality(shown) <= MaxTicks
  /\ clock' = NextSecond(clock) /\ shown' = shown \cup {clock'} /\ UNCHANGED <<rd, time>>
ReadRegister ==
  /\ time = -1 /\ Len(rd) < 6
  /\ rd' = Append(rd, bcd_to_bin(cmos_read(Len(rd) + 1))) /\ UNCHANGED <<clock, shown, time>>
\* The second is read again: another round, or the result.
ReadAgain ==
  /\ time = -1 /\ Len(rd) = 6
  /\ IF rd[1] # bcd_to_bin(cmos_read(1)) THEN rd' = <<>> /\ time' = time
     ELSE time' = Seconds(rd) /\ rd' = rd
  /\ UNCHANGED <<clock, shown>>
Next == Tick \/ ReadRegister \/ ReadAgain
Spec == Init /\ [][Next]_vars
-----------------------------------------------------------------------------
(* The time returned is that of one moment the clock showed during the call,  *)
(* whatever ticked over between two registers; and a second later the call    *)
(* returns one more, except where a month ends.                               *)
TimeIsOfOneMoment ==
  /\ time # -1 => \E m \in shown : time = Seconds(m)
  /\ LET m == NextSecond(clock) IN m[5] = clock[5] => Seconds(m) = Seconds(clock) + 1
=============================================================================
