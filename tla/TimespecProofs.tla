--------------------------- MODULE TimespecProofs ---------------------------
(***************************************************************************)
(* Proofs about Timespec, for any number of nanoseconds in a second, any   *)
(* limits, and a clock which starts anywhere.                              *)
(***************************************************************************)
EXTENDS Timespec, ReaperProofs

(* Fewer seconds are fewer nanoseconds, by a whole second at least. *)
LEMMA SecondsApart ==
  ASSUME NEW a \in Int, NEW b \in Int, a < b
  PROVE  a * Nano + Nano <= b * Nano
<1>1. PICK k \in Nat : b = a + 1 + k
  <2>1. b - a - 1 \in Nat /\ b = a + 1 + (b - a - 1)
    OBVIOUS
  <2> QED BY <2>1
<1>2. b * Nano = a * Nano + Nano + k * Nano
  BY <1>1, TimespecAssumption
<1>3. k * Nano >= 0 /\ a * Nano \in Int /\ b * Nano \in Int
  BY TimespecAssumption
<1> QED BY <1>2, <1>3, TimespecAssumption

(* Subtraction gives a normalised difference of the right value, for any   *)
(* two normalised times.                                                   *)
LEMMA Difference ==
  ASSUME NEW t \in Timespec, NEW t0 \in Timespec
  PROVE  Minus(t, t0) \in Timespec /\ Value(Minus(t, t0)) = Value(t) - Value(t0)
<1>1. Minus(t, t0) \in Timespec
  BY TimespecAssumption DEF Minus, Timespec
<1>2. (t.sec - t0.sec) * Nano = t.sec * Nano - t0.sec * Nano
  BY TimespecAssumption DEF Timespec
<1>3. (t.sec - t0.sec - 1) * Nano = t.sec * Nano - t0.sec * Nano - Nano
  BY TimespecAssumption DEF Timespec
<1>4. t.sec * Nano \in Int /\ t0.sec * Nano \in Int
  BY TimespecAssumption DEF Timespec
<1> QED BY <1>1, <1>2, <1>3, <1>4, TimespecAssumption DEF Minus, Value, Timespec

(* Comparing a normalised difference with whole seconds compares the       *)
(* nanoseconds.                                                            *)
LEMMA Comparison ==
  ASSUME NEW d \in Timespec, NEW s \in Nat
  PROVE  Later(d, s) <=> Value(d) > s * Nano
<1>1. d.sec \in Int /\ d.nsec \in 0 .. Nano - 1 /\ d.sec * Nano \in Int /\ s * Nano \in Int
  BY TimespecAssumption DEF Timespec
<1>2. CASE d.sec > s
  <2>1. s * Nano + Nano <= d.sec * Nano
    BY <1>1, <1>2, SecondsApart
  <2> QED BY <1>1, <1>2, <2>1, TimespecAssumption DEF Later, Value
<1>3. CASE d.sec = s
  BY <1>1, <1>3 DEF Later, Value
<1>4. CASE d.sec < s
  <2>1. d.sec * Nano + Nano <= s * Nano
    BY <1>1, <1>4, SecondsApart
  <2> QED BY <1>1, <1>4, <2>1, TimespecAssumption DEF Later, Value
<1> QED BY <1>1, <1>2, <1>3, <1>4

(* A difference which is not negative has no negative seconds.             *)
LEMMA NotNegative ==
  ASSUME NEW d \in Timespec, Value(d) >= 0
  PROVE  d.sec >= 0
<1>1. d.sec \in Int /\ d.nsec \in 0 .. Nano - 1 /\ d.sec * Nano \in Int
  BY TimespecAssumption DEF Timespec
<1>2. CASE d.sec < 0
  <2>1. d.sec * Nano + Nano <= 0 * Nano
    BY <1>1, <1>2, SecondsApart
  <2>2. d.sec * Nano + Nano <= 0
    BY <2>1, TimespecAssumption
  <2> QED BY <1>1, <2>2, TimespecAssumption DEF Value
<1> QED BY <1>1, <1>2

(* Comparing normalised times compares the nanoseconds. *)
LEMMA Earlier ==
  ASSUME NEW a \in Timespec, NEW b \in Timespec
  PROVE  Before(a, b) <=> Value(a) < Value(b)
<1>1. /\ a.sec \in Int /\ a.nsec \in 0 .. Nano - 1 /\ a.sec * Nano \in Int
      /\ b.sec \in Int /\ b.nsec \in 0 .. Nano - 1 /\ b.sec * Nano \in Int
  BY TimespecAssumption DEF Timespec
<1>2. CASE a.sec < b.sec
  <2>1. a.sec * Nano + Nano <= b.sec * Nano
    BY <1>1, <1>2, SecondsApart
  <2> QED BY <1>1, <1>2, <2>1, TimespecAssumption DEF Before, Value
<1>3. CASE a.sec = b.sec
  BY <1>1, <1>3 DEF Before, Value
<1>4. CASE b.sec < a.sec
  <2>1. b.sec * Nano + Nano <= a.sec * Nano
    BY <1>1, <1>4, SecondsApart
  <2> QED BY <1>1, <1>4, <2>1, TimespecAssumption DEF Before, Value
<1> QED BY <1>1, <1>2, <1>3, <1>4

(* What the clock says is normalised, and is the time.                     *)
LEMMA Reading ==
  ASSUME NEW time \in Int
  PROVE  At(time) \in Timespec /\ Value(At(time)) = Epoch + time
<1> DEFINE x == Epoch + time
           q == x \div Nano
           r == x % Nano
<1>1. x \in Int /\ Nano \in Nat /\ Nano > 0
  BY TimespecAssumption
<1> HIDE DEF x
<1>2. q \in Int /\ r \in 0 .. Nano - 1 /\ q * Nano + r = x
  BY <1>1
<1> QED BY <1>2 DEF At, Value, Timespec, x

(* A time has one normalised form only.                                    *)
LEMMA OneForm ==
  ASSUME NEW a \in Timespec, NEW b \in Timespec, Value(a) = Value(b)
  PROVE  a = b
<1>1. /\ a.sec \in Int /\ a.nsec \in 0 .. Nano - 1 /\ a.sec * Nano \in Int
      /\ b.sec \in Int /\ b.nsec \in 0 .. Nano - 1 /\ b.sec * Nano \in Int
  BY TimespecAssumption DEF Timespec
<1>2. ~(a.sec < b.sec)
  <2>1. a.sec < b.sec => a.sec * Nano + Nano <= b.sec * Nano
    BY <1>1, SecondsApart
  <2> QED BY <1>1, <2>1, TimespecAssumption DEF Value
<1>3. ~(b.sec < a.sec)
  <2>1. b.sec < a.sec => b.sec * Nano + Nano <= a.sec * Nano
    BY <1>1, SecondsApart
  <2> QED BY <1>1, <2>1, TimespecAssumption DEF Value
<1>4. a.sec = b.sec
  BY <1>1, <1>2, <1>3
<1>5. a.nsec = b.nsec
  BY <1>1, <1>4 DEF Value
<1> QED BY <1>4, <1>5 DEF Timespec
-----------------------------------------------------------------------------
(* No stamp is ahead of the clock. *)
LEMMA StampsNoted ==
  ASSUME TypeOK, NEW stamp \in Stamps
  PROVE  stamp \in Nat /\ ts \in Nat /\ stamp <= ts
BY ReaperAssumption DEF TypeOK, Stamps

LEMMA SinceStamp ==
  ASSUME TypeOK, NEW stamp \in Stamps
  PROVE  /\ Minus(At(ts), At(stamp)) \in Timespec
         /\ Value(Minus(At(ts), At(stamp))) = ts - stamp
<1>1. stamp \in Nat /\ ts \in Nat
  BY StampsNoted
<1>2. At(ts) \in Timespec /\ At(stamp) \in Timespec
  BY <1>1, Reading
<1>3. Value(At(ts)) = Epoch + ts /\ Value(At(stamp)) = Epoch + stamp
  BY <1>1, Reading
<1>4. /\ Minus(At(ts), At(stamp)) \in Timespec
      /\ Value(Minus(At(ts), At(stamp))) = Value(At(ts)) - Value(At(stamp))
  BY <1>2, Difference
<1> QED BY <1>1, <1>3, <1>4, TimespecAssumption

(* Timespec!MinusExact: the difference of the clock and any stamp of the   *)
(* history is normalised, not negative, and right to the nanosecond.       *)
THEOREM DifferencesExact == Spec => []MinusExact
<1>1. TypeOK => MinusExact
  <2> SUFFICES ASSUME TypeOK, NEW stamp \in Stamps
               PROVE  LET d == Minus(At(ts), At(stamp)) IN
                      d \in Timespec /\ d.sec >= 0 /\ Value(d) = ts - stamp
    BY DEF MinusExact
  <2>1. PICK d \in Timespec : d = Minus(At(ts), At(stamp)) /\ Value(d) = ts - stamp
    BY SinceStamp
  <2>2. Value(d) >= 0
    BY <2>1, StampsNoted
  <2>3. d.sec >= 0
    BY <2>2, NotNegative
  <2> QED BY <2>1, <2>3
<1> QED BY <1>1, TypeCorrect, PTL

(* Timespec!LaterExact: a limit of some seconds is passed by those seconds *)
(* and one nanosecond, and not by less.                                    *)
THEOREM LimitsSharp == Spec => []LaterExact
<1>1. TypeOK => LaterExact
  <2> SUFFICES ASSUME TypeOK, NEW stamp \in Stamps
               PROVE  Later(Minus(At(ts), At(stamp)), LimitSec) <=> ts - stamp > Limit
    BY DEF LaterExact
  <2>1. PICK d \in Timespec : d = Minus(At(ts), At(stamp)) /\ Value(d) = ts - stamp
    BY SinceStamp
  <2>2. Later(d, LimitSec) <=> Value(d) > LimitSec * Nano
    BY TimespecAssumption, Comparison
  <2> QED BY <2>1, <2>2, TimespecAssumption
<1> QED BY <1>1, TypeCorrect, PTL

(* Timespec!DeadlineExact: Periodic, in timespecs, passes a deadline when  *)
(* Reaper does, and comes to the same next one.                            *)
THEOREM DeadlinesAgree == Spec => []DeadlineExact
<1>1. TypeOK => DeadlineExact
  <2>1. SUFFICES ASSUME TypeOK PROVE DeadlineExact
    OBVIOUS
  <2>2. deadline \in Int /\ ts \in Int /\ Epoch \in Int /\ Period \in Int
    BY <2>1, ReaperAssumption, TimespecAssumption DEF TypeOK
  <2>3. PICK a \in Timespec : a = At(deadline) /\ Value(a) = Epoch + deadline
    BY <2>2, Reading
  <2>4. PICK b \in Timespec : b = At(ts) /\ Value(b) = Epoch + ts
    BY <2>2, Reading
  <2>5. deadline + Period \in Int
    BY <2>2
  <2>6. PICK c \in Timespec : c = At(deadline + Period) /\ Value(c) = Epoch + (deadline + Period)
    BY <2>5, Reading
  <2>7. Before(a, b) <=> deadline < ts
    BY <2>2, <2>3, <2>4, Earlier
  <2>8. Plus(a, PeriodSec) = c
    <3>1. a.sec \in Int /\ PeriodSec \in Int /\ a.nsec \in Int
      BY TimespecAssumption DEF Timespec
    <3>2. /\ Plus(a, PeriodSec) \in Timespec
          /\ Plus(a, PeriodSec).sec = a.sec + PeriodSec /\ Plus(a, PeriodSec).nsec = a.nsec
      BY <3>1 DEF Plus, Timespec
    <3>3. (a.sec + PeriodSec) * Nano = a.sec * Nano + Period
      BY <3>1, TimespecAssumption
    <3>4. a.sec * Nano \in Int
      BY <3>1, TimespecAssumption
    <3>5. Value(Plus(a, PeriodSec)) = Value(a) + Period
      BY <2>2, <3>1, <3>2, <3>3, <3>4 DEF Value
    <3>6. Value(Plus(a, PeriodSec)) = Value(c)
      BY <2>2, <2>3, <2>6, <3>5
    <3> QED BY <3>2, <3>6, OneForm
  <2> QED BY <2>3, <2>4, <2>6, <2>7, <2>8 DEF DeadlineExact
<1> QED BY <1>1, TypeCorrect, PTL
=============================================================================
