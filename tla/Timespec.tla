------------------------------ MODULE Timespec ------------------------------
(***************************************************************************)
(* The arithmetic of times.cc on seconds and nanoseconds, and Reaper's use *)
(* of it.  The units Reaper counts in are nanoseconds here, and the limits *)
(* are whole seconds, of Nano units each: 10^9 in the code, few in a run.  *)
(***************************************************************************)
EXTENDS Reaper

CONSTANTS
  Nano,       \* the nanoseconds in a second
  Epoch,      \* what the clock says when Reaper's is at 0
  LimitSec,   \* Limit and Period in seconds, as the code has them
  PeriodSec

ASSUME TimespecAssumption ==
  /\ Nano \in Nat \ {0} /\ Epoch \in Nat
  /\ LimitSec \in Nat /\ Limit = LimitSec * Nano
  /\ PeriodSec \in Nat /\ Period = PeriodSec * Nano

Timespec == [sec : Int, nsec : 0 .. Nano - 1]

(* What a timespec stands for, in nanoseconds. *)
Value(t) == t.sec * Nano + t.nsec

(* What would break MinusExact: borrowing without paying back. *)
MinusUnpaid(t, t0) ==
  IF t.nsec >= t0.nsec
    THEN [sec |-> t.sec - t0.sec, nsec |-> t.nsec - t0.nsec]
    ELSE [sec |-> t.sec - t0.sec, nsec |-> Nano - (t0.nsec - t.nsec)]

(* operator- : t - t0, with a second borrowed if the nanoseconds need it.  *)
Minus(t, t0) ==
  IF t.nsec >= t0.nsec
    THEN [sec |-> t.sec - t0.sec, nsec |-> t.nsec - t0.nsec]
    ELSE [sec |-> t.sec - t0.sec - 1, nsec |-> Nano - (t0.nsec - t.nsec)]

(* What would break LaterExact: whole seconds only. *)
LaterSeconds(a, s) == a.sec > s

(* operator> : whether the difference a is more than s seconds.            *)
Later(a, s) == a.sec > s \/ (a.sec = s /\ a.nsec # 0)

(* What would break DeadlineExact: nanoseconds compared on their own. *)
BeforeLoosely(a, b) == a.sec < b.sec \/ a.nsec < b.nsec

(* operator< : whether a comes before b.                                   *)
Before(a, b) == a.sec < b.sec \/ (a.sec = b.sec /\ a.nsec < b.nsec)

(* operator+ : s seconds later.                                            *)
Plus(t, s)   == [t EXCEPT !.sec = @ + s]
-----------------------------------------------------------------------------
(* What clock_gettime() returns at some time of Reaper's.                  *)
At(time) == [sec |-> (Epoch + time) \div Nano, nsec |-> (Epoch + time) % Nano]

(* All times that are noted, by History, and may be subtracted from now.   *)
Stamps == {te, tb, tw}

(* The time since any stamp of the history is right to the nanosecond,     *)
(* normalised again, and never negative, which times.cc:22-23 would have   *)
(* undefined: through whatever began, was written and ended in between.    *)
MinusExact ==
  \A stamp \in Stamps :
    LET d == Minus(At(ts), At(stamp)) IN
    d \in Timespec /\ d.sec >= 0 /\ Value(d) = ts - stamp

(* "More than s seconds" means s seconds and at least one nanosecond, and  *)
(* never less: what idle() and wedged() say of a difference in timespecs   *)
(* is what Reaper's Idle and Wedged say of one in plain numbers.           *)
LaterExact ==
  \A stamp \in Stamps : Later(Minus(At(ts), At(stamp)), LimitSec) <=> ts - stamp > Limit

(* The loop in Periodic::check, in timespecs, passes the deadlines Reaper  *)
(* passes in plain numbers and comes to the same next one; a deadline is   *)
(* kept to the nanosecond, though it is moved by whole seconds.            *)
DeadlineExact ==
  /\ Before(At(deadline), At(ts)) <=> deadline < ts
  /\ Plus(At(deadline), PeriodSec) = At(deadline + Period)
=============================================================================
