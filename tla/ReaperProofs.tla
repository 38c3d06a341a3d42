---------------------------- MODULE ReaperProofs ----------------------------
(* Proofs about Reaper, for any limit, audit period and epoll timeout. *)
EXTENDS Reaper, TLAPS

(* Why a session cannot outlive its welcome: unless the audit has just     *)
(* passed a deadline, the next one comes before Limit + Period is over.    *)
NextDeadlineInTime ==
  mode # "gone" /\ (pc = "audit" => n = 0) => deadline < since + Limit + Period

IInv ==
  /\ TypeOK
  /\ mode = "idle" => since = te
  /\ mode = "active" => since = tb
  /\ deadline <= ts + Period
  /\ pc = "wait" => ts <= deadline
  /\ (pc = "audit" => n = 0) => ts <= deadline + Timeout
  /\ pc = "audit" /\ n > 0 => deadline < ts + Period
  /\ NextDeadlineInTime
  /\ mode # "gone" => ts < since + Limit + Period + Timeout

LEMMA InitEstablishes == Init => IInv
BY ReaperAssumption DEF Init, IInv, TypeOK, NextDeadlineInTime

LEMMA NextPreserves == IInv /\ [Next]_vars => IInv'
<1> SUFFICES ASSUME IInv, [Next]_vars PROVE IInv'
  OBVIOUS
<1> USE ReaperAssumption DEF IInv, TypeOK, NextDeadlineInTime, history
<1>1. CASE Wake
  BY <1>1 DEF Wake
<1>2. CASE Connect
  BY <1>2 DEF Connect, Event
<1>3. CASE Began
  BY <1>3 DEF Began, Event
<1>4. CASE Wrote
  BY <1>4 DEF Wrote, Event
<1>5. CASE Ended
  BY <1>5 DEF Ended, Event
<1>6. CASE Close
  BY <1>6 DEF Close, Event
<1>7. CASE EventsDone
  BY <1>7 DEF EventsDone
<1>8. CASE PassDeadline
  BY <1>8 DEF PassDeadline
<1>9. CASE Reconsider
  BY <1>9 DEF Reconsider, Idle, Wedged
<1>10. CASE UNCHANGED vars
  BY <1>10 DEF vars
<1> QED BY <1>1, <1>2, <1>3, <1>4, <1>5, <1>6, <1>7, <1>8, <1>9, <1>10 DEF Next

LEMMA InvariantHolds == Spec => []IInv
BY InitEstablishes, NextPreserves, PTL DEF Spec

(* Every variable has its type, and no time stamp is ahead of the clock:   *)
(* the differences reconsider() takes are never negative.                  *)
THEOREM TypeCorrect == Spec => []TypeOK
<1>1. IInv => TypeOK
  BY DEF IInv
<1> QED BY <1>1, InvariantHolds, PTL

(* No session is idle, or busy with one response, for Limit + Period +     *)
(* Timeout or more, whatever these are.                                    *)
THEOREM SessionsReapedInTime == Spec => []ReapedInTime
<1>1. IInv => ReapedInTime
  BY ReaperAssumption DEF IInv, TypeOK, NextDeadlineInTime, ReapedInTime
<1> QED BY <1>1, InvariantHolds, PTL

(* The audit kills no session which has been idle, or busy with its        *)
(* response, for Limit or less.                                            *)
THEOREM SessionsNotReapedEarly == Spec => NeverReapedEarly
<1>1. IInv /\ [Next]_vars => [Reaped => ts - since > Limit]_vars
  <2> SUFFICES ASSUME IInv, Next, Reaped
               PROVE  ts - since > Limit
    OBVIOUS
  <2>1. Reconsider
    BY DEF Reaped, Next, Wake, Connect, Began, Wrote, Ended, Close, Event, EventsDone, PassDeadline
  <2>2. Idle \/ Wedged
    BY <2>1 DEF Reconsider, Reaped
  <2> QED BY <2>2 DEF IInv, Idle, Wedged
<1> QED BY <1>1, InvariantHolds, PTL DEF Spec, NeverReapedEarly

-----------------------------------------------------------------------------
(* Audits do not drift, and after the loop has looked the next deadline is *)
(* ahead, by at most Period.                                               *)
THEOREM DeadlinesOnGrid == Spec => []DeadlineOnGrid
<1> DEFINE Grid == \E k \in 1 .. deadline : deadline = k * Period
<1>1. Init => Grid
  <2>1. Period \in 1 .. Period /\ 1 \in 1 .. Period /\ Period = 1 * Period
    BY ReaperAssumption
  <2> QED BY <2>1 DEF Init
<1>2. IInv /\ Grid /\ [Next]_vars => Grid'
  <2>1. IInv /\ Grid /\ PassDeadline => Grid'
    <3> SUFFICES ASSUME IInv, Grid, PassDeadline PROVE Grid'
      OBVIOUS
    <3>1. PICK k \in 1 .. deadline : deadline = k * Period
      OBVIOUS
    <3>2. (k + 1) * Period = deadline + Period
      BY <3>1, ReaperAssumption
    <3>3. deadline' = deadline + Period /\ deadline \in Int
      BY DEF PassDeadline, IInv, TypeOK
    <3>4. k + 1 \in 1 .. deadline'
      BY <3>1, <3>3, ReaperAssumption
    <3> QED BY <3>2, <3>3, <3>4
  <2>2. Grid /\ UNCHANGED deadline => Grid'
    OBVIOUS
  <2> QED BY <2>1, <2>2 DEF Next, Wake, Connect, Began, Wrote, Ended, Close, Event, EventsDone,
                           Reconsider, vars
<1>3. IInv /\ Grid => DeadlineOnGrid
  BY DEF IInv, DeadlineOnGrid
<1> QED BY <1>1, <1>2, <1>3, InvariantHolds, PTL DEF Spec
=============================================================================
