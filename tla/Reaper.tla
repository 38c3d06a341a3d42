------------------------------- MODULE Reaper -------------------------------
(***************************************************************************)
(* How long a session may live: History's time stamps (sessionhistory.cc), *)
(* Session::reconsider, and the Periodic audit of the event loop           *)
(* (times.cc, httpd.cc).  One place in the server is followed, which one   *)
(* session after the other occupies; sessions share nothing here but the   *)
(* clock and the audit.                                                    *)
(*                                                                         *)
(* The clock counts whole units of any size: "more than s seconds" is a    *)
(* plain comparison.  It never runs backwards.                             *)
(***************************************************************************)
EXTENDS Integers

CONSTANTS
  Limit,    \* what reconsider() tolerates: 10 s
  Period,   \* between audits: 20 s
  Timeout,  \* the longest the loop is away from its clock: 20 s in epoll_wait
  MaxTime   \* where the clock stops (a bound of the model)

ASSUME ReaperAssumption ==
  /\ Limit \in Nat \ {0}
  /\ Period \in Nat \ {0}
  /\ Timeout \in Nat
  /\ MaxTime \in Nat

VARIABLES
  pc,        \* "wait", "events" or "audit"
  ts,        \* the loop's idea of the time
  deadline,  \* Periodic::deadline
  n,         \* deadlines passed by the present Periodic::check
  mode,      \* the session is "gone", "idle", or "active": History::e is odd
  te, tb, tw,\* when a response ended (or the session began), began, was written
  since      \* for the properties: since when the session is idle, or active

history == <<te, tb, tw, since>>
vars == <<pc, ts, deadline, n, mode, history>>

Init ==
  /\ pc = "wait" /\ ts = 0
  /\ deadline = ts + Period /\ n = 0
  /\ mode = "gone"
  /\ te = 0 /\ tb = 0 /\ tw = 0 /\ since = 0

(* epoll_wait returns, after any time up to Timeout, and the clock is read. *)
Wake ==
  /\ pc = "wait"
  /\ \E d \in 0 .. Timeout : ts' = ts + d /\ ts' <= MaxTime
  /\ pc' = "events"
  /\ UNCHANGED <<deadline, n, mode, history>>

Event == pc = "events" /\ UNCHANGED <<pc, ts, deadline, n>>

Connect ==
  /\ Event /\ mode = "gone"
  /\ mode' = "idle"
  /\ te' = ts /\ since' = ts
  /\ UNCHANGED <<tb, tw>>

Began ==
  /\ Event /\ mode = "idle"
  /\ mode' = "active"
  /\ tb' = ts /\ since' = ts
  /\ UNCHANGED <<te, tw>>

(* What would break TypeOK: stamping the time of the next audit.           *)
WroteAhead ==
  /\ Event /\ mode = "active"
  /\ tw' = deadline
  /\ UNCHANGED <<mode, te, tb, since>>

Wrote ==
  /\ Event /\ mode = "active"
  /\ tw' = ts
  /\ UNCHANGED <<mode, te, tb, since>>

(* What would break NeverReapedEarly: not noting when the response ended.  *)
EndedUnnoted ==
  /\ Event /\ mode = "active"
  /\ mode' = "idle"
  /\ since' = ts
  /\ UNCHANGED <<te, tb, tw>>

Ended ==
  /\ Event /\ mode = "active"
  /\ mode' = "idle"
  /\ te' = ts /\ since' = ts
  /\ UNCHANGED <<tb, tw>>

(* The session ends by itself. *)
Close ==
  /\ Event /\ mode # "gone"
  /\ mode' = "gone"
  /\ UNCHANGED history

EventsDone ==
  /\ pc = "events" /\ pc' = "audit"
  /\ n' = 0
  /\ UNCHANGED <<ts, deadline, mode, history>>

(* What would break DeadlineOnGrid: the next deadline counted from now.    *)
PassDeadlineFromNow ==
  /\ pc = "audit" /\ deadline < ts
  /\ deadline' = ts + Period
  /\ n' = n + 1
  /\ UNCHANGED <<pc, ts, mode, history>>

(* The loop inside Periodic::check. *)
PassDeadline ==
  /\ pc = "audit" /\ deadline < ts
  /\ deadline' = deadline + Period
  /\ n' = n + 1
  /\ UNCHANGED <<pc, ts, mode, history>>

(* What would break ReapedInTime: going by the last write, like the comment *)
(* at sessionhistory.cc:69-70.                                             *)
WedgedSinceWritten == mode = "active" /\ ts - tw > Limit

Idle   == mode = "idle" /\ ts - te > Limit
Wedged == mode = "active" /\ ts - tb > Limit

Reconsider ==
  /\ pc = "audit" /\ deadline >= ts
  /\ mode' = IF n > 0 /\ (Idle \/ Wedged) THEN "gone" ELSE mode
  /\ pc' = "wait"
  /\ UNCHANGED <<ts, deadline, n, history>>

Next == \/ Wake \/ Connect \/ Began \/ Wrote \/ Ended \/ Close
        \/ EventsDone \/ PassDeadline \/ Reconsider

Spec == Init /\ [][Next]_vars

(* The audit kills the session. *)
Reaped == pc = "audit" /\ mode # "gone" /\ mode' = "gone"
-----------------------------------------------------------------------------
TypeOK ==
  /\ pc \in {"wait", "events", "audit"}
  /\ ts \in 0 .. MaxTime
  /\ deadline \in Int
  /\ n \in Nat
  /\ mode \in {"gone", "idle", "active"}
  /\ te \in 0 .. ts /\ tb \in 0 .. ts /\ tw \in 0 .. ts /\ since \in 0 .. ts

(* An idle or a responding session is gone in time: when the loop goes to  *)
(* sleep no session has been idle, or busy with one response, for Limit    *)
(* plus Period, and whenever the loop looks, none has been for longer than *)
(* the time asleep on top of that.  It takes 50 s, where reconsider() asks *)
(* for 10 (session.cc:145-148, httpd.cc:124-127).                          *)
ReapedInTime ==
  mode # "gone" => /\ ts < since + Limit + Period + Timeout
                   /\ pc = "wait" => ts < since + Limit + Period

(* The audit never kills a session that has been idle, or busy with its    *)
(* present response, for no more than Limit - not after a burst of         *)
(* responses, and not for what a former response took.                     *)
NeverReapedEarly ==
  [][Reaped => ts - since > Limit]_vars

(* Audits do not drift: deadlines stay at t + dt, t + 2dt, ... whenever    *)
(* the loop wakes (times.cc:66-70), and after a late wakeup the deadlines  *)
(* missed are passed at once: the next one is ahead, by at most Period.    *)
DeadlineOnGrid ==
  /\ \E k \in 1 .. deadline : deadline = k * Period
  /\ pc = "wait" => ts <= deadline /\ deadline <= ts + Period

(* sessionhistory.cc:69-70: wedged means that "nothing has happened" for   *)
(* more than Limit.  A response that is being written is not wedged.       *)
WedgedMeansNothingHappened ==
  [][Reaped /\ mode = "active" => ts - tw > Limit]_vars
=============================================================================
