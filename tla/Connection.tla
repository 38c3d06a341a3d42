------------------------------ MODULE Connection ------------------------------
(***************************************************************************)
(* A session and the two it lives between: the client at the other end of  *)
(* the connection, and the loop in httpd.cc which calls read() or write()  *)
(* for what epoll reports, and tells epoll what the session wants next     *)
(* (server.cc, Server::ctl).  In between are the buffers of the sockets,   *)
(* which are finite.                                                       *)
(*                                                                         *)
(* A client is greedy if it writes all it has to say before it reads an    *)
(* answer; others read whenever there is something.  Either may go away.   *)
(* Files can be read here; Session has the errors.                         *)
(***************************************************************************)
EXTENDS Session

CONSTANTS
  InRoom,   \* the symbols the sockets hold on their way to the server
  OutRoom,  \* the octets they hold on their way to the client
  Garbage   \* what Entry::events may hold before it is first assigned

ASSUME ConnectionAssumption == InRoom \in Nat \ {0} /\ OutRoom \in Nat \ {0}

VARIABLES
  sent,     \* how much of the stream the client has written
  taken,    \* how much of the wire it has read
  link,     \* "open", "half" once the client has said all, "reset" once it has gone
  greedy,   \* it writes everything first
  watched,  \* what epoll watches the socket for, as the state that asks for it
  cached    \* Entry::events

conn  == <<sent, taken, link, greedy, watched, cached>>
cvars == <<vars, conn>>

IsOpen == state \in {"READING", "WRITING"}

ConnInit ==
  /\ Init
  /\ sent = 0 /\ taken = 0 /\ link = "open"
  /\ greedy \in BOOLEAN
  /\ watched = "READING" /\ cached \in Garbage
-----------------------------------------------------------------------------
Send ==
  /\ link = "open" /\ sent < Len(stream) /\ sent - got < InRoom
  /\ sent' = sent + 1
  /\ UNCHANGED <<vars, taken, link, greedy, watched, cached>>

HalfClose ==
  /\ link = "open" /\ sent = Len(stream)
  /\ link' = "half"
  /\ UNCHANGED <<vars, sent, taken, greedy, watched, cached>>

Receive ==
  /\ link # "reset" /\ taken < Len(wire)
  /\ greedy => sent = Len(stream)
  /\ taken' = taken + 1
  /\ UNCHANGED <<vars, sent, link, greedy, watched, cached>>

Leave ==
  /\ link # "reset" /\ IsOpen
  /\ link' = "reset"
  /\ UNCHANGED <<vars, sent, taken, greedy, watched, cached>>
-----------------------------------------------------------------------------
(* What would break ImplementsSession: trying both, whatever epoll says. *)
ReportedAlways(want) == ~looping

(* The event is for what epoll watches for: readable() or writable(). *)
Reported(want) == ~looping /\ watched = want

Readable == link # "open" \/ sent > got
Writable == link = "reset" \/ Len(wire) - taken < OutRoom

(* What would break Served: the kernel is not told. *)
CtlCached == cached' = state' /\ UNCHANGED watched

(* What would break DeadlockOnlyByGreed: the cache is not told. *)
CtlUncached ==
  /\ watched' = IF state' # cached THEN state' ELSE watched
  /\ UNCHANGED cached

(* Server::ctl with the state returned: EPOLL_CTL_MOD, unless the cached   *)
(* events say it is needless.                                              *)
Ctl ==
  /\ watched' = IF state' # cached THEN state' ELSE watched
  /\ cached' = state'

(* What would break ConnTypeOK: ctl() whatever was returned. *)
CtlAnyway == IF looping' THEN UNCHANGED <<watched, cached>> ELSE Ctl

(* When read() or write() has returned: ctl() or remove(). *)
Settle == IF looping' \/ ~IsOpen' THEN UNCHANGED <<watched, cached>> ELSE Ctl

(* recv() gets what is there and fits; the end, when there is nothing more *)
(* to come, or no room; and of what one left behind who went, nothing.     *)
ServeRead ==
  /\ IsOpen /\ Reported("READING") /\ Readable
  /\ LET room == Capacity - Len(buf)
         n    == IF link = "reset" THEN 0
                   ELSE IF sent - got < room THEN sent - got ELSE room
     IN ReadOnce(n, n = 0)
  /\ Settle
  /\ UNCHANGED <<sent, taken, link, greedy>>

(* The turns of the loop in Session::write, which goes on without a look   *)
(* at epoll.  The socket takes what it has room for.  It fails for good    *)
(* when the client has gone, unless there is nothing to be written.        *)
ServeWrite ==
  /\ IsOpen
  /\ looping \/ (Reported("WRITING") /\ Writable)
  /\ response # NoResponse
  /\ LET room    == OutRoom - (Len(wire) - taken)
         pending == Len(Pending(Wanted(FALSE)))
     IN IF link = "reset" /\ pending > 0
          THEN WriteFails
          ELSE WriteOnce(FALSE, IF pending < room THEN pending ELSE room)
  /\ Settle
  /\ UNCHANGED <<sent, taken, link, greedy>>

ConnNext == Send \/ HalfClose \/ Receive \/ Leave \/ ServeRead \/ ServeWrite

ConnSpec == ConnInit /\ [][ConnNext]_cvars

(* The loop serves every socket that is ready, and the client does not     *)
(* stop; it need not leave.                                                *)
ConnFairness ==
  /\ WF_cvars(Send) /\ WF_cvars(HalfClose) /\ WF_cvars(Receive)
  /\ WF_cvars(ServeRead) /\ WF_cvars(ServeWrite)

FairConnSpec == ConnSpec /\ ConnFairness
-----------------------------------------------------------------------------
ConnTypeOK ==
  /\ sent \in got .. Len(stream) /\ sent - got <= InRoom
  /\ taken \in 0 .. Len(wire) /\ Len(wire) - taken <= OutRoom
  /\ link \in {"open", "half", "reset"} /\ (link = "half" => sent = Len(stream))
  /\ greedy \in BOOLEAN
  /\ watched \in {"READING", "WRITING"}
  /\ cached \in Garbage \cup {"READING", "WRITING"}

(* The first EPOLL_CTL_MOD was skipped because of what Entry::events held. *)
Missed == state = "WRITING" /\ watched = "READING"

(* What Session assumes of its surroundings holds: read() is called in the *)
(* state READING and write() in the state WRITING (session.cc:67-69,       *)
(* 107-109), through all a client may do - unless the first MOD is missed. *)
ImplementsSession == Init /\ [][Missed \/ Next]_vars

(* A missed MOD is never made up for, whatever the client does: nothing    *)
(* more is written until the session is killed or the connection breaks.   *)
MissedIsMute == [][Missed /\ IsOpen' => Missed' /\ wire' = wire]_cvars

(* Neither side can move; write() without a response does nothing. *)
Stalled ==
  /\ IsOpen /\ ~looping /\ link # "reset"
  /\ ~(sent < Len(stream) /\ sent - got < InRoom)
  /\ ~(link = "open" /\ sent = Len(stream))
  /\ ~(taken < Len(wire) /\ (greedy => sent = Len(stream)))
  /\ ~(watched = "READING" /\ Readable)
  /\ ~(watched = "WRITING" /\ Writable /\ response # NoResponse)

(* TODO asks: "Can we deadlock a client by writing and not immediately     *)
(* read()" - yes, but only one that does not read either: it is still      *)
(* writing, a response is in progress, and both ways are full.             *)
DeadlockOnlyByGreed ==
  Stalled => /\ greedy /\ sent < Len(stream)
             /\ response # NoResponse
             /\ sent - got = InRoom /\ Len(wire) - taken = OutRoom

(* The session cannot be held to all that the client said: a line did not  *)
(* fit, or a broken request is first in line, or the client is gone.       *)
Excused == Len(buf) = Capacity \/ IsBroken(queue) \/ link = "reset"

(* When the server closes the connection it has read all that was sent:    *)
(* closing a socket with input unread resets the connection, and the       *)
(* client may lose the answers it has not read yet.                        *)
CloseDrained == state = "DIE" => sent = got \/ Excused

(* All that a client asks for from beginning to end: what is left when it  *)
(* half-closes counts as a line.                                           *)
Asked == LET p == Parsed[stream][Len(stream)]
         IN IF p.line = <<>> THEN p.queue ELSE AddLine(p.queue, p.line)

Files(q) ==
  LET answered == Only(q, Complete)
  IN FlattenSeq([i \in DOMAIN answered |->
                   Octets(answered[i].line, 0, FileSize(answered[i].line))])

(* When the server closes the connection the client has been sent every    *)
(* file it asked for, whole and in order, however small the buffers are    *)
(* and whichever way they filled up.                                       *)
AnsweredInFull == state = "DIE" => wire = Files(Asked) \/ Excused

(* A session whose first MOD was not missed comes to its end, without the  *)
(* help of the audit, or to the deadlock above: a client which reads as it *)
(* writes is never left waiting.                                           *)
Served == cached # "WRITING" ~> ~IsOpen \/ Stalled
=============================================================================
