------------------------------ MODULE EventLoop ------------------------------
(***************************************************************************)
(* loop() in httpd.cc: wait, accept, serve, audit, and again.              *)
(*                                                                         *)
(* A session is reduced to what the loop can tell of it: whether it has a  *)
(* response to write, and the state its read() or write() returns.  The    *)
(* module Session says what happens inside.                                *)
(***************************************************************************)
EXTENDS Server

VARIABLES
  pc,          \* where the loop is
  responding,  \* the live sessions whose response is not null
  past         \* history, for the properties only: what came of each session

vars == <<v, epset, open, heap, clients, listeners, pc, responding, past>>

(* What is remembered of a session: what its Entry::events held when it    *)
(* was made, the states it has returned since, and whether what the kernel *)
(* watches its socket for has been changed.                                *)
Past == [born : SUBSET Flags, asked : SUBSET {READING, WRITING}, told : BOOLEAN]

Newborn(g) == [born |-> g, asked |-> {}, told |-> FALSE]
NoPast == Newborn(DIE)

(* After a step: the dead are forgotten; of the living, what is given.     *)
Remember(recall) == past' = [s \in Sessions |-> IF s \in heap' THEN recall[s] ELSE NoPast]

Init ==
  /\ ServerInit
  /\ pc = "start" /\ responding = {}
  /\ past = [s \in Sessions |-> NoPast]

(* A failure to add the listening socket is silent: a deaf server runs on. *)
Start ==
  /\ pc = "start"
  /\ \E g \in Garbage : Add(Lfd, NoSession, g)
  /\ pc' = "wait"
  /\ UNCHANGED <<clients, listeners, responding, past>>

Wait ==
  /\ pc = "wait"
  /\ WaitFor
  /\ pc' = "events"
  /\ UNCHANGED <<v, epset, open, heap, responding, past>>

(* One accept() per listener event; it may fail.                           *)
Accept ==
  /\ pc = "events"
  /\ \E ev \in listeners :
       /\ listeners' = listeners \ {ev}
       /\ \/ \E fd \in Fds \ open, s \in Sessions \ heap, g \in Garbage :
               Add(fd, s, g) /\ Remember([past EXCEPT ![s] = Newborn(g)])
          \/ UNCHANGED <<v, epset, open, heap, past>>
  /\ UNCHANGED <<clients, pc, responding>>

(* The states read() and write() of a session may return; DIE also stands  *)
(* for a SessionError.                                                     *)
ReadStates(s)  == IF s \in responding THEN {WRITING, DIE} ELSE {READING, WRITING, DIE}
WriteStates(s) == IF s \in responding THEN {READING, WRITING, DIE} ELSE {READING, DIE}

(* Writable goes before readable, and an event which is neither is fatal.  *)
StatesAfter(ev) ==
  CASE "OUT" \in ev.events -> WriteStates(v[ev.n].session)
    [] "OUT" \notin ev.events /\ "IN" \in ev.events -> ReadStates(v[ev.n].session)
    [] OTHER -> {DIE}

(* WRITING is returned if and only if there is a response.                 *)
Respond(s, state) ==
  responding' = heap' \cap (IF state = WRITING THEN responding \cup {s}
                                               ELSE responding \ {s})

(* What a session has returned, and whether ctl() has told the kernel.     *)
Returned(s, state) ==
  Remember([past EXCEPT ![s].asked = @ \cup ({state} \ {DIE}),
                        ![s].told = @ \/ epset' # epset])

Serve ==
  /\ pc = "events" /\ listeners = {}
  /\ \E ev \in clients :
       /\ clients' = clients \ {ev}
       /\ \E state \in StatesAfter(ev) :
            /\ IF state = DIE THEN Remove(ev.n) ELSE Ctl(ev.n, state)
            /\ Respond(v[ev.n].session, state)
            /\ Returned(v[ev.n].session, state)
  /\ UNCHANGED <<listeners, pc>>

(* What would break EventsAimed: the audit before the clients are served.  *)
AuditFirst ==
  /\ pc = "events" /\ listeners = {}
  /\ Reconsider
  /\ responding' = responding \cap heap'
  /\ Remember(past)
  /\ pc' = IF clients = {} THEN "wait" ELSE "events"
  /\ UNCHANGED <<clients, listeners>>

(* The audit, whether due or not, ends the turn.                           *)
Audit ==
  /\ pc = "events" /\ listeners = {} /\ clients = {}
  /\ Reconsider
  /\ responding' = responding \cap heap'
  /\ Remember(past)
  /\ pc' = "wait"
  /\ UNCHANGED <<clients, listeners>>

Next == Start \/ Wait \/ Accept \/ Serve \/ Audit

Spec == Init /\ [][Next]_vars
-----------------------------------------------------------------------------
TypeOK ==
  /\ v \in Seq(EntryType)
  /\ epset \in [Fds -> Registration]
  /\ open \subseteq Fds
  /\ heap \subseteq Sessions
  /\ clients \subseteq EventType
  /\ listeners \subseteq EventType
  /\ pc \in {"start", "wait", "events"}
  /\ responding \subseteq heap
  /\ past \in [Sessions -> Past]

(* The table is the one owner of descriptors: each open one is in exactly  *)
(* one entry and no entry names a closed one, through failed additions,    *)
(* failed modifications, removals and reuse of numbers (server.h:23-25).   *)
FdsOwned ==
  /\ \A i \in DOMAIN v : ~Empty(v[i]) => v[i].fd \in open
  /\ \A fd \in open : \E i \in DOMAIN v : v[i].fd = fd
  /\ \A i, j \in DOMAIN v : v[i].fd = v[j].fd /\ ~Empty(v[i]) => i = j

(* Likewise for sessions: none is leaked, none is reachable through two    *)
(* entries, and none is reachable after it has been deleted.               *)
HeapOwned ==
  /\ \A i \in DOMAIN v : Client(v[i]) => v[i].session \in heap /\ ~Empty(v[i])
  /\ \A s \in heap : \E i \in DOMAIN v : v[i].session = s
  /\ \A i, j \in DOMAIN v : v[i].session = v[j].session /\ Client(v[i]) => i = j

(* The number epoll hands back for a descriptor is the index of the entry  *)
(* that holds it, and every descriptor in the table is watched: wait() may *)
(* index the table with it without looking.                                *)
EpollIndexed ==
  /\ \A fd \in Fds : Registered(fd) => epset[fd].n \in DOMAIN v /\ v[epset[fd].n].fd = fd
  /\ \A i \in DOMAIN v : ~Empty(v[i]) => epset[v[i].fd].n = i

(* Nothing the loop does between wait() and an event's turn - accepting    *)
(* into reused slots, removing other sessions - redirects the event: its   *)
(* entry is still there, with the session it was reported for.             *)
EventsAimed ==
  /\ \A ev \in clients : /\ ev.n \in DOMAIN v /\ Client(v[ev.n])
                         /\ v[ev.n].session = ev.for
  /\ \A ev \in listeners : ev.n \in DOMAIN v /\ Listening(v[ev.n])
  /\ \A e, f \in clients : e.n = f.n => e = f

(* The kernel watches a session for what the session last said it wants:   *)
(* writability while there is a response to write, readability otherwise   *)
(* (server.cc:162-164, session.cc:67-69, 107-109).                         *)
InterestMatches ==
  \A i \in DOMAIN v : Client(v[i]) =>
    epset[v[i].fd].events = IF v[i].session \in responding THEN WRITING ELSE READING

(* What is left of that when Entry::events starts as garbage.  The kernel  *)
(* may watch a session for the wrong thing only if                         *)
(*   - this session's own entry happened to start as WRITING;              *)
(*   - it is the first change it has asked for: all it has ever returned   *)
(*     is WRITING, and it is watched for what add() said, READING; and     *)
(*   - the kernel has not been told anything else about it since.          *)
(* So after one change that got through, or once a session has returned    *)
(* READING, the kernel is always right about it, and no session is ever    *)
(* watched for writing that has nothing to write (server.cc:108-123, 169). *)
OnlyFirstMissed ==
  \A i \in DOMAIN v : Client(v[i]) =>
    LET s       == v[i].session
        watched == epset[v[i].fd].events
        wanted  == IF s \in responding THEN WRITING ELSE READING
    IN  watched # wanted =>
          /\ past[s].born = WRITING
          /\ past[s].asked = {WRITING} /\ watched = READING
          /\ ~past[s].told

(* Slots are reused: the table grows only when every slot is taken, so it  *)
(* is never longer than the number of descriptors the process can hold.    *)
TableBound == Len(v) <= Cardinality(Fds)

(* Once it is watched, the listening socket stays open, in its slot and    *)
(* watched for connections, whatever becomes of the sessions.              *)
ListenerKept ==
  [][Registered(Lfd) => /\ epset'[Lfd] = epset[Lfd]
                        /\ v'[epset[Lfd].n].fd = Lfd]_vars
=============================================================================
