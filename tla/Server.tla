------------------------------- MODULE Server -------------------------------
(***************************************************************************)
(* class Server (server.h, server.cc): the table that ties file            *)
(* descriptors, Session objects and epoll registrations together, and the  *)
(* batch of events the last epoll_wait returned.                           *)
(*                                                                         *)
(* The table is indexed from 1 here, from 0 in the code.  A set of epoll   *)
(* flags is a subset of Flags; "HUP" stands for EPOLLHUP and EPOLLERR,     *)
(* which the kernel reports whether they were asked for or not.            *)
(***************************************************************************)
EXTENDS Naturals, Sequences, FiniteSets

CONSTANTS
  Fds,        \* the file descriptors the process may hold
  Lfd,        \* the listening socket, a member of Fds
  NoFd,       \* -1
  Sessions,   \* the Session objects that may exist (their addresses)
  NoSession,  \* the null pointer
  Garbage,    \* what an uninitialised Entry::events may hold
  MaxEvents   \* the size of Server::ev

Flags   == {"IN", "OUT", "HUP"}
DIE     == {}
READING == {"IN"}
WRITING == {"OUT"}

ASSUME ServerAssumption ==
  /\ Lfd \in Fds
  /\ NoFd \notin Fds
  /\ NoSession \notin Sessions
  /\ Garbage # {} /\ Garbage \subseteq SUBSET Flags
  /\ MaxEvents \in Nat \ {0}

VARIABLES
  v,          \* Server::v
  epset,      \* the epoll set: fd -> the index and flags registered for it
  open,       \* the descriptors the process has open
  heap,       \* the Session objects allocated and not yet deleted
  clients,    \* events of the batch not yet handled: [begin, end)
  listeners   \* events of the batch not yet handled: [lbegin, lend)

serverVars == <<v, epset, open, heap, clients, listeners>>

EntryType == [events : SUBSET Flags, fd : Fds \cup {NoFd}, session : Sessions \cup {NoSession}]
Registration == [n : Nat, events : SUBSET Flags]

(* An event also carries, for the properties only, the session its index   *)
(* stood for when epoll_wait returned.                                     *)
EventType == [n : Nat, events : SUBSET Flags, for : Sessions \cup {NoSession}]

(* What would break TypeOK: 0 for the descriptor of an empty entry.        *)
EntryOfZero == [events |-> {}, fd |-> 0, session |-> NoSession]

(* The events of an empty entry are never read: every value is alike.      *)
NoEntry == [events |-> {}, fd |-> NoFd, session |-> NoSession]
NotRegistered == [n |-> 0, events |-> {}]

Listening(e) == e.session = NoSession /\ e.fd # NoFd
Client(e)    == e.session # NoSession
Empty(e)     == e.fd = NoFd

Registered(fd) == epset[fd].n # 0
-----------------------------------------------------------------------------
(* What would break TableBound: always a new slot.                         *)
NewSlot == Len(v) + 1

(* The slot an entry is inserted in: an empty one if there is one (the     *)
(* first), else a new one at the end.                                      *)
FreeSlots == {i \in DOMAIN v : Empty(v[i])}
Slot == IF FreeSlots # {}
          THEN CHOOSE i \in FreeSlots : \A j \in FreeSlots : i <= j
          ELSE Len(v) + 1

Insert(e) == IF Slot \in DOMAIN v THEN [v EXCEPT ![Slot] = e] ELSE Append(v, e)

(* What would break FdsOwned: not closing.                                 *)
RemoveUnclosed(R) ==
  /\ v' = [i \in DOMAIN v |-> IF i \in R THEN NoEntry ELSE v[i]]
  /\ heap' = heap \ {v[i].session : i \in R}
  /\ UNCHANGED <<open, epset>>

(* What would break HeapOwned: not deleting.                               *)
RemoveUndeleted(R) ==
  LET closed == {v[i].fd : i \in R} IN
  /\ v' = [i \in DOMAIN v |-> IF i \in R THEN NoEntry ELSE v[i]]
  /\ open' = open \ closed
  /\ epset' = [fd \in Fds |-> IF fd \in closed THEN NotRegistered ELSE epset[fd]]
  /\ UNCHANGED heap

(* close(), delete and a fresh Entry for each index in R; closing takes    *)
(* the descriptor out of the epoll set.                                    *)
RemoveAll(R) ==
  LET closed == {v[i].fd : i \in R} IN
  /\ v' = [i \in DOMAIN v |-> IF i \in R THEN NoEntry ELSE v[i]]
  /\ open' = open \ closed
  /\ heap' = heap \ {v[i].session : i \in R}
  /\ epset' = [fd \in Fds |-> IF fd \in closed THEN NotRegistered ELSE epset[fd]]

Remove(n) == RemoveAll({n})

(* What would break EpollIndexed: registering the index of a new slot for  *)
(* an entry in a reused one.                                               *)
AddAtEnd(fd, s, g) ==
  \/ /\ v' = Insert([events |-> g, fd |-> fd, session |-> s])
     /\ epset' = [epset EXCEPT ![fd] = [n |-> Len(v) + 1, events |-> {"IN"}]]
     /\ open' = open \cup {fd}
     /\ heap' = heap \cup ({s} \cap Sessions)
  \/ /\ v' = Insert(NoEntry)
     /\ UNCHANGED <<epset, open, heap>>

(* add(lfd) is Add(lfd, NoSession, g), add(fd, peer, t) is Add(fd, s, g)   *)
(* for a new Session s, where g is what happens to lie in the memory of    *)
(* Entry::events.  When EPOLL_CTL_ADD fails the entry, the descriptor and  *)
(* the Session are gone again, but the table may have grown.               *)
Add(fd, s, g) ==
  \/ /\ v' = Insert([events |-> g, fd |-> fd, session |-> s])
     /\ epset' = [epset EXCEPT ![fd] = [n |-> Slot, events |-> {"IN"}]]
     /\ open' = open \cup {fd}
     /\ heap' = heap \cup ({s} \cap Sessions)
  \/ /\ v' = Insert(NoEntry)
     /\ UNCHANGED <<epset, open, heap>>

(* What would break OnlyFirstMissed: telling the cache and not the kernel.  *)
CtlCached(n, state) ==
  \/ /\ state = v[n].events
     /\ UNCHANGED <<v, epset, open, heap>>
  \/ /\ state # v[n].events
     /\ v' = [v EXCEPT ![n].events = state]
     /\ UNCHANGED <<epset, open, heap>>
  \/ /\ state # v[n].events
     /\ Remove(n)

(* EPOLL_CTL_MOD, unless the entry's cached events say it is needless; a   *)
(* MOD which fails removes the entry.                                      *)
Ctl(n, state) ==
  \/ /\ state = v[n].events
     /\ UNCHANGED <<v, epset, open, heap>>
  \/ /\ state # v[n].events
     /\ v' = [v EXCEPT ![n].events = state]
     /\ epset' = [epset EXCEPT ![v[n].fd].events = state]
     /\ UNCHANGED <<open, heap>>
  \/ /\ state # v[n].events
     /\ Remove(n)

(* What epoll_wait may report: for at most MaxEvents registered            *)
(* descriptors, flags which were asked for or "HUP".  Nothing at all is a  *)
(* timeout or an error.                                                    *)
Reports == {r \in [Fds -> SUBSET Flags] :
              /\ \A fd \in Fds : r[fd] \subseteq
                    IF Registered(fd) THEN epset[fd].events \cup {"HUP"} ELSE {}
              /\ Cardinality({fd \in Fds : r[fd] # {}}) <= MaxEvents}

(* wait() sorts the report into client and listener events by what the     *)
(* table holds at the reported index; the order within each is arbitrary.  *)
EventsOf(r, Kind(_)) ==
  {[n |-> epset[fd].n, events |-> r[fd], for |-> v[epset[fd].n].session] :
      fd \in {f \in Fds : r[f] # {} /\ Kind(v[epset[f].n])}}

WaitFor ==
  \E r \in Reports :
    /\ clients' = EventsOf(r, Client)
    /\ listeners' = EventsOf(r, Listening)

(* What would break ListenerKept: asking every entry in use.               *)
ReconsiderAll == \E R \in SUBSET {i \in DOMAIN v : ~Empty(v[i])} : RemoveAll(R)

(* Kill the sessions which feel a need to die, whichever they are.         *)
Reconsider == \E R \in SUBSET {i \in DOMAIN v : Client(v[i])} : RemoveAll(R)

ServerInit ==
  /\ v = <<>>
  /\ epset = [fd \in Fds |-> NotRegistered]
  /\ open = {} /\ heap = {}
  /\ clients = {} /\ listeners = {}
=============================================================================
