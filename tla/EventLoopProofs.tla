--------------------------- MODULE EventLoopProofs ---------------------------
(***************************************************************************)
(* Proofs about EventLoop: the table, the epoll set, the descriptors and   *)
(* the sessions stay consistent for any number of each.                    *)
(***************************************************************************)
EXTENDS EventLoop, TLAPS, FiniteSetTheorems, SequenceTheorems,
        WellFoundedInduction

Ownership == FdsOwned /\ HeapOwned /\ EpollIndexed

(* What the loop keeps true between its steps.  Before Start there is      *)
(* nothing: the listening socket enters with its entry.                    *)
IInv ==
  /\ TypeOK
  /\ Ownership
  /\ EventsAimed
  /\ pc = "start" => open = {}

(* The part of the types which is Server's own. *)
TableTypes ==
  /\ v \in Seq(EntryType)
  /\ epset \in [Fds -> Registration]
  /\ open \subseteq Fds
  /\ heap \subseteq Sessions
-----------------------------------------------------------------------------
(* A set of natural numbers which is not empty has a least element. *)
LEMMA LeastElement ==
  ASSUME NEW S \in SUBSET Nat, S # {}
  PROVE  \E i \in S : \A j \in S : i <= j
<1> DEFINE Less == {p \in Nat \X Nat : p[1] < p[2]}
<1>1. IsWellFoundedOn(Less, Nat)
  BY NatLessThanWellFounded DEF OpToRel
<1>2. PICK i \in S : \A j \in S : <<j, i>> \notin Less
  <2> HIDE DEF Less
  <2> QED BY <1>1, WFMin
<1>3. ASSUME NEW j \in S PROVE i <= j
  <2>1. i \in Nat /\ j \in Nat
    OBVIOUS
  <2>2. ~ (j < i)
    BY <1>2, <2>1
  <2> QED BY <2>1, <2>2
<1> QED BY <1>3

(* What the type of the table says of one entry. *)
LEMMA EntryTyped ==
  ASSUME v \in Seq(EntryType), NEW i \in DOMAIN v
  PROVE  /\ v[i] \in EntryType
         /\ ~Empty(v[i]) => v[i].fd \in Fds
         /\ Client(v[i]) => v[i].session \in Sessions
<1>1. v[i] \in EntryType
  OBVIOUS
<1> QED BY <1>1 DEF EntryType, Empty, Client

(* insert() returns an empty entry or the index just past the end. *)
LEMMA SlotIsFree ==
  ASSUME v \in Seq(EntryType)
  PROVE  /\ Slot \in 1 .. Len(v) + 1
         /\ Slot \in DOMAIN v => Empty(v[Slot])
<1>1. CASE FreeSlots = {}
  BY <1>1 DEF Slot
<1>2. CASE FreeSlots # {}
  <2>1. FreeSlots \in SUBSET Nat
    BY DEF FreeSlots
  <2>2. Slot \in FreeSlots
    BY <1>2, <2>1, LeastElement DEF Slot
  <2> QED BY <2>2 DEF FreeSlots
<1> QED BY <1>1, <1>2

(* Inserting changes the table in that slot alone. *)
LEMMA InsertSetsSlot ==
  ASSUME v \in Seq(EntryType), NEW e \in EntryType
  PROVE  /\ Insert(e) \in Seq(EntryType)
         /\ DOMAIN Insert(e) = DOMAIN v \cup {Slot}
         /\ Insert(e)[Slot] = e
         /\ \A i \in DOMAIN v \ {Slot} : Insert(e)[i] = v[i]
<1>1. Slot \in 1 .. Len(v) + 1
  BY SlotIsFree
<1>2. CASE Slot \in DOMAIN v
  <2>1. Insert(e) = [v EXCEPT ![Slot] = e]
    BY <1>2 DEF Insert
  <2>2. DOMAIN v = 1 .. Len(v)
    OBVIOUS
  <2> HIDE DEF Insert
  <2>3. Insert(e) \in Seq(EntryType)
    BY <1>2, <2>1, <2>2, ExceptSeq
  <2> QED BY <1>2, <2>1, <2>3
<1>3. CASE Slot \notin DOMAIN v
  <2>1. Slot = Len(v) + 1
    BY <1>1, <1>3
  <2> QED BY <1>3, <2>1, AppendProperties DEF Insert
<1> QED BY <1>2, <1>3

-----------------------------------------------------------------------------
(* add(): the descriptor, the session, the entry and the registration come *)
(* together or not at all, and no entry in use is touched.                 *)
LEMMA AddKeepsOwnership ==
  ASSUME TableTypes, Ownership,
         NEW fd \in Fds \ open,
         NEW s \in (Sessions \ heap) \cup {NoSession},
         NEW g \in Garbage,
         Add(fd, s, g)
  PROVE  /\ TableTypes' /\ Ownership'
         /\ heap \subseteq heap'
         /\ \A i \in DOMAIN v : ~Empty(v[i]) => i \in DOMAIN v' /\ v'[i] = v[i]
<1> USE ServerAssumption DEF TableTypes
<1>0. /\ Slot \in Nat \ {0}
      /\ Slot \in DOMAIN v => Empty(v[Slot])
  BY SlotIsFree
<1>1. CASE /\ v' = Insert([events |-> g, fd |-> fd, session |-> s])
           /\ epset' = [epset EXCEPT ![fd] = [n |-> Slot, events |-> {"IN"}]]
           /\ open' = open \cup {fd}
           /\ heap' = heap \cup ({s} \cap Sessions)
  <2>1. v' = Insert([events |-> g, fd |-> fd, session |-> s])
    BY <1>1
  <2> DEFINE e == [events |-> g, fd |-> fd, session |-> s]
  <2>2. e \in EntryType
    BY DEF EntryType
  <2>3. /\ v' \in Seq(EntryType)
        /\ DOMAIN v' = DOMAIN v \cup {Slot}
        /\ v'[Slot] = e
        /\ \A i \in DOMAIN v \ {Slot} : v'[i] = v[i]
    BY <2>1, <2>2, InsertSetsSlot
  <2>4. TableTypes'
    BY <1>0, <1>1, <2>3 DEF Registration, Flags
  <2>5. \A i \in DOMAIN v : ~Empty(v[i]) => i \in DOMAIN v' /\ v'[i] = v[i]
    BY <1>0, <2>3
  <2>6. FdsOwned'
    <3>1. \A i \in DOMAIN v' : ~Empty(v'[i]) => v'[i].fd \in open'
      BY <1>1, <2>3 DEF Ownership, FdsOwned, Empty
    <3>2. \A f \in open' : \E i \in DOMAIN v' : v'[i].fd = f
      BY <1>1, <2>3, <2>5 DEF Ownership, FdsOwned, Empty
    <3>3. \A i, j \in DOMAIN v' : v'[i].fd = v'[j].fd /\ ~Empty(v'[i]) => i = j
      BY <2>3 DEF Ownership, FdsOwned, Empty
    <3> QED BY <3>1, <3>2, <3>3 DEF FdsOwned, Empty
  <2>7. HeapOwned'
    <3>1. \A i \in DOMAIN v' : Client(v'[i]) => v'[i].session \in heap' /\ ~Empty(v'[i])
      BY <1>1, <2>3 DEF Ownership, HeapOwned, Empty, Client
    <3>2. \A t \in heap' : \E i \in DOMAIN v' : v'[i].session = t
      BY <1>1, <2>3, <2>5 DEF Ownership, HeapOwned, Client
    <3>3. \A i, j \in DOMAIN v' : v'[i].session = v'[j].session /\ Client(v'[i]) => i = j
      BY <2>3 DEF Ownership, HeapOwned, Client
    <3> QED BY <3>1, <3>2, <3>3 DEF HeapOwned, Client, Empty
  <2>8. EpollIndexed'
    BY <1>0, <1>1, <2>3, <2>5 DEF Ownership, FdsOwned, EpollIndexed, Empty, Registered
  <2> QED BY <1>1, <2>4, <2>5, <2>6, <2>7, <2>8 DEF Ownership
<1>2. CASE v' = Insert(NoEntry) /\ UNCHANGED <<epset, open, heap>>
  <2>1. NoEntry \in EntryType
    BY DEF NoEntry, EntryType
  <2>2. /\ v' \in Seq(EntryType)
        /\ DOMAIN v' = DOMAIN v \cup {Slot}
        /\ v'[Slot] = NoEntry
        /\ \A i \in DOMAIN v \ {Slot} : v'[i] = v[i]
    BY <1>2, <2>1, InsertSetsSlot
  <2>3. \A i \in DOMAIN v : ~Empty(v[i]) => i \in DOMAIN v' /\ v'[i] = v[i]
    BY <1>0, <2>2
  <2>n. NoEntry.fd = NoFd /\ NoEntry.session = NoSession
    BY DEF NoEntry
  <2>4. FdsOwned'
    <3>1. \A i \in DOMAIN v' : ~Empty(v'[i]) => v'[i].fd \in open'
      BY <1>2, <2>2, <2>n DEF Ownership, FdsOwned, Empty
    <3>2. \A f \in open' : \E i \in DOMAIN v' : v'[i].fd = f
      BY <1>2, <2>2, <2>3 DEF Ownership, FdsOwned, Empty
    <3>3. \A i, j \in DOMAIN v' : v'[i].fd = v'[j].fd /\ ~Empty(v'[i]) => i = j
      BY <2>2, <2>n DEF Ownership, FdsOwned, Empty
    <3> QED BY <3>1, <3>2, <3>3 DEF FdsOwned, Empty
  <2>5. HeapOwned'
    <3>1. \A i \in DOMAIN v' : Client(v'[i]) => v'[i].session \in heap' /\ ~Empty(v'[i])
      BY <1>2, <2>2, <2>n DEF Ownership, HeapOwned, Empty, Client
    <3>2. \A t \in heap' : \E i \in DOMAIN v' : v'[i].session = t
      BY <1>2, <2>2, <2>3 DEF Ownership, HeapOwned, Client
    <3>3. \A i, j \in DOMAIN v' : v'[i].session = v'[j].session /\ Client(v'[i]) => i = j
      BY <2>2, <2>n DEF Ownership, HeapOwned, Client
    <3> QED BY <3>1, <3>2, <3>3 DEF HeapOwned, Client, Empty
  <2>6. EpollIndexed'
    <3>1. ASSUME NEW f \in Fds, Registered(f)
          PROVE  epset[f].n \in DOMAIN v' /\ v'[epset[f].n].fd = f
      BY <3>1, <2>3 DEF Ownership, EpollIndexed, Empty
    <3>2. \A i \in DOMAIN v' : ~Empty(v'[i]) => epset[v'[i].fd].n = i
      BY <2>2, <2>n DEF Ownership, EpollIndexed, Empty
    <3> QED BY <1>2, <3>1, <3>2 DEF EpollIndexed, Registered, Empty
  <2> QED BY <1>2, <2>2, <2>3, <2>4, <2>5, <2>6 DEF Ownership
<1> QED BY <1>1, <1>2 DEF Add

(* remove(): what goes, goes from every structure. *)
LEMMA RemoveKeepsOwnership ==
  ASSUME TableTypes, Ownership,
         NEW R \in SUBSET {i \in DOMAIN v : Client(v[i])},
         RemoveAll(R)
  PROVE  /\ TableTypes' /\ Ownership'
         /\ DOMAIN v' = DOMAIN v
         /\ \A i \in DOMAIN v \ R : v'[i] = v[i]
         /\ \A i \in R : v[i].session \notin heap'
<1> USE ServerAssumption DEF TableTypes
<1> DEFINE closed == {v[i].fd : i \in R}
<1>1. /\ DOMAIN v' = DOMAIN v
      /\ \A i \in DOMAIN v \ R : v'[i] = v[i]
      /\ \A i \in R : v'[i] = NoEntry
      /\ open' = open \ closed
      /\ heap' = heap \ {v[i].session : i \in R}
      /\ epset' = [f \in Fds |-> IF f \in closed THEN NotRegistered ELSE epset[f]]
  BY DEF RemoveAll
<1>2. TableTypes'
  <2>1. v' \in Seq(EntryType)
    <3>1. v' = [i \in 1 .. Len(v) |-> IF i \in R THEN NoEntry ELSE v[i]]
      BY DEF RemoveAll
    <3>2. NoEntry \in EntryType
      BY DEF NoEntry, EntryType
    <3>3. \A i \in 1 .. Len(v) : (IF i \in R THEN NoEntry ELSE v[i]) \in EntryType
      BY <3>2
    <3>4. Len(v) \in Nat
      OBVIOUS
    <3> QED BY <3>1, <3>3, <3>4
  <2>2. NotRegistered \in Registration
    BY DEF NotRegistered, Registration
  <2> QED BY <1>1, <2>1, <2>2
<1>3. \A i \in R : v[i].fd \in Fds /\ ~Empty(v[i])
  BY EntryTyped DEF Ownership, HeapOwned
<1>n. NoEntry.fd = NoFd /\ NoEntry.session = NoSession
  BY DEF NoEntry
<1>4. FdsOwned'
  <2>1. \A i \in DOMAIN v' : ~Empty(v'[i]) => v'[i].fd \in open'
    BY <1>1, <1>n DEF Ownership, FdsOwned, Empty
  <2>2. \A f \in open' : \E i \in DOMAIN v' : v'[i].fd = f
    BY <1>1 DEF Ownership, FdsOwned
  <2>3. \A i, j \in DOMAIN v' : v'[i].fd = v'[j].fd /\ ~Empty(v'[i]) => i = j
    BY <1>1, <1>n DEF Ownership, FdsOwned, Empty
  <2> QED BY <2>1, <2>2, <2>3 DEF FdsOwned, Empty
<1>5. HeapOwned'
  <2>1. \A i \in DOMAIN v' : Client(v'[i]) => v'[i].session \in heap' /\ ~Empty(v'[i])
    BY <1>1, <1>n DEF Ownership, HeapOwned, Empty, Client
  <2>2. \A s \in heap' : \E i \in DOMAIN v' : v'[i].session = s
    BY <1>1 DEF Ownership, HeapOwned
  <2>3. \A i, j \in DOMAIN v' : v'[i].session = v'[j].session /\ Client(v'[i]) => i = j
    BY <1>1, <1>n DEF Ownership, HeapOwned, Client
  <2> QED BY <2>1, <2>2, <2>3 DEF HeapOwned, Client, Empty
<1>6. EpollIndexed'
  BY <1>1, <1>3 DEF Ownership, FdsOwned, EpollIndexed, Empty, Registered, NoEntry, NotRegistered
<1> QED BY <1>1, <1>2, <1>4, <1>5, <1>6 DEF Ownership

(* ctl(): changes or removes the one entry. *)
LEMMA CtlKeepsOwnership ==
  ASSUME TableTypes, Ownership,
         NEW n \in DOMAIN v, Client(v[n]),
         NEW state \in SUBSET Flags,
         Ctl(n, state)
  PROVE  /\ TableTypes' /\ Ownership'
         /\ DOMAIN v' = DOMAIN v
         /\ \A i \in DOMAIN v \ {n} : v'[i] = v[i]
<1> USE ServerAssumption DEF TableTypes
<1>1. CASE UNCHANGED <<v, epset, open, heap>>
  BY <1>1 DEF Ownership, FdsOwned, HeapOwned, EpollIndexed, Empty, Client, Registered
<1>2. CASE /\ v' = [v EXCEPT ![n].events = state]
           /\ epset' = [epset EXCEPT ![v[n].fd].events = state]
           /\ UNCHANGED <<open, heap>>
  <2>1. /\ v[n].fd \in Fds
        /\ epset[v[n].fd] \in Registration
        /\ v[n] \in EntryType
    BY EntryTyped DEF Ownership, HeapOwned
  <2>2. /\ DOMAIN v' = DOMAIN v
        /\ \A i \in DOMAIN v \ {n} : v'[i] = v[i]
        /\ \A i \in DOMAIN v : v'[i].fd = v[i].fd /\ v'[i].session = v[i].session
        /\ v'[n] \in EntryType
    <3>1. v'[n] = [v[n] EXCEPT !.events = state]
      BY <1>2
    <3>2. /\ v'[n] \in EntryType
          /\ v'[n].fd = v[n].fd /\ v'[n].session = v[n].session
      BY <2>1, <3>1 DEF EntryType
    <3>3. DOMAIN v' = DOMAIN v /\ \A i \in DOMAIN v \ {n} : v'[i] = v[i]
      BY <1>2
    <3> QED BY <3>2, <3>3
  <2>3. v' \in Seq(EntryType)
    <3>1. v' = [v EXCEPT ![n] = v'[n]] /\ n \in 1 .. Len(v)
      BY <1>2
    <3> QED BY <2>2, <3>1, ExceptSeq
  <2>4. /\ epset' \in [Fds -> Registration]
        /\ \A f \in Fds : epset'[f].n = epset[f].n
    BY <1>2, <2>1 DEF Registration
  <2>5. FdsOwned'
    BY <1>2, <2>2 DEF Ownership, FdsOwned, Empty
  <2>6. HeapOwned'
    BY <1>2, <2>2 DEF Ownership, HeapOwned, Empty, Client
  <2>7. EpollIndexed'
    <3>1. ASSUME NEW f \in Fds, epset'[f].n # 0
          PROVE  epset'[f].n \in DOMAIN v' /\ v'[epset'[f].n].fd = f
      BY <2>2, <2>4, <3>1 DEF Ownership, EpollIndexed, Registered
    <3>2. ASSUME NEW i \in DOMAIN v', ~Empty(v'[i])
          PROVE  epset'[v'[i].fd].n = i
      <4>1. i \in DOMAIN v /\ ~Empty(v[i])
        BY <2>2, <3>2 DEF Empty
      <4>2. v[i].fd \in Fds
        BY <4>1, EntryTyped
      <4> QED BY <2>2, <2>4, <4>1, <4>2 DEF Ownership, EpollIndexed
    <3> QED BY <3>1, <3>2 DEF EpollIndexed, Registered, Empty
  <2> QED BY <1>2, <2>2, <2>3, <2>4, <2>5, <2>6, <2>7 DEF Ownership
<1>3. CASE Remove(n)
  BY <1>3, RemoveKeepsOwnership DEF Remove
<1> QED BY <1>1, <1>2, <1>3 DEF Ctl
-----------------------------------------------------------------------------
LEMMA InitEstablishes == Init => IInv
<1> SUFFICES ASSUME Init PROVE IInv
  OBVIOUS
<1> USE DEF Init, ServerInit
<1>1. TypeOK
  BY DEF TypeOK, Registration, NotRegistered, NoPast, Newborn, Past, DIE
<1>2. FdsOwned /\ HeapOwned /\ EventsAimed
  BY DEF FdsOwned, HeapOwned, EventsAimed
<1>3. EpollIndexed
  BY DEF EpollIndexed, Registered, NotRegistered
<1> QED BY <1>1, <1>2, <1>3 DEF IInv, Ownership

(* Additions never disturb the rest of the batch: they touch no entry in   *)
(* use, and an event's entry is in use.                                    *)
LEMMA AddKeepsBatch ==
  ASSUME EventsAimed, HeapOwned,
         clients' = clients, listeners' \subseteq listeners,
         \A i \in DOMAIN v : ~Empty(v[i]) => i \in DOMAIN v' /\ v'[i] = v[i]
  PROVE  EventsAimed'
<1>1. ASSUME NEW ev \in clients'
      PROVE  ev.n \in DOMAIN v' /\ Client(v'[ev.n]) /\ v'[ev.n].session = ev.for
  BY DEF EventsAimed, HeapOwned, Client
<1>2. ASSUME NEW ev \in listeners'
      PROVE  ev.n \in DOMAIN v' /\ Listening(v'[ev.n])
  BY DEF EventsAimed, Listening, Empty
<1> QED BY <1>1, <1>2 DEF EventsAimed, Client, Listening

LEMMA StartPreserves == IInv /\ Start => IInv'
<1> SUFFICES ASSUME IInv, Start PROVE IInv'
  OBVIOUS
<1>1. /\ TableTypes' /\ Ownership' /\ heap \subseteq heap'
      /\ \A i \in DOMAIN v : ~Empty(v[i]) => i \in DOMAIN v' /\ v'[i] = v[i]
  <2>1. Lfd \in Fds \ open /\ TableTypes /\ \E g \in Garbage : Add(Lfd, NoSession, g)
    BY ServerAssumption DEF IInv, Start, TypeOK, TableTypes
  <2> QED BY <2>1, AddKeepsOwnership DEF IInv
<1>2. EventsAimed'
  BY <1>1, AddKeepsBatch DEF IInv, Ownership, Start
<1>3. TypeOK'
  BY <1>1 DEF IInv, TypeOK, TableTypes, Start
<1> QED BY <1>1, <1>2, <1>3 DEF IInv, Start

LEMMA WaitPreserves == IInv /\ Wait => IInv'
<1> SUFFICES ASSUME IInv, Wait PROVE IInv'
  OBVIOUS
<1>1. PICK r \in Reports : clients' = EventsOf(r, Client) /\ listeners' = EventsOf(r, Listening)
  BY DEF Wait, WaitFor
<1>2. UNCHANGED <<v, epset, open, heap, responding, past>> /\ pc' = "events"
  BY DEF Wait
<1>3. ASSUME NEW fd \in Fds, r[fd] # {}
      PROVE  /\ Registered(fd)
             /\ epset[fd].n \in DOMAIN v /\ v[epset[fd].n].fd = fd
             /\ epset[fd].n \in Nat
             /\ v[epset[fd].n].session \in Sessions \cup {NoSession}
             /\ r[fd] \in SUBSET Flags
  <2>1. Registered(fd)
    BY <1>3 DEF Reports
  <2>2. epset[fd].n \in DOMAIN v /\ v[epset[fd].n].fd = fd
    BY <2>1 DEF IInv, Ownership, EpollIndexed
  <2>3. v[epset[fd].n] \in EntryType
    BY <2>2 DEF IInv, TypeOK
  <2> QED BY <2>1, <2>2, <2>3 DEF IInv, TypeOK, Registration, Reports, EntryType
<1>4. \A ev \in clients' :
        \E fd \in Fds : /\ r[fd] # {} /\ Client(v[epset[fd].n])
                        /\ ev = [n |-> epset[fd].n, events |-> r[fd], for |-> v[epset[fd].n].session]
  BY <1>1 DEF EventsOf
<1>5. \A ev \in listeners' :
        \E fd \in Fds : /\ r[fd] # {} /\ Listening(v[epset[fd].n])
                        /\ ev = [n |-> epset[fd].n, events |-> r[fd], for |-> v[epset[fd].n].session]
  BY <1>1 DEF EventsOf
<1>6. clients' \subseteq EventType /\ listeners' \subseteq EventType
  BY <1>3, <1>4, <1>5 DEF EventType
<1>7. EventsAimed'
  <2>1. \A ev \in clients' : ev.n \in DOMAIN v /\ Client(v[ev.n]) /\ v[ev.n].session = ev.for
    BY <1>3, <1>4
  <2>2. \A ev \in listeners' : ev.n \in DOMAIN v /\ Listening(v[ev.n])
    BY <1>3, <1>5
  <2>3. \A e, f \in clients' : e.n = f.n => e = f
    BY <1>3, <1>4
  <2> QED BY <1>2, <2>1, <2>2, <2>3 DEF EventsAimed, Client, Listening
<1>8. Ownership'
  BY <1>2 DEF IInv, Ownership, FdsOwned, HeapOwned, EpollIndexed, Empty, Client, Registered
<1>9. TypeOK'
  BY <1>2, <1>6 DEF IInv, TypeOK
<1> QED BY <1>2, <1>7, <1>8, <1>9 DEF IInv

(* What is remembered keeps its type. *)
LEMMA NewbornType ==
  ASSUME NEW g \in Garbage
  PROVE  Newborn(g) \in Past /\ NoPast \in Past
BY ServerAssumption DEF Newborn, NoPast, Past, DIE

LEMMA RememberType ==
  ASSUME NEW recall \in [Sessions -> Past], Remember(recall)
  PROVE  past' \in [Sessions -> Past]
<1>1. NoPast \in Past
  BY DEF NoPast, Newborn, Past, DIE
<1> QED BY <1>1 DEF Remember

(* What a turn of a session adds to what is remembered of it: the state,   *)
(* unless it is DIE, and whether epoll was told.  Of others nothing.       *)
LEMMA ReturnedAdds ==
  ASSUME past \in [Sessions -> Past], NEW s \in Sessions,
         NEW state \in {READING, WRITING, DIE}, Returned(s, state)
  PROVE  /\ past' \in [Sessions -> Past]
         /\ \A t \in Sessions \cap heap' : t # s => past'[t] = past[t]
         /\ s \in heap' =>
              /\ past'[s].born = past[s].born
              /\ past'[s].asked = past[s].asked \cup ({state} \ {DIE})
              /\ past'[s].told <=> past[s].told \/ epset' # epset
<1> DEFINE p == [past[s] EXCEPT !.asked = @ \cup ({state} \ {DIE}), !.told = @ \/ epset' # epset]
           recall == [past EXCEPT ![s].asked = @ \cup ({state} \ {DIE}),
                                  ![s].told = @ \/ epset' # epset]
<1>1. past[s] \in Past
  OBVIOUS
<1>2. /\ p \in Past /\ p.born = past[s].born
      /\ p.asked = past[s].asked \cup ({state} \ {DIE})
      /\ p.told <=> past[s].told \/ epset' # epset
  BY <1>1 DEF Past
<1>3. recall = [past EXCEPT ![s] = p]
  OBVIOUS
<1> HIDE DEF p
<1>4. /\ recall \in [Sessions -> Past] /\ recall[s] = p
      /\ \A t \in Sessions : t # s => recall[t] = past[t]
  BY <1>2, <1>3
<1>5. Remember(recall)
  BY DEF Returned
<1> HIDE DEF recall
<1>6. past' \in [Sessions -> Past]
  BY <1>4, <1>5, RememberType
<1>7. \A t \in Sessions \cap heap' : past'[t] = recall[t]
  BY <1>5 DEF Remember
<1> QED BY <1>2, <1>4, <1>6, <1>7

LEMMA AcceptPreserves == IInv /\ Accept => IInv'
<1> SUFFICES ASSUME IInv, Accept PROVE IInv'
  OBVIOUS
<1>1. /\ TableTypes' /\ Ownership' /\ heap \subseteq heap'
      /\ \A i \in DOMAIN v : ~Empty(v[i]) => i \in DOMAIN v' /\ v'[i] = v[i]
  <2>1. TableTypes /\ Ownership
    BY DEF IInv, TypeOK, TableTypes
  <2>2. CASE UNCHANGED <<v, epset, open, heap>>
    BY <2>1, <2>2 DEF TableTypes, Ownership, FdsOwned, HeapOwned, EpollIndexed, Empty, Client, Registered
  <2>3. CASE \E fd \in Fds \ open, s \in Sessions \ heap, g \in Garbage : Add(fd, s, g)
    BY <2>1, <2>3, AddKeepsOwnership
  <2> QED BY <2>2, <2>3 DEF Accept
<1>2. listeners' \subseteq listeners /\ UNCHANGED <<clients, pc, responding>> /\ pc = "events"
  BY DEF Accept
<1>3. EventsAimed'
  BY <1>1, <1>2, AddKeepsBatch DEF IInv, Ownership
<1>p. past' \in [Sessions -> Past]
  <2>1. ASSUME NEW s \in Sessions, NEW g \in Garbage, Remember([past EXCEPT ![s] = Newborn(g)])
        PROVE  past' \in [Sessions -> Past]
    <3>1. [past EXCEPT ![s] = Newborn(g)] \in [Sessions -> Past]
      BY NewbornType DEF IInv, TypeOK
    <3> QED BY <2>1, <3>1, RememberType
  <2> QED BY <2>1 DEF Accept, IInv, TypeOK
<1>4. TypeOK'
  BY <1>1, <1>2, <1>p DEF IInv, TypeOK, TableTypes
<1> QED BY <1>1, <1>2, <1>3, <1>4 DEF IInv

(* Handling an event touches its own entry alone. *)
LEMMA ServePreserves == IInv /\ Serve => IInv'
<1> SUFFICES ASSUME IInv, Serve PROVE IInv'
  OBVIOUS
<1>1. PICK ev \in clients :
        /\ clients' = clients \ {ev}
        /\ \E state \in StatesAfter(ev) :
             /\ IF state = DIE THEN Remove(ev.n) ELSE Ctl(ev.n, state)
             /\ Respond(v[ev.n].session, state)
             /\ Returned(v[ev.n].session, state)
  BY DEF Serve
<1>s. PICK state \in StatesAfter(ev) :
        /\ IF state = DIE THEN Remove(ev.n) ELSE Ctl(ev.n, state)
        /\ Respond(v[ev.n].session, state)
        /\ Returned(v[ev.n].session, state)
  BY <1>1
<1>2. ev.n \in DOMAIN v /\ Client(v[ev.n])
  BY DEF IInv, EventsAimed
<1>3. state \in SUBSET Flags
  BY DEF StatesAfter, ReadStates, WriteStates, READING, WRITING, DIE, Flags
<1>4. TableTypes /\ Ownership
  BY DEF IInv, TypeOK, TableTypes
<1>5. /\ TableTypes' /\ Ownership'
      /\ DOMAIN v' = DOMAIN v
      /\ \A i \in DOMAIN v \ {ev.n} : v'[i] = v[i]
  <2>1. CASE Remove(ev.n)
    BY <1>2, <1>4, <2>1, RemoveKeepsOwnership DEF Remove
  <2>2. CASE Ctl(ev.n, state)
    BY <1>2, <1>3, <1>4, <2>2, CtlKeepsOwnership
  <2> QED BY <1>s, <2>1, <2>2
<1>6. EventsAimed'
  <2>1. \A f \in clients' : f \in clients /\ f.n # ev.n
    BY <1>1 DEF IInv, EventsAimed
  <2>2. listeners' = {}
    BY DEF Serve
  <2> QED BY <1>5, <2>1, <2>2 DEF IInv, EventsAimed, Client
<1>p. past' \in [Sessions -> Past]
  <2>1. v[ev.n].session \in Sessions /\ state \in {READING, WRITING, DIE}
    BY <1>2, <1>4, EntryTyped DEF TableTypes, StatesAfter, ReadStates, WriteStates
  <2> QED BY <1>s, <2>1, ReturnedAdds DEF IInv, TypeOK
<1>7. TypeOK'
  BY <1>1, <1>s, <1>5, <1>p DEF IInv, TypeOK, TableTypes, Serve, Respond
<1> QED BY <1>5, <1>6, <1>7 DEF IInv, Serve

LEMMA AuditPreserves == IInv /\ Audit => IInv'
<1> SUFFICES ASSUME IInv, Audit PROVE IInv'
  OBVIOUS
<1>1. PICK R \in SUBSET {i \in DOMAIN v : Client(v[i])} : RemoveAll(R)
  BY DEF Audit, Reconsider
<1>2. TableTypes' /\ Ownership'
  <2>1. TableTypes /\ Ownership
    BY DEF IInv, TypeOK, TableTypes
  <2> QED BY <1>1, <2>1, RemoveKeepsOwnership
<1>3. clients' = {} /\ listeners' = {} /\ pc' = "wait" /\ responding' \subseteq heap'
  BY DEF Audit
<1>4. EventsAimed'
  BY <1>3 DEF EventsAimed
<1>p. past' \in [Sessions -> Past]
  BY RememberType DEF Audit, IInv, TypeOK
<1>5. TypeOK'
  BY <1>2, <1>3, <1>p DEF TypeOK, TableTypes
<1> QED BY <1>2, <1>3, <1>4, <1>5 DEF IInv

LEMMA NextPreserves == IInv /\ [Next]_vars => IInv'
<1> SUFFICES ASSUME IInv, [Next]_vars PROVE IInv'
  OBVIOUS
<1>1. CASE UNCHANGED vars
  BY <1>1 DEF vars, IInv, TypeOK, Ownership, FdsOwned, HeapOwned, EpollIndexed, EventsAimed,
              Empty, Client, Listening, Registered
<1> QED BY <1>1, StartPreserves, WaitPreserves, AcceptPreserves, ServePreserves, AuditPreserves
        DEF Next

LEMMA InvariantHolds == Spec => []IInv
BY InitEstablishes, NextPreserves, PTL DEF Spec

(* Every variable of the loop has its type, for any number of descriptors  *)
(* and sessions.                                                           *)
THEOREM TypeCorrect == Spec => []TypeOK
<1>1. IInv => TypeOK
  BY DEF IInv
<1> QED BY <1>1, InvariantHolds, PTL

(* No descriptor is leaked, shared or used after close. *)
THEOREM DescriptorsOwned == Spec => []FdsOwned
<1>1. IInv => FdsOwned
  BY DEF IInv, Ownership
<1> QED BY <1>1, InvariantHolds, PTL

(* The number epoll holds for a descriptor is the index of its entry, and  *)
(* every entry's descriptor is watched.                                    *)
THEOREM EntriesIndexed == Spec => []EpollIndexed
<1>1. IInv => EpollIndexed
  BY DEF IInv, Ownership
<1> QED BY <1>1, InvariantHolds, PTL

(* No session is leaked, shared or used after delete. *)
THEOREM SessionsOwned == Spec => []HeapOwned
<1>1. IInv => HeapOwned
  BY DEF IInv, Ownership
<1> QED BY <1>1, InvariantHolds, PTL

(* Every event is delivered to the session it was reported for. *)
THEOREM EventsReachTheirSession == Spec => []EventsAimed
<1>1. IInv => EventsAimed
  BY DEF IInv
<1> QED BY <1>1, InvariantHolds, PTL
-----------------------------------------------------------------------------
(* What the cached events of an entry, those the kernel was told, the      *)
(* session's mode and what is remembered of it have to do with each other. *)
(* Garbage apart, the cache says WRITING exactly when the kernel does, so  *)
(* skipping a MOD is safe; garbage is still there only while the session   *)
(* has returned nothing, or nothing but WRITING, which it was.             *)
Fresh(p) == p.born = WRITING /\ ~p.told

InterestOf(e, watched, p) ==
  /\ p.born \in Garbage
  /\ IF e.session \in responding
       THEN /\ e.events = WRITING
            /\ watched = WRITING \/ (watched = READING /\ Fresh(p) /\ p.asked = {WRITING})
       ELSE /\ watched = READING
            /\ e.events # WRITING \/ (Fresh(p) /\ p.asked = {})

InterestInv ==
  \A i \in DOMAIN v : Client(v[i]) => InterestOf(v[i], epset[v[i].fd].events, past[v[i].session])

LEMMA AddKeepsInterest ==
  ASSUME TableTypes, Ownership, InterestInv,
         responding \subseteq heap, responding' = responding,
         NEW fd \in Fds \ open,
         NEW s \in (Sessions \ heap) \cup {NoSession},
         NEW g \in Garbage,
         Add(fd, s, g),
         \A t \in heap : past'[t] = past[t],
         s \in heap' => past'[s] = Newborn(g)
  PROVE  InterestInv'
<1> USE ServerAssumption DEF TableTypes
<1>0. /\ Slot \in Nat \ {0}
      /\ Slot \in DOMAIN v => Empty(v[Slot])
  BY SlotIsFree
<1>1. CASE /\ v' = Insert([events |-> g, fd |-> fd, session |-> s])
           /\ epset' = [epset EXCEPT ![fd] = [n |-> Slot, events |-> {"IN"}]]
           /\ heap' = heap \cup ({s} \cap Sessions)
  <2> DEFINE e == [events |-> g, fd |-> fd, session |-> s]
  <2>2. e \in EntryType
    BY DEF EntryType
  <2>3. /\ DOMAIN v' = DOMAIN v \cup {Slot}
        /\ v'[Slot] = e
        /\ \A i \in DOMAIN v \ {Slot} : v'[i] = v[i]
    BY <1>1, <2>2, InsertSetsSlot
  <2>4. epset'[fd].events = READING /\ \A f \in Fds \ {fd} : epset'[f] = epset[f]
    BY <1>1 DEF READING
  <2>5. ASSUME NEW i \in DOMAIN v', Client(v'[i]), i # Slot
        PROVE  /\ i \in DOMAIN v /\ v'[i] = v[i] /\ epset'[v'[i].fd] = epset[v[i].fd]
               /\ Client(v[i]) /\ past'[v'[i].session] = past[v[i].session]
    <3>1. i \in DOMAIN v /\ v'[i] = v[i] /\ Client(v[i])
      BY <2>3, <2>5
    <3>2. v[i].fd \in open /\ v[i].session \in heap
      BY <3>1 DEF Ownership, HeapOwned, FdsOwned
    <3> QED BY <2>4, <3>1, <3>2
  <2>6. ASSUME NEW i \in DOMAIN v', Client(v'[i]), i = Slot
        PROVE  InterestOf(v[i], epset[v[i].fd].events, past[v[i].session])'
    <3>1. s \in Sessions /\ s \in heap' /\ s \notin responding
      BY <1>1, <2>3, <2>6 DEF Client
    <3>2. v'[i].session = s /\ v'[i].events = g /\ epset'[v'[i].fd].events = READING
      BY <2>3, <2>4, <2>6
    <3>3. past'[s].born = g /\ past'[s].asked = {} /\ ~past'[s].told
      BY <3>1 DEF Newborn
    <3> QED BY <3>1, <3>2, <3>3 DEF InterestOf, Fresh
  <2>7. ASSUME NEW i \in DOMAIN v', Client(v'[i])
        PROVE  InterestOf(v[i], epset[v[i].fd].events, past[v[i].session])'
    <3>1. CASE i = Slot
      BY <2>6, <2>7, <3>1
    <3>2. CASE i # Slot
      BY <2>5, <2>7, <3>2 DEF InterestInv, InterestOf
    <3> QED BY <3>1, <3>2
  <2> QED BY <2>7 DEF InterestInv, Client
<1>2. CASE v' = Insert(NoEntry) /\ UNCHANGED <<epset, open, heap>>
  <2>1. NoEntry \in EntryType /\ ~Client(NoEntry)
    BY DEF NoEntry, EntryType, Client
  <2>2. /\ DOMAIN v' = DOMAIN v \cup {Slot}
        /\ v'[Slot] = NoEntry
        /\ \A i \in DOMAIN v \ {Slot} : v'[i] = v[i]
    BY <1>2, <2>1, InsertSetsSlot
  <2>3. ASSUME NEW i \in DOMAIN v', Client(v'[i])
        PROVE  /\ i \in DOMAIN v /\ v'[i] = v[i] /\ Client(v[i])
               /\ past'[v[i].session] = past[v[i].session]
    BY <2>1, <2>2, <2>3 DEF Ownership, HeapOwned
  <2>4. ASSUME NEW i \in DOMAIN v', Client(v'[i])
        PROVE  InterestOf(v[i], epset[v[i].fd].events, past[v[i].session])'
    <3>1. v'[i] = v[i] /\ past'[v'[i].session] = past[v[i].session] /\ epset' = epset
      BY <1>2, <2>3, <2>4
    <3>2. InterestOf(v[i], epset[v[i].fd].events, past[v[i].session])
      BY <2>3, <2>4 DEF InterestInv
    <3> QED BY <3>1, <3>2 DEF InterestOf
  <2> QED BY <2>4 DEF InterestInv, Client
<1> QED BY <1>1, <1>2 DEF Add

(* Removal leaves the registrations of other entries alone. *)
LEMMA RemoveKeepsOthers ==
  ASSUME TableTypes, Ownership,
         NEW R \in SUBSET {i \in DOMAIN v : Client(v[i])},
         RemoveAll(R),
         NEW i \in DOMAIN v', Client(v'[i])
  PROVE  /\ i \in DOMAIN v \ R /\ v'[i] = v[i] /\ Client(v[i])
         /\ epset'[v'[i].fd] = epset[v[i].fd]
         /\ v[i].session \in heap'
<1>1. i \in DOMAIN v \ R /\ v'[i] = v[i] /\ Client(v[i])
  BY DEF RemoveAll, NoEntry, Client
<1>2. v[i].fd \notin {v[j].fd : j \in R}
  BY <1>1 DEF Ownership, FdsOwned, HeapOwned
<1>3. v[i].fd \in Fds
  BY <1>1, EntryTyped DEF TableTypes, Ownership, HeapOwned
<1>4. v[i].session \in heap'
  BY <1>1 DEF Ownership, HeapOwned, RemoveAll
<1> QED BY <1>1, <1>2, <1>3, <1>4 DEF RemoveAll

LEMMA ServeKeepsInterest ==
  ASSUME IInv, InterestInv, Serve
  PROVE  InterestInv'
<1>1. PICK ev \in clients :
        \E state \in StatesAfter(ev) :
             /\ IF state = DIE THEN Remove(ev.n) ELSE Ctl(ev.n, state)
             /\ Respond(v[ev.n].session, state)
             /\ Returned(v[ev.n].session, state)
  BY DEF Serve
<1>2. PICK state \in StatesAfter(ev) :
        /\ IF state = DIE THEN Remove(ev.n) ELSE Ctl(ev.n, state)
        /\ Respond(v[ev.n].session, state)
        /\ Returned(v[ev.n].session, state)
  BY <1>1
<1> DEFINE n == ev.n
           s == v[n].session
<1>3. n \in DOMAIN v /\ Client(v[n])
  BY DEF IInv, EventsAimed
<1>4. TableTypes /\ Ownership
  BY DEF IInv, TypeOK, TableTypes
<1>5. \A t \in heap' : t # s => (t \in responding' <=> t \in responding)
  BY <1>2 DEF Respond
<1>p. /\ \A t \in Sessions \cap heap' : t # s => past'[t] = past[t]
      /\ s \in heap' =>
           /\ past'[s].born = past[s].born
           /\ past'[s].asked = past[s].asked \cup ({state} \ {DIE})
           /\ past'[s].told <=> past[s].told \/ epset' # epset
  <2>1. s \in Sessions /\ state \in {READING, WRITING, DIE}
    BY <1>3, <1>4, EntryTyped DEF TableTypes, StatesAfter, ReadStates, WriteStates
  <2> HIDE DEF s
  <2> QED BY <1>2, <2>1, ReturnedAdds DEF IInv, TypeOK, s
<1>6. CASE Remove(n)
  <2>1. ASSUME NEW i \in DOMAIN v', Client(v'[i])
        PROVE  /\ i \in DOMAIN v /\ v'[i] = v[i] /\ Client(v[i])
               /\ epset'[v'[i].fd] = epset[v[i].fd]
               /\ v[i].session \in responding' <=> v[i].session \in responding
               /\ past'[v[i].session] = past[v[i].session]
    <3>1. /\ i \in DOMAIN v \ {n} /\ v'[i] = v[i] /\ Client(v[i])
          /\ epset'[v'[i].fd] = epset[v[i].fd]
          /\ v[i].session \in heap'
      BY <1>3, <1>4, <1>6, <2>1, RemoveKeepsOthers DEF Remove
    <3>2. v[i].session # s /\ v[i].session \in Sessions
      BY <1>3, <1>4, <3>1, EntryTyped DEF TableTypes, Ownership, HeapOwned
    <3> QED BY <1>5, <1>p, <3>1, <3>2
  <2>2. ASSUME NEW i \in DOMAIN v', Client(v'[i])
        PROVE  InterestOf(v[i], epset[v[i].fd].events, past[v[i].session])'
    <3>1. InterestOf(v[i], epset[v[i].fd].events, past[v[i].session])
      BY <2>1, <2>2 DEF InterestInv
    <3> QED BY <2>1, <2>2, <3>1 DEF InterestOf
  <2> QED BY <2>2 DEF InterestInv, Client
<1>7. CASE /\ state \in {READING, WRITING} /\ heap' = heap
           /\ \/ state = v[n].events /\ UNCHANGED <<v, epset>>
              \/ /\ state # v[n].events
                 /\ v' = [v EXCEPT ![n].events = state]
                 /\ epset' = [epset EXCEPT ![v[n].fd].events = state]
  <2>1. v[n].fd \in Fds /\ epset[v[n].fd] \in Registration /\ v[n] \in EntryType
        /\ s \in heap
    BY <1>3, <1>4, EntryTyped DEF TableTypes, Ownership, HeapOwned
  <2>2. s \in responding' <=> state = WRITING
    BY <1>2, <1>7, <2>1 DEF Respond
  <2>3. READING # WRITING
    BY DEF READING, WRITING
  <2>4. /\ DOMAIN v' = DOMAIN v
        /\ v'[n].events = state /\ v'[n].fd = v[n].fd /\ v'[n].session = s
        /\ \A i \in DOMAIN v \ {n} : v'[i] = v[i]
    <3>1. CASE v' = [v EXCEPT ![n].events = state]
      <4>1. v'[n] = [v[n] EXCEPT !.events = state]
        BY <1>3, <3>1
      <4>2. v'[n].events = state /\ v'[n].fd = v[n].fd /\ v'[n].session = s
        BY <2>1, <4>1 DEF EntryType
      <4> QED BY <3>1, <4>2
    <3> QED BY <1>7, <3>1
  <2>5. /\ \A f \in Fds \ {v[n].fd} : epset'[f] = epset[f]
        /\ \/ state # v[n].events /\ epset'[v[n].fd].events = state
           \/ state = v[n].events /\ epset' = epset
    <3>1. CASE UNCHANGED epset /\ state = v[n].events
      BY <3>1
    <3>2. CASE epset' = [epset EXCEPT ![v[n].fd].events = state] /\ state # v[n].events
      <4>1. epset'[v[n].fd] = [epset[v[n].fd] EXCEPT !.events = state]
        BY <1>4, <2>1, <3>2 DEF TableTypes
      <4>2. epset'[v[n].fd].events = state
        BY <2>1, <4>1 DEF Registration
      <4> QED BY <1>4, <1>7, <2>1, <3>2, <4>2 DEF TableTypes
    <3> QED BY <1>7, <3>1, <3>2
  <2>6. ASSUME NEW i \in DOMAIN v \ {n}, Client(v[i])
        PROVE  /\ v[i].fd \in Fds \ {v[n].fd}
               /\ v[i].session \in responding' <=> v[i].session \in responding
               /\ past'[v[i].session] = past[v[i].session]
    <3>1. v[i].fd \in Fds /\ v[i].session \in Sessions
      BY <1>4, <2>6, EntryTyped DEF TableTypes, Ownership, HeapOwned
    <3>2. v[i].fd # v[n].fd /\ v[i].session # s /\ v[i].session \in heap
      BY <1>3, <1>4, <2>6 DEF Ownership, HeapOwned, FdsOwned
    <3> QED BY <1>5, <1>7, <1>p, <3>1, <3>2
  <2>7. ASSUME NEW i \in DOMAIN v \ {n}, Client(v[i])
        PROVE  InterestOf(v[i], epset[v[i].fd].events, past[v[i].session])'
    BY <2>4, <2>5, <2>6, <2>7 DEF InterestInv, InterestOf
  <2>8. InterestOf(v[n], epset[v[n].fd].events, past[v[n].session])'
    <3>1. state # DIE /\ s \in heap'
      BY <1>7, <2>1 DEF READING, WRITING, DIE
    <3>2. /\ past'[s].born = past[s].born /\ past'[s].asked = past[s].asked \cup {state}
          /\ past'[s].told <=> past[s].told \/ epset' # epset
      BY <1>p, <3>1
    <3>3. InterestOf(v[n], epset[v[n].fd].events, past[s])
      BY <1>3 DEF InterestInv
    <3>4. CASE state = READING
      <4>1. epset'[v[n].fd].events = READING
        BY <2>3, <2>5, <3>3, <3>4 DEF InterestOf
      <4> QED BY <2>2, <2>3, <2>4, <3>2, <3>3, <3>4, <4>1 DEF InterestOf
    <3>5. CASE state = WRITING /\ epset'[v[n].fd].events = WRITING
      BY <2>2, <2>4, <3>2, <3>3, <3>5 DEF InterestOf
    <3>6. CASE state = WRITING /\ epset'[v[n].fd].events # WRITING
      <4>1. v[n].events = WRITING /\ epset' = epset
        BY <2>5, <3>6
      <4>2. epset[v[n].fd].events = READING /\ Fresh(past[s]) /\ past[s].asked \subseteq {WRITING}
        BY <3>3, <3>6, <4>1 DEF InterestOf
      <4>3. Fresh(past'[s]) /\ past'[s].asked = {WRITING}
        BY <3>2, <3>6, <4>1, <4>2 DEF Fresh
      <4> QED BY <2>2, <2>4, <3>2, <3>3, <3>6, <4>1, <4>2, <4>3 DEF InterestOf
    <3> QED BY <1>7, <3>4, <3>5, <3>6
  <2> QED BY <1>3, <2>4, <2>7, <2>8 DEF InterestInv, Client
<1> QED
  <2>1. state \in {READING, WRITING, DIE}
    BY DEF StatesAfter, ReadStates, WriteStates
  <2> QED BY <1>2, <1>6, <1>7, <2>1 DEF Ctl

LEMMA InterestPreserved == IInv /\ InterestInv /\ [Next]_vars => InterestInv'
<1> SUFFICES ASSUME IInv, InterestInv, [Next]_vars PROVE InterestInv'
  OBVIOUS
<1>0. TableTypes /\ Ownership /\ responding \subseteq heap
  BY DEF IInv, TypeOK, TableTypes
<1>1. CASE UNCHANGED <<v, epset, responding, past>>
  BY <1>1 DEF InterestInv, InterestOf, Client
<1>2. CASE Start
  <2>1. Lfd \in Fds \ open
    BY <1>2, ServerAssumption DEF IInv, Start
  <2>2. NoSession \notin heap'
    BY <1>0, <1>2, ServerAssumption DEF Start, Add, TableTypes
  <2> QED BY <1>0, <1>2, <2>1, <2>2, AddKeepsInterest DEF Start
<1>3. CASE Accept
  <2>1. ASSUME NEW fd \in Fds \ open, NEW s \in Sessions \ heap, NEW g \in Garbage,
               Add(fd, s, g), Remember([past EXCEPT ![s] = Newborn(g)])
        PROVE  InterestInv'
    <3>1. past \in [Sessions -> Past] /\ heap \subseteq heap' /\ heap \subseteq Sessions
      BY <1>0, <2>1, AddKeepsOwnership DEF IInv, TypeOK
    <3>2. (\A t \in heap : past'[t] = past[t]) /\ (s \in heap' => past'[s] = Newborn(g))
      BY <2>1, <3>1 DEF Remember
    <3> QED BY <1>0, <1>3, <2>1, <3>2, AddKeepsInterest DEF Accept
  <2> QED BY <1>1, <1>3, <2>1 DEF Accept
<1>4. CASE Serve
  BY <1>4, ServeKeepsInterest
<1>5. CASE Audit
  <2>1. PICK R \in SUBSET {i \in DOMAIN v : Client(v[i])} : RemoveAll(R)
    BY <1>5 DEF Audit, Reconsider
  <2>2. responding' = responding \cap heap'
    BY <1>5 DEF Audit
  <2>3. ASSUME NEW i \in DOMAIN v', Client(v'[i])
        PROVE  /\ i \in DOMAIN v /\ v'[i] = v[i] /\ Client(v[i])
               /\ epset'[v'[i].fd] = epset[v[i].fd]
               /\ v[i].session \in responding' <=> v[i].session \in responding
               /\ past'[v[i].session] = past[v[i].session]
    <3>1. /\ i \in DOMAIN v \ R /\ v'[i] = v[i] /\ Client(v[i])
          /\ epset'[v'[i].fd] = epset[v[i].fd]
          /\ v[i].session \in heap'
      BY <1>0, <2>1, <2>3, RemoveKeepsOthers
    <3>2. v[i].session \in Sessions
      BY <1>0, <3>1, EntryTyped DEF TableTypes
    <3>3. past'[v[i].session] = past[v[i].session]
      BY <1>5, <3>1, <3>2 DEF Audit, Remember
    <3> QED BY <2>2, <3>1, <3>3
  <2> QED BY <2>3 DEF InterestInv, InterestOf, Client
<1>6. CASE Wait
  BY <1>1, <1>6 DEF Wait
<1>7. CASE UNCHANGED vars
  BY <1>1, <1>7 DEF vars
<1> QED BY <1>2, <1>3, <1>4, <1>5, <1>6, <1>7 DEF Next

LEMMA InterestHolds == Spec => []InterestInv
<1>1. Init => InterestInv
  BY DEF Init, ServerInit, InterestInv
<1> QED BY <1>1, InvariantHolds, InterestPreserved, PTL DEF Spec

(* Whatever Entry::events starts as, the kernel watches a session for      *)
(* something else than it asked for only if its own entry started as       *)
(* WRITING, it is the first change it asks for, and ctl() has not told the *)
(* kernel anything about it yet.                                           *)
THEOREM OneWayToMiss == Spec => []OnlyFirstMissed
<1>1. InterestInv => OnlyFirstMissed
  <2> SUFFICES ASSUME InterestInv, NEW i \in DOMAIN v, Client(v[i])
               PROVE  LET s       == v[i].session
                          watched == epset[v[i].fd].events
                          wanted  == IF s \in responding THEN WRITING ELSE READING
                      IN  watched # wanted =>
                            /\ past[s].born = WRITING
                            /\ past[s].asked = {WRITING} /\ watched = READING
                            /\ ~past[s].told
    BY DEF OnlyFirstMissed
  <2>1. InterestOf(v[i], epset[v[i].fd].events, past[v[i].session])
    BY DEF InterestInv
  <2> QED BY <2>1 DEF InterestOf, Fresh
<1> QED BY <1>1, InterestHolds, PTL

(* If no uninitialised Entry::events happens to say WRITING, the kernel    *)
(* always watches a session for what the session asked for.  The           *)
(* hypothesis is what the constructors fail to guarantee.                  *)
THEOREM InterestFollowsSession ==
  ASSUME WRITING \notin Garbage
  PROVE  Spec => []InterestMatches
<1>1. InterestInv => InterestMatches
  BY DEF InterestInv, InterestOf, Fresh, InterestMatches
<1> QED BY <1>1, InterestHolds, PTL
-----------------------------------------------------------------------------
(* A new slot is made only when every slot holds a descriptor, and the one *)
(* being added is yet another.                                             *)
LEMMA AddKeepsBound ==
  ASSUME IsFiniteSet(Fds), TableTypes, Ownership, TableBound,
         NEW fd \in Fds \ open, NEW s, NEW g, Add(fd, s, g)
  PROVE  TableBound'
<1> USE ServerAssumption DEF TableTypes
<1>1. \E e : v' = Insert(e)
  BY DEF Add
<1>2. CASE Slot \in DOMAIN v
  BY <1>1, <1>2 DEF Insert, TableBound
<1>3. CASE Slot \notin DOMAIN v
  <2>1. \A i \in DOMAIN v : ~Empty(v[i])
    <3>1. CASE FreeSlots = {}
      BY <3>1 DEF FreeSlots
    <3>2. CASE FreeSlots # {}
      <4>1. FreeSlots \in SUBSET Nat /\ FreeSlots \subseteq DOMAIN v
        BY DEF FreeSlots
      <4>2. Slot \in FreeSlots
        BY <3>2, <4>1, LeastElement DEF Slot
      <4> QED BY <1>3, <4>1, <4>2
    <3> QED BY <3>1, <3>2
  <2> DEFINE f == [i \in 1 .. Len(v) |-> v[i].fd]
             T == Fds \ {fd}
  <2>2. \A i \in DOMAIN v : v[i].fd \in T
    BY <2>1 DEF Ownership, FdsOwned
  <2>3. f \in Injection(1 .. Len(v), T)
    BY <2>1, <2>2 DEF Ownership, FdsOwned, Injection, IsInjective
  <2>4. IsFiniteSet(T) /\ Cardinality(T) = Cardinality(Fds) - 1 /\ Cardinality(Fds) \in Nat
    BY FS_RemoveElement, FS_CardinalityType
  <2>5. Len(v) \in Nat /\ Cardinality(1 .. Len(v)) = Len(v)
    <3>1. Len(v) \in Nat
      OBVIOUS
    <3> QED BY <3>1, FS_Interval
  <2>6. Len(v) <= Cardinality(T)
    <3> HIDE DEF f, T
    <3> QED BY <2>3, <2>4, <2>5, FS_Injection
  <2>7. Len(v') = Len(v) + 1
    BY <1>1, <1>3 DEF Insert
  <2> QED BY <2>4, <2>5, <2>6, <2>7 DEF TableBound
<1> QED BY <1>2, <1>3

LEMMA BoundPreserved ==
  ASSUME IsFiniteSet(Fds)
  PROVE  IInv /\ TableBound /\ [Next]_vars => TableBound'
<1> SUFFICES ASSUME IInv, TableBound, [Next]_vars PROVE TableBound'
  OBVIOUS
<1>0. TableTypes /\ Ownership
  BY DEF IInv, TypeOK, TableTypes
<1>1. CASE UNCHANGED v
  BY <1>1 DEF TableBound
<1>2. ASSUME NEW R, RemoveAll(R) PROVE TableBound'
  BY <1>0, <1>2 DEF RemoveAll, TableTypes, TableBound
<1>3. CASE Start
  BY <1>0, <1>3, ServerAssumption, AddKeepsBound DEF IInv, Start
<1>4. CASE Accept
  BY <1>0, <1>1, <1>4, AddKeepsBound DEF Accept
<1>5. CASE Serve
  <2>1. PICK ev \in clients : \E state \in StatesAfter(ev) : Remove(ev.n) \/ Ctl(ev.n, state)
    BY <1>5 DEF Serve
  <2>2. ASSUME NEW state, v' = [v EXCEPT ![ev.n].events = state] PROVE TableBound'
    BY <1>0, <2>2 DEF TableTypes, TableBound
  <2> QED BY <1>1, <1>2, <2>1, <2>2 DEF Ctl, Remove
<1>6. CASE Audit
  BY <1>2, <1>6 DEF Audit, Reconsider
<1>7. CASE Wait
  BY <1>1, <1>7 DEF Wait
<1> QED BY <1>1, <1>3, <1>4, <1>5, <1>6, <1>7 DEF Next, vars

(* The table never outgrows the descriptors the process can hold at once,  *)
(* however many connections come and go.                                   *)
THEOREM TableBounded ==
  ASSUME IsFiniteSet(Fds)
  PROVE  Spec => []TableBound
<1>1. Init => TableBound
  BY FS_CardinalityType DEF Init, ServerInit, TableBound
<1> QED BY <1>1, InvariantHolds, BoundPreserved, PTL DEF Spec

-----------------------------------------------------------------------------
(* The listening socket's entry is there, without a session, or there is   *)
(* no entry at all: its number is never given to a client.                 *)
ListenerInv ==
  open # {} => \E i \in DOMAIN v : v[i].fd = Lfd /\ v[i].session = NoSession

LEMMA ListenerPreserved == IInv /\ ListenerInv /\ [Next]_vars => ListenerInv'
<1> SUFFICES ASSUME IInv, ListenerInv, [Next]_vars PROVE ListenerInv'
  OBVIOUS
<1>0. TableTypes /\ Ownership
  BY DEF IInv, TypeOK, TableTypes
<1>1. CASE UNCHANGED <<v, open>>
  BY <1>1 DEF ListenerInv
<1>2. ASSUME NEW R \in SUBSET {i \in DOMAIN v : Client(v[i])}, RemoveAll(R) PROVE ListenerInv'
  <2>1. open' \subseteq open
    BY <1>2 DEF RemoveAll
  <2> QED BY <1>0, <1>2, <2>1, RemoveKeepsOwnership DEF ListenerInv, Client
<1>3. CASE Start
  <2>1. CASE open' = open
    BY <1>3, <2>1 DEF IInv, Start, ListenerInv
  <2>2. CASE \E g \in Garbage : v' = Insert([events |-> g, fd |-> Lfd, session |-> NoSession])
    <3>1. PICK g \in Garbage : v' = Insert([events |-> g, fd |-> Lfd, session |-> NoSession])
      BY <2>2
    <3>2. [events |-> g, fd |-> Lfd, session |-> NoSession] \in EntryType
      BY ServerAssumption DEF EntryType
    <3> QED BY <1>0, <3>1, <3>2, InsertSetsSlot DEF TableTypes, ListenerInv
  <2> QED BY <1>3, <2>1, <2>2 DEF Start, Add
<1>4. CASE Accept
  <2>1. PICK ev \in listeners : ev.n \in DOMAIN v /\ Listening(v[ev.n])
    BY <1>4 DEF Accept, IInv, EventsAimed
  <2>2. open # {}
    BY <1>0, <2>1 DEF Ownership, FdsOwned, Listening, Empty
  <2>3. PICK i \in DOMAIN v : v[i].fd = Lfd /\ v[i].session = NoSession
    BY <2>2 DEF ListenerInv
  <2>4. ~Empty(v[i])
    BY <2>3, ServerAssumption DEF Empty
  <2>5. i \in DOMAIN v' /\ v'[i] = v[i]
    BY <1>0, <1>4, <2>4, AddKeepsOwnership DEF Accept
  <2> QED BY <2>3, <2>5 DEF ListenerInv
<1>5. CASE Serve
  <2>1. PICK ev \in clients : \E state \in StatesAfter(ev) : Remove(ev.n) \/ Ctl(ev.n, state)
    BY <1>5 DEF Serve
  <2>2. ev.n \in DOMAIN v /\ Client(v[ev.n])
    BY DEF IInv, EventsAimed
  <2>3. ASSUME NEW state, v' = [v EXCEPT ![ev.n].events = state], open' = open PROVE ListenerInv'
    BY <2>2, <2>3 DEF ListenerInv, Client
  <2> QED BY <1>1, <1>2, <2>1, <2>2, <2>3 DEF Ctl, Remove
<1>6. CASE Audit
  BY <1>2, <1>6 DEF Audit, Reconsider
<1>7. CASE Wait
  BY <1>1, <1>7 DEF Wait
<1> QED BY <1>1, <1>3, <1>4, <1>5, <1>6, <1>7 DEF Next, vars
LEMMA ListenerStep ==
  ASSUME IInv, ListenerInv, [Next]_vars, Registered(Lfd)
  PROVE  epset'[Lfd] = epset[Lfd] /\ v'[epset[Lfd].n].fd = Lfd
<1> DEFINE n == epset[Lfd].n
<1>0. TableTypes /\ Ownership /\ Lfd \in Fds
  BY ServerAssumption DEF IInv, TypeOK, TableTypes
<1>1. n \in DOMAIN v /\ v[n].fd = Lfd /\ ~Empty(v[n])
  BY <1>0, ServerAssumption DEF Ownership, EpollIndexed, Empty
<1>2. Lfd \in open
  BY <1>0, <1>1 DEF Ownership, FdsOwned
<1>3. ~Client(v[n])
  BY <1>0, <1>1, <1>2 DEF ListenerInv, Ownership, FdsOwned, Client
<1>4. CASE UNCHANGED <<v, epset>>
  BY <1>1, <1>4
<1>5. ASSUME NEW R \in SUBSET {i \in DOMAIN v : Client(v[i])}, RemoveAll(R)
      PROVE  epset'[Lfd] = epset[Lfd] /\ v'[n].fd = Lfd
  <2>1. Lfd \notin {v[i].fd : i \in R}
    BY <1>0, <1>1, <1>3 DEF Ownership, FdsOwned
  <2> QED BY <1>0, <1>1, <1>3, <1>5, <2>1 DEF RemoveAll
<1>6. CASE Start
  BY <1>2, <1>6 DEF IInv, Start
<1>7. CASE Accept
  <2>1. ASSUME NEW fd \in Fds \ open, NEW s \in Sessions \ heap, NEW g \in Garbage, Add(fd, s, g)
        PROVE  epset'[Lfd] = epset[Lfd] /\ v'[n].fd = Lfd
    <3>1. v'[n] = v[n]
      BY <1>0, <1>1, <2>1, AddKeepsOwnership
    <3>2. epset'[Lfd] = epset[Lfd]
      BY <1>0, <1>2, <2>1 DEF Add, TableTypes
    <3> QED BY <1>1, <3>1, <3>2
  <2> QED BY <1>4, <1>7, <2>1 DEF Accept
<1>8. CASE Serve
  <2>1. PICK ev \in clients : \E state \in StatesAfter(ev) : Remove(ev.n) \/ Ctl(ev.n, state)
    BY <1>8 DEF Serve
  <2>2. ev.n \in DOMAIN v /\ Client(v[ev.n])
    BY DEF IInv, EventsAimed
  <2>3. ASSUME NEW state, v' = [v EXCEPT ![ev.n].events = state],
               epset' = [epset EXCEPT ![v[ev.n].fd].events = state]
        PROVE  epset'[Lfd] = epset[Lfd] /\ v'[n].fd = Lfd
    <3>1. ev.n # n /\ v[ev.n].fd # Lfd
      BY <1>0, <1>1, <1>3, <2>2 DEF Ownership, FdsOwned
    <3> QED BY <1>0, <1>1, <2>3, <3>1 DEF TableTypes
  <2> QED BY <1>4, <1>5, <2>1, <2>2, <2>3 DEF Ctl, Remove
<1>9. CASE Audit
  BY <1>5, <1>9 DEF Audit, Reconsider
<1>10. CASE Wait
  BY <1>4, <1>10 DEF Wait
<1> QED BY <1>4, <1>6, <1>7, <1>8, <1>9, <1>10 DEF Next, vars

(* No step of the loop closes, moves or stops watching the listening       *)
(* socket once it is watched.                                              *)
THEOREM ListenerStays == Spec => ListenerKept
<1>1. Init => ListenerInv
  BY DEF Init, ServerInit, ListenerInv
<1>2. IInv /\ ListenerInv /\ [Next]_vars =>
        [Registered(Lfd) => /\ epset'[Lfd] = epset[Lfd]
                            /\ v'[epset[Lfd].n].fd = Lfd]_vars
  BY ListenerStep
<1> QED BY <1>1, <1>2, InvariantHolds, ListenerPreserved, PTL DEF Spec, ListenerKept
=============================================================================
