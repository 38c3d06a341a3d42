------------------------------- MODULE Session -------------------------------
(***************************************************************************)
(* One client's session: session.cc, with the TextReader it reads lines    *)
(* with, the RequestQueue, the Response in progress with the Backlog it    *)
(* writes through, and the History that counts responses.                  *)
(*                                                                         *)
(* What the client sends is a sequence of symbols, pieces of lines.  A     *)
(* line ends with Endline, CR LF, both of which are white space when they  *)
(* come alone.  The first word of a request's first line stands for the    *)
(* file asked for.  The k-th octet of the file t is the pair <<t, k>>.     *)
(*                                                                         *)
(* The loop calls read() in the state READING and write() in the state     *)
(* WRITING.  The module Connection drops that assumption.                  *)
(***************************************************************************)
EXTENDS RequestQueue, Subsequence

CONSTANTS
  Endline,     \* the line terminator
  Size,        \* the octets in the file a text names; 0 if there is no such file
  ReadSize,    \* the octets Response::write asks the file for
  Capacity,    \* the size of TextReader::buf, in symbols
  Streams,     \* what clients may send before they close or half-close
  NoResponse   \* the null pointer

Octet    == Text \X (Nat \ {0})
Response == [line : Line, pos : Nat, alive : BOOLEAN, err : BOOLEAN, backlog : Seq(Octet)]

ASSUME SessionAssumption ==
  /\ Endline \in Seq(Blank) \ {<<>>}
  /\ Size \in [Text -> Nat]
  /\ ReadSize \in Nat \ {0}
  /\ Capacity \in Nat \ {0}
  /\ Streams \subseteq Seq(Text)
  /\ NoResponse \notin Response

VARIABLES
  stream, got,  \* what the client sends, and how much of it was received
  buf, eof,     \* TextReader: received but not yet read as a line; eof_
  queue,        \* RequestQueue::val
  response,     \* the response in progress
  e,            \* History::e
  state,        \* what the last read() or write() returned; "LOST" if killed
  looping,      \* inside the loop of write()
  wire,         \* the octets the socket has accepted
  popped,       \* for the properties: the requests taken from the queue
  due           \* for the properties: what the responses ended should have sent

input  == <<stream, got, buf, eof>>
output == <<response, e, looping, wire, popped, due>>
vars   == <<input, queue, state, output>>
-----------------------------------------------------------------------------
(* std::search finds the first terminator, so a line holds one at its end  *)
(* and none before.                                                        *)
Ends(line) ==
  /\ Len(line) >= Len(Endline)
  /\ SubSeq(line, Len(line) - Len(Endline) + 1, Len(line)) = Endline

(* TextReader::read and RequestQueue::add until no line is left, octet by  *)
(* octet: the queue, and the unterminated line in the buffer.  (The CHOOSE *)
(* is from a set of one: TLC evaluates after[i - 1] once.)                 *)
Take(p, x) ==
  LET line == Append(p.line, x)
  IN IF Ends(line) THEN [queue |-> AddLine(p.queue, line), line |-> <<>>]
                   ELSE [queue |-> p.queue, line |-> line]

Drain(q, b) ==
  LET after[i \in 0 .. Len(b)] ==
        IF i = 0 THEN [queue |-> q, line |-> <<>>]
                 ELSE CHOOSE r \in {Take(p, b[i]) : p \in {after[i - 1]}} : TRUE
  IN after[Len(b)]

(* What would break TypeOK: counting octets from 0. *)
OctetsFromZero(line, from, to) == [k \in 1 .. to - from |-> <<Word(line), from + k - 1>>]

(* The octets of a line's file from one position to another. *)
Octets(line, from, to) == [k \in 1 .. to - from |-> <<Word(line), from + k>>]

FileSize(line) == IF IsBlank(line) THEN 0 ELSE Size[Word(line)]

NewResponse(r) ==
  [line |-> r.line, pos |-> 0, alive |-> TRUE, err |-> FALSE, backlog |-> <<>>]
-----------------------------------------------------------------------------
Init ==
  /\ stream \in Streams /\ got = 0
  /\ buf = <<>> /\ eof = FALSE
  /\ queue = <<>> /\ response = NoResponse /\ e = 0
  /\ state = "READING" /\ looping = FALSE
  /\ wire = <<>> /\ popped = <<>> /\ due = <<>>

(* What would break HistoryMatches: not counting the response. *)
BeginUncounted(q, n) ==
  /\ response' = NewResponse(Head(q)) /\ e' = n
  /\ popped' = Append(popped, Head(q)) /\ queue' = Tail(q) /\ state' = "WRITING"

(* What would break Wakeable: going on to read. *)
BeginReading(q, n) ==
  /\ response' = NewResponse(Head(q)) /\ e' = n + 1
  /\ popped' = Append(popped, Head(q)) /\ queue' = Tail(q) /\ state' = "READING"

(* Pop the first request of the queue q and begin the response to it, n    *)
(* begun and ended responses being counted before.                         *)
Begin(q, n) ==
  /\ response' = NewResponse(Head(q))
  /\ e' = n + 1
  /\ popped' = Append(popped, Head(q))
  /\ queue' = Tail(q)
  /\ state' = "WRITING"

(* What would break SessionEnds: taking the end for a lack of input. *)
FeedOnly(n, end) ==
  ~end /\ Len(buf) < Capacity /\ n \in 0 .. Len(stream) - got /\ n <= Capacity - Len(buf)

(* recv(): some of what the client sent; or nothing yet; or the end of it. *)
(* An error counts as the end, and so does that there is no room for more. *)
Feed(n, end) ==
  \/ ~end /\ Len(buf) < Capacity /\ n \in 0 .. Len(stream) - got /\ n <= Capacity - Len(buf)
  \/ end /\ n = 0

(* What would break GracefulClose: heeding the end of input first. *)
AnswerableUnlessEof(q) == IsComplete(q) /\ ~IsBroken(q) /\ ~eof'

(* Whether read() takes up a request. *)
Answerable(q) == IsComplete(q) /\ ~IsBroken(q)

(* Session::read: feed once, read every line there is, and take up a       *)
(* request if there is no response in progress.  At the end of input an    *)
(* unterminated line counts as a line; a full buffer without a terminator  *)
(* counts as the end of input, but its contents not as a line.             *)
ReadOnce(n, end) ==
  /\ \E p \in {Drain(queue, buf \o SubSeq(stream, got + 1, got + n))} :
       LET tail == (eof \/ end) /\ p.line # <<>>
           q    == IF tail THEN AddLine(p.queue, p.line) ELSE p.queue
       IN /\ got' = got + n
          /\ buf' = IF tail THEN <<>> ELSE p.line
          /\ eof' = (eof \/ end \/ Len(p.line) = Capacity)
          /\ \/ /\ response = NoResponse /\ Answerable(q)
                /\ Begin(q, e)
             \/ /\ response # NoResponse \/ ~Answerable(q)
                /\ state' = CASE response # NoResponse -> "WRITING"
                              [] response = NoResponse /\ (IsBroken(q) \/ eof') -> "DIE"
                              [] OTHER -> "READING"
                /\ queue' = q
                /\ UNCHANGED <<response, e, popped>>
  /\ UNCHANGED <<stream, looping, wire, due>>

Read ==
  /\ state = "READING"
  /\ \E n \in 0 .. Capacity, end \in BOOLEAN : Feed(n, end) /\ ReadOnce(n, end)

(* What would break WireIsAnswers: the backlog swapped out and not written. *)
PendingNew(k) == Octets(response.line, response.pos, response.pos + k)

(* InputFd::read: how many octets it gets, if it succeeds or fails.        *)
Wanted(err) ==
  LET left == FileSize(response.line) - response.pos
  IN IF err \/ ~response.alive THEN 0 ELSE IF left < ReadSize THEN left ELSE ReadSize

(* What Response::write has for the socket: the backlog and k octets more. *)
Pending(k) == response.backlog \o Octets(response.line, response.pos, response.pos + k)

(* The response once it has read k octets of its file, or none because of  *)
(* the end or an error, and left the octets in rest unwritten.             *)
Advanced(k, err, rest) ==
  [response EXCEPT !.pos = @ + k, !.alive = @ /\ k > 0, !.err = @ \/ err, !.backlog = rest]

(* What would break AnsweredInFull: not waiting for the backlog. *)
DoneWithFile(k, rest) == k = 0

(* All of the file and of the backlog is written: filter.end() is true.    *)
IsDone(k, rest) == k = 0 /\ rest = <<>>

(* What would break CloseDrained: one response, and the session is over. *)
CloseAfterResponse == "DIE"

(* What write() returns once there is no response left. *)
AfterResponses == IF eof THEN "DIE" ELSE "READING"

(* One turn of the loop in Session::write.  The socket takes w octets of   *)
(* the backlog and the new ones.  If it takes all, either there is more    *)
(* to read, or the response is done and the next request taken up: unlike  *)
(* read(), write() does not look for broken ones.                          *)
WriteOnce(err, w) ==
  /\ LET k       == Wanted(err)
         pending == Pending(k)
         rest    == SubSeq(pending, w + 1, Len(pending))
     IN /\ w <= Len(pending)
        /\ wire' = wire \o SubSeq(pending, 1, w)
        /\ \/ /\ ~IsDone(k, rest)
              /\ response' = Advanced(k, err, rest)
              /\ looping' = (rest = <<>>)
              /\ UNCHANGED <<queue, state, e, popped, due>>
           \/ /\ IsDone(k, rest)
              /\ due' = due \o Octets(response.line, 0,
                   IF err \/ response.err THEN response.pos ELSE FileSize(response.line))
              /\ \/ /\ IsComplete(queue)
                    /\ Begin(queue, e + 1)
                    /\ looping' = TRUE
                 \/ /\ ~IsComplete(queue)
                    /\ response' = NoResponse
                    /\ state' = AfterResponses
                    /\ e' = e + 1
                    /\ looping' = FALSE
                    /\ UNCHANGED <<queue, popped>>
  /\ UNCHANGED input

Write ==
  /\ state = "WRITING"
  /\ \E err \in BOOLEAN : \E w \in 0 .. Len(Pending(Wanted(err))) : WriteOnce(err, w)

(* writev() fails, and the exception ends the session.                     *)
WriteFails ==
  /\ state = "WRITING"
  /\ state' = "LOST"
  /\ UNCHANGED <<input, queue, output>>

(* The audit finds that the session has been idle or busy for too long.    *)
Reconsider ==
  /\ state \in {"READING", "WRITING"} /\ ~looping
  /\ state' = "LOST"
  /\ UNCHANGED <<input, queue, output>>

Next == Read \/ Write \/ WriteFails \/ Reconsider

Spec == Init /\ [][Next]_vars

(* The loop calls read() and write() whenever the socket is ready, and the *)
(* client both sends or closes, and makes room for a response, in time.    *)
Fairness ==
  /\ WF_vars(Read /\ (got' # got \/ eof'))
  /\ WF_vars(Write /\ (wire' # wire \/ looping' \/ state' # "WRITING"))

FairSpec == Spec /\ Fairness
-----------------------------------------------------------------------------
TypeOK ==
  /\ stream \in Streams /\ got \in 0 .. Len(stream)
  /\ buf \in Line /\ eof \in BOOLEAN
  /\ queue \in Seq(Request)
  /\ response \in Response \cup {NoResponse}
  /\ e \in Nat
  /\ state \in {"READING", "WRITING", "DIE", "LOST"}
  /\ looping \in BOOLEAN
  /\ wire \in Seq(Octet) /\ due \in Seq(Octet)
  /\ popped \in Seq(Request)

(* The requests one would read if all that was received came at once.      *)
Parsed == [s \in Streams |-> [n \in 0 .. Len(s) |-> Drain(<<>>, SubSeq(s, 1, n))]]

Received == Parsed[stream][got]

(* The same, with what is left counted as a line if it ended the input. *)
Heard == IF eof /\ buf = <<>> /\ Received.line # <<>>
           THEN AddLine(Received.queue, Received.line)
           ELSE Received.queue

(* However the input is cut into segments and however reading and taking   *)
(* up requests alternate, the session sees the requests that were sent:    *)
(* none lost, merged, split, reordered or taken twice (requestqueue.h:17). *)
RequestsIntact ==
  /\ popped \o queue = Heard
  /\ ~eof => buf = Received.line

(* The client gets the files it asked for, whole and in order, through     *)
(* short writes and leftovers in the backlog: what the socket took and the *)
(* backlog make up the responses ended and the part of the present one     *)
(* that has been read (filter.h:49-53).  Only an error when reading a file *)
(* cuts it short.                                                          *)
WireIsAnswers ==
  IF response = NoResponse
    THEN wire = due
    ELSE wire \o response.backlog = due \o Octets(response.line, 0, response.pos)

(* No wakeup is lost.  A session that waits for input has nothing left to  *)
(* do: no response, no complete request, no line it could read, not the    *)
(* end of the input, and room for more input.  A session that waits to     *)
(* write has a response.  (The table at session.cc:82-91.)                 *)
Wakeable ==
  /\ state = "READING" => /\ response = NoResponse /\ ~eof
                          /\ (queue # <<>> => ~Head(queue).complete)
                          /\ Drain(<<>>, buf).queue = <<>> /\ Len(buf) < Capacity
  /\ state = "WRITING" => response # NoResponse

(* A session that closes itself owes nothing: the client may half-close    *)
(* after its last request, even within the line that ends it, and every    *)
(* complete request is answered before the server closes - unless a broken *)
(* one is first in line.                                                   *)
GracefulClose ==
  state = "DIE" => /\ response = NoResponse
                   /\ queue # <<>> /\ Head(queue).complete => Head(queue).broken

(* The assertions in History hold: began() finds it idle, wrote() and      *)
(* ended() do not, and e counts begun and ended responses.                 *)
HistoryMatches ==
  /\ e % 2 = 1 <=> response # NoResponse
  /\ Len(popped) = (e + 1) \div 2

(* requestqueue.cc:28-31: a broken request "makes the whole session        *)
(* suspect"; no broken request is ever answered.                           *)
BrokenNeverAnswered == \A i \in DOMAIN popped : ~popped[i].broken

(* A session implements Pipeline. *)
Promise == INSTANCE Pipeline WITH
       asked  <- Only(Heard, Complete),
       begun  <- popped,
       ended  <- e \div 2,
       isOpen <- state \in {"READING", "WRITING"}

(* Requests are answered one at a time, in order, once each, only when     *)
(* complete, and not after the session has closed.                         *)
ImplementsPipeline == Promise!Spec

(* A client which does its part sees the session end, with every response  *)
(* written or the session killed: none stays open on a missed event.       *)
SessionEnds == <>(state \in {"DIE", "LOST"})
=============================================================================
