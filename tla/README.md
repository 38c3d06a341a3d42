# A TLA+ model of outnumbered

outnumbered is a single-process HTTP server: one thread, nonblocking client
sockets, level-triggered `epoll`. These modules model the parts that make it
correct or not: the table that ties descriptors, sessions and epoll together,
what one session does with the octets it receives and sends, and when a
session is killed for taking too long.

## The system

| Part | State | Operations | Modelled in |
|---|---|---|---|
| `Server` (`server.cc`) | the table `v` of entries (cached events, fd, `Session*`), the epoll set, the batch `ev` of the last `epoll_wait` | `add`, `remove`, `ctl`, `wait`, `reconsider` | `Server.tla` |
| event loop (`loop()` in `httpd.cc`) | where it is, the time of the turn | wait, accept, serve, audit | `EventLoop.tla`, for time `Reaper.tla` |
| `Session` (`session.cc`) | reader, request queue, response, history | `read`, `write`, `reconsider` | `Session.tla`; with its client and epoll `Connection.tla` |
| `TextReader` (`textread.cc`) | a buffer of 8000 octets, `eof_` | `feed` (one `recv`), `read` (one line) | in `Session.tla`: `Feed`, `Ends`, `Take`, `Drain` |
| `RequestQueue` (`requestqueue.cc`) | complete requests, perhaps followed by a partial one | `add`, `complete`, `broken`, `front`, `pop` | `RequestQueue.tla`; `Begin` in `Session.tla` |
| `Request` (`request.cc`), `Names` (`names.cc`) | URI and header values in one vector, their offsets; a table of names | `add` a line, `header`, `request_uri`; `lookup` | `Request.tla`; what a session acts on in `RequestQueue.tla` |
| `Response`, `InputFd`, `Backlog` through `Filter::Plain` | the file and its position, the octets the socket did not take | `write`, `done` | in `Session.tla`: `WriteOnce`, `Wanted`, `Pending` |
| `History` (`sessionhistory.cc`) | when the session began, last ended, began, wrote; a count | `began`, `wrote`, `ended`, `idle`, `wedged` | the stamps in `Reaper.tla`, the count in `Session.tla` |
| `Periodic` (`times.cc`) | the next deadline | `check` | `Reaper.tla` |
| times (`times.cc`) | | `operator-`, `>`, `<`, `+` | `Timespec.tla` |
| `Chunked`, `Zlib` (`filter.cc`), `Deflate` | a backlog at the bottom, the deflater's state, `ending` | `write`, `end`; `push`, `finish` | `Filters.tla` |
| `ResponseBuf` (`responsebuf.cc`) | a growing buffer, a mark in it | an `ostream`, `put_terminator`, `flush` | `ResponseBuf.tla` |
| `HeaderCache`, `Syslog`, `Blob`, `main`, `magic` | | | not modelled, see below |

The loop calls `wait()`, which sorts what epoll reports into listener events
and client events. For each listener event it accepts one connection and adds
it to the table; for each client event it calls `write()` or `read()` of the
session the event's index stands for, and then removes the entry or tells epoll
what the session wants next. Then, if a deadline has passed, every session is
asked whether it should die. Everything is a plain call; there is no second
thread and no signal handler. The concurrency is with the outside: the kernel
reuses descriptor numbers and reports events in any combination, clients send,
close and make room as they like, and every call may take part of what it was
given or fail.

What is hard in it, each with the properties it is covered by, is listed under
"hazards" in `PROJECT.json`. In short:

* *The table.* The numbers in a batch of events were given out before the
  batch is served; accepting reuses indices, and a failed call removes
  entries. Ownership of descriptors and sessions is by convention only.
* *The session.* Input comes cut anywhere, output goes out cut anywhere, the
  two alternate, and what is in the buffers is not reported by epoll again.
  The input may end at any point, before or after responses are in progress.
* *The connection.* Both directions are finite. The server does not read while
  it has a response to write, and the client may not read while it writes.
* *The request.* Values, continuations and repetitions are appended to a store
  which is addressed with 16 bits.
* *Time.* The audit is periodic and the loop may sleep past a deadline.

## The modules

### Server and EventLoop

`Server` has the state of the class and one operator per member function;
`EventLoop` extends it with the loop's control and one action per step:
`Start` (the listening socket), `Wait`, `Accept` (one listener event), `Serve`
(one client event), `Audit`. Listener events go first, since they do in the
code; within each kind the order of the batch is arbitrary, so the events are
sets. What is nondeterministic is what the outside decides: which descriptors
are ready, with which flags and how many of them fit in a batch; whether
`accept` succeeds and with which number; whether `epoll_ctl` fails; what a
session returns; which sessions the audit finds fit to die. A session is
reduced to whether it has a response (`responding`), which ties the states
`read()` and `write()` may return to each other.

`Entry::events` is read by `ctl()` before it is assigned (see the findings);
its first value is any member of the constant `Garbage`. The index in the
table counts from 1, and 0 stands for "not registered". `past` is a history variable:
what each entry's `events` started as, which states its session asked for, and whether
the kernel was told any of them. Nothing depends on it but `OnlyFirstMissed`.

| Property | Says | The code |
|---|---|---|
| `FdsOwned`, `HeapOwned` | no leak, no double close, no dangling session | `server.h:23-25` |
| `EpollIndexed` | epoll's number for a descriptor is its entry's index | `server.cc:195` uses it unchecked |
| `EventsAimed` | an event still to be served finds the session it was reported for | `server.cc:34`, `httpd.cc:144-148` |
| `InterestMatches` | the kernel watches for what the session wants | `server.cc:162-176` |
| `OnlyFirstMissed` | it does, unless this entry's `events` started as WRITING, WRITING is the first and only change asked for, and no MOD has been made: one change is missed at most, and none after a MOD | `server.cc:108-123, 162-176` |
| `TableBound` | slots are reused | `server.cc:20-30` |
| `ListenerKept` | no step disturbs the registered listening socket | `server.cc:227-234` |

### RequestQueue, Session and Pipeline

`Session` is one client's session with everything inside it. What a client
sends is a sequence of symbols: words, white space, CR and LF; a line ends with
CR LF, either of which is only white space when it comes alone, and may be cut
anywhere. A file is a number of octets, each distinct from all others.
`RequestQueue` has the requests as a session sees them: the first line, and
whether they are complete or broken. The actions are `Read` (the
whole of `Session::read`: one `recv` of any size, every line there is, and
perhaps the next request taken up), `Write` (one turn of the loop in
`Session::write`: one read of the file, one `writev` that takes any number of
octets, and at the end of a response perhaps the next one begun), `WriteFails`
(the exception), and `Reconsider` (the audit). `looping` says that `write()` has
not returned yet; the audit cannot come then. A `recv` error counts as the end
of the input, as it does in the code. `ReadOnce` and `WriteOnce` are what the two
functions do, whatever state they are called in; `Read` and `Write` add that the
loop calls them in the state READING or WRITING.

`wire`, `popped` and `due` are there for the properties: what the socket took,
which requests were taken up, and what the responses that ended should have sent.

`Pipeline` is what a session promises: requests are answered one at a time, in
order, once each, only when they are complete, and not after it has closed.
`Session` implements it with the complete requests in all that was received as
`asked` (`Only` selects them), the requests taken up as `begun`, half of `History::e` as `ended`.

| Property | Says | The code |
|---|---|---|
| `RequestsIntact` | the requests seen do not depend on how the input was cut | `textread.cc`, `requestqueue.h:16-20` |
| `WireIsAnswers` | the client gets the files whole and in order through short writes | `filter.cc:36-100`, `filter.h:49-53` |
| `Wakeable` | nothing is left to do that no event will announce | table at `session.cc:82-91` |
| `GracefulClose` | a session that closes itself owes nothing, unless to a broken request | `session.cc:103, 124-134` |
| `HistoryMatches` | the assertions in `History` hold | `sessionhistory.cc:26, 37, 47` |
| `ImplementsPipeline` | the refinement | `session.h:61-104` |
| `SessionEnds` | no session stays open for ever | |

### Connection

`Connection` extends `Session` with the two it lives between. The client sends
its stream, half-closes, reads what it is sent, or leaves; a greedy one writes all it
has to say before it reads. The sockets in between hold `InRoom` symbols one way and
`OutRoom` octets the other. The loop calls `ReadOnce` or `WriteOnce` for what epoll
watches for (`ServeRead`, `ServeWrite`), and `Ctl` tells epoll, through the cached
`Entry::events`, what the session wants next. As in the code, `recv` gets all there is
that fits, `writev` writes all there is room for, and a write to a client that
has gone fails.

| Property | Says | The code |
|---|---|---|
| `ImplementsSession` | `read()` and `write()` are called when `Session` assumes it, unless the first MOD was missed | `session.cc:67-69, 107-109` |
| `MissedIsMute` | a first MOD that is missed is never made up for | `server.cc:169` |
| `DeadlockOnlyByGreed` | both sides are stuck only if the client writes without reading and both ways are full | `TODO` |
| `CloseDrained` | the server reads all before it closes, so that the close does not reset the connection | `session.cc:103, 134` |
| `AnsweredInFull` | at that time all that was asked for was sent, in full | `session.h:61-104` |
| `Served` | a session ends, without the audit, or in the deadlock above | |

`CloseDrained` and `AnsweredInFull` are excused by a line that does not fit, a broken request, or a client
that is gone.

### Request

`Request` is fed line by line as `request.cc` is, with one operator per member
function, and keeps what it keeps: the vector `v`, and properties with offsets that
wrap at `Width`. Lines consist of words, blanks and separators. `seen` is what `RequestQueue`
makes of the same lines, for `SessionAgrees`. `fields` is the
reference for `HeadersRight`: the header fields by the grammar in the comments, without offsets,
kept line by line (`FirstField`, `MoreFields`). The names
are constants, and so is what the code prints for them, since `Names` makes its table
by printing.

| Property | Says | The code |
|---|---|---|
| `HeadersRight` | each header is found with its value, repetitions and continuations included, up to the last offset that fits | `request.cc:209-234` |
| `UriKept` | the URI can be asked for even of a broken or too large request, as `Session::write` does | `request.cc:192-206`, `response.cc:31` |
| `SessionAgrees` | `RequestQueue` is right in what it takes for complete and broken; it does not see that a request is too large | `request.cc:195` |

### ResponseBuf

`ResponseBuf` is the buffer that does dot-stuffing. `Stuffed` moves the text as
`put_terminator()` does, in place and from the last dot to the first; `Terminated` is
the reference. Once a flush has left something, nothing is put until all is flushed, as
the comments demand (`responsebuf.h:29-32`).

| Property | Says | The code |
|---|---|---|
| `WireRight` | what is written and what is to be written are the responses, each dot-stuffed and terminated | `responsebuf.cc:96-135` |
| `TerminatorFits` | there is room for the terminator and up to two more octets | `responsebuf.cc:102-113` |
| `Drained` | flushing ends with all written | `responsebuf.h:38` |

### Reaper

`Reaper` follows the clock, the audit's deadline, and one place which sessions
come and go in: when a session began to be idle or to respond (`since`), the
stamps `History` keeps of it, and what the audit makes of them. Time is in
whole units. `Timeout` is the longest between two readings of the clock: the
code sleeps at most 20 s in `epoll_wait`, and the time spent serving is taken
as none. It says that a session which is idle, or busy with one response, is
gone after less than `Limit + Period + Timeout` (10 + 20 + 20 s in the code),
never at `Limit` or before, and that audits do not drift. `times.cc` requires
that time does not run backwards (`times.cc:22`), and so does `Reaper`;
`CLOCK_REALTIME` may in fact be stepped.

### Timespec

`Timespec` extends `Reaper` with the operators of `times.cc` on pairs of seconds and
nanoseconds, and reads `Reaper`'s clock with them (`At`): a unit is a nanosecond, and the limits are
whole seconds. What the code computes with timespecs is then what `Reaper` has in plain numbers.

| Property | Says | The code |
|---|---|---|
| `MinusExact` | the time since any stamp is right to the nanosecond, normalised and not negative | `times.cc:21-37` |
| `LaterExact` | more than `s` seconds is what it says: the limits are sharp | `times.cc:40-47`, `sessionhistory.cc:53-82` |
| `DeadlineExact` | `Periodic` passes a deadline when `Reaper` does, and to the same next one | `times.cc:50-89` |

### Filters

`Filters` writes one response through one of the four chains of `filter.h:146-155`, the
way `filter.h:55-60` says: writes, perhaps flushes, then `end()` until it returns true.
The filters of a chain are composed as operators: `Put` is the `Backlog` at the bottom
(`writev` takes any number of tokens), `Frame` what `Chunked` makes of a blob, `Emits`
and `Rest` what comes out of the deflater, which may keep back any amount until
`finish()`. The output is a sequence of tokens: octets, deflated octets, and the marks
for chunks and ends. Blobs are never empty: that is what `Response::write` guarantees
(`response.cc:57-63`); `Chunked::write` does not look, and would make a last chunk of an
empty one. `Fail` ends the response and the filter with it, so what it leaves in the
backlog (`Backlog::write` has emptied it by then) does not matter.

| Property | Says | The code |
|---|---|---|
| `InOrder` | on the wire and in the backlog are the octets, once and in order | `filter.cc:61-139`, `filter.h:49-53` |
| `Framed` | chunks hold what they say, all octets are in chunks, and nothing comes behind a last chunk but others, not more in all than calls of `end()` | `filter.cc:149-166` |
| `EndedRight` | when `end()` returns true all is on the wire, the deflated stream ended once, the chunked coding at least once and not more often than `end()` was called | `filter.cc:160-217` |
| `TrueUnlessKept` | a call that returns true leaves no backlog, unless the deflater kept all that this call gave it and nothing else was touched | `filter.h:62-64`, `filter.cc:186` |
| `OneLastChunk` | a chunked response ends in one last chunk: violated | `filter.h:55-60, 105`, `filter.cc:161-166` |

The server uses `Plain` only, which is why `Session` has a simpler backlog of its own.

## The runs

| Run | Instance | Shows |
|---|---|---|
| `event_loop` | a listening socket, 3 client descriptors, 3 session addresses, batches of 2, garbage that is READING or WRITING | all of `EventLoop`'s properties but `InterestMatches` |
| `events` | 2 client descriptors, any garbage | **violated**: `InterestMatches` |
| `session` | all inputs of up to 5 pieces of lines and 4 halves of terminators, and longer ones with pipelining, broken requests, continuation lines, overlong lines | all of `Session`'s properties |
| `broken` | broken requests behind a good one | **violated**: no broken request is answered |
| `connection` | buffers of 5 symbols and 2 octets; up to three requests, broken, half-closed or overlong; any garbage | all of `Connection`'s properties |
| `reaper` | 3 nanoseconds in a second, limit 1 s, period 2 s, timeout 7 ns, time up to 19 ns | all of `Reaper`'s properties and `Timespec`'s |
| `wedged` | limit 2, period 4, timeout 4 | **violated**: a wedged session is one in which nothing has happened |
| `request` | up to 5 lines of 16, offsets of 12 values | all of `Request`'s properties |
| `uri` | the same lines after a good first line | **violated**: the URI is that of the first line |
| `filters` | all four chains, up to 4 octets in blobs of 1 or 2, up to 3 calls of `end` | all of `Filters`' properties but `OneLastChunk` |
| `lastchunk` | the same | **violated**: a chunked response has one last chunk |
| `responsebuf` | up to 4 pieces of text, 2 terminators, a first size of 10 | all of `ResponseBuf`'s properties |

Why the bounds are enough. *Event loop*: three clients and batches of two make
a batch with one ready descriptor left out, a slot freed by one event and reused
before another is served, and two sessions removed in one turn; descriptors and
addresses are interchangeable, so the runs use symmetry, the listening socket
apart. Garbage that is neither READING nor WRITING makes the first `ctl()` tell the kernel, as
WRITING does when READING is asked for and READING when WRITING is, and so adds no
behaviour. *Session*: a buffer of 10 symbols holds two requests and more, and is
filled by an overlong line, the terminator of one being cut by its end; a file of 3
octets read 2 at a time takes two reads and a third that finds the end, with a
backlog of every length in between; one of 1 octet and one of none are read
differently. *Connection*: the largest stream has more symbols than the
reader and the sockets hold together, and its answers more octets than the sockets
hold, so that the deadlock occurs; the others exercise the same with a client that
reads. *Reaper*: the timeout is longer
than the period, so that an audit can pass several deadlines, and 19 units hold
the life of several sessions and three deadlines, which fall within a second (`Epoch`), and
differences with every pair of fractions of one; `MaxTime` is only where
the clock stops. *Request*: the offsets are exhausted by three or four
header lines, which leaves room for a request that fits exactly and one that is one too
long; three lines make a header, a continuation and a repetition. *Filters*: four
octets in blobs of two make two chunks with
something kept back in between, and three calls of `end` a first that fails, a
second that adds to the backlog and a third that gets through. *ResponseBuf*: the first size is less than four pieces, or three and a terminator, so that
the buffer grows in either call; two terminators make a second response after a first
in the same buffer and after a flush.

`CHECK_DEADLOCK FALSE` is in the runs of `Session`, `Connection`, `Request`, `Filters` and
`ResponseBuf` only, where a session, a response or a request that has ended does nothing
more.

### Fairness

`Session!Fairness` has two parts, each weak
fairness. That `Read` takes more input or the end of it: epoll is level-triggered,
the loop serves every event it is given, and the client is assumed to send what it
has and to close or half-close in the end. That `Write` moves something, on the
wire or out of the loop: the client is assumed to make room. No fairness is
assumed of `WriteFails` or `Reconsider`, so that it is not the audit that makes
the sessions end. (What the audit does for a client that does not do its part is
`ReapedInTime`, a safety property.)

`Connection!ConnFairness` needs less of the client: it does each thing it can do
for ever, where a greedy one cannot read before it has written all. Both ends of
the server's part are weak fairness of serving a socket that epoll reports, for which
the loop and level-triggered epoll suffice. None is assumed of `Leave`.

`ResponseBuf!Fairness` says that the user goes on flushing until nothing is left, as
the comment tells him to, and that the socket takes an octet in the end.

### What disagrees with the comments

1. `events`: no constructor of `Server::Entry` sets `events` (`server.cc:108-123`),
   and `ctl()` compares with it (`server.cc:169`). If it happens to hold
   `EPOLLOUT`, a session's first change to `WRITING` is not passed on to the kernel.
   `OnlyFirstMissed`, and the theorem `InterestFollowsSession`, show that this
   is the only thing wrong with the cache and ends with the first MOD, `MissedIsMute` that it is not made up for.
2. `broken`: `Session::write` takes up a broken request which `Session::read`
   would have closed the session for (`session.cc:94, 124-130`,
   `requestqueue.cc:30-31`).
3. `wedged`: `History::wedged` measures from the beginning of the response, not
   from the last sign of life (`sessionhistory.cc:69-70, 80`).
4. `uri`: a header line `Request-URI: x` directly after the first line is appended to
   the URI, since `names.cc:24` has that name among the header names
   (`names.h:16-19`, `request.cc:162, 238`).
5. `lastchunk`: `Chunked::end` writes a last chunk each time it is called
   (`filter.cc:161-166`), and it has to be called again if the first call did not get all to the
   socket (`filter.h:55-60`). RFC 2616 3.6.1, which `filter.h:105` cites, has exactly one
   (`rfc2616.txt:1161-1164`). The server uses `Plain` only.

### What else came up

Things the models had to take a stand on, and which a maintainer may want to know:

* `TODO` asks whether one can "deadlock a client by writing and not immediately
  read()". Yes, but only one which does not read either (`DeadlockOnlyByGreed`); the
  audit ends it.
* A session with a missed first MOD, or one that is otherwise read with a
  response in progress, spins once the client has half-closed: the end of the input is
  always readable, and `read()` returns WRITING each time. If it was an overlong line
  that ended the input, the loophole at `textread.cc:91-94` is reached this way.
* When a session dies of a broken request or an overlong line, input may be left
  unread in the socket, and closing it then may reset the connection and lose answers
  under way. This is what `CloseDrained` excuses.
* `Zlib::write` returns true when the deflater kept all it was given, whatever the backlog
  (`filter.cc:186`), where `filter.h:62-64` says that true means an empty one. `TrueUnlessKept`
  has this as its one exception.
* `Names::Names` makes its table of what `operator<<` prints, which has no case for
  `Content_Disposition` (`names.cc:57, 110-181`): that header is not found by its name, but
  by "unknown". Look-ups are case-sensitive (`names.cc:80`).
* A continuation line directly after a header that was appended to the URI is taken for a
  plain one, there being one property only (`request.cc:98`).
* `dots + add_extra_crlf? 2+3: 3` (`responsebuf.cc:110`) is 5 or 3 however many dots there
  are; the comment above counts on one growth for all of them (`responsebuf.cc:102-104`), and
  the assertion behind it compares with the same number. With three dots, or one and the end of the
  line to be added, 6 octets or more may be written where there is room for 5. `TerminatorFits` has the
  cases for which 5 is enough, and `WireRight` stops where it was not.
* A dot at the very beginning of a response is not doubled (`responsebuf.cc:46`).

## The proofs

Eight modules prove the properties for every
value of the constants, assuming only the ASSUMEs of the modules (`ServerAssumption`,
`ReaperAssumption`, `TimespecAssumption`, `QueueAssumption`, `SessionAssumption`,
`ConnectionAssumption`, `FiltersAssumption`, `RequestAssumption`, `ResponseBufAssumption`), except where said below. TLC
evaluates these in the runs.

*Event loop* (`EventLoopProofs`). The inductive invariant `IInv` is `TypeOK`, the three ownership
properties, `EventsAimed`, and that nothing is open before `Start`. None of them is
inductive alone: that closing a descriptor leaves the other registrations alone
needs `FdsOwned`; that `add` writes to a free slot and not over an entry rests on
`SlotIsFree`; an event stays aimed because `add` touches only an empty slot, whose
index no event of the batch can have, and because no two events of a batch have
the same index, which is `EpollIndexed` at the time of `wait`. The lemmas
`AddKeepsOwnership`, `RemoveKeepsOwnership` and `CtlKeepsOwnership` are about
`Server`'s operators; one lemma per action of the loop then combines them.
`OneWayToMiss` adds an invariant to `IInv` that relates the cache of each entry, what epoll
watches and what the entry has gone through (`InterestOf`): the cache is what was asked for
last, and the kernel agrees, but for the one case. `InterestFollowsSession` follows with the
assumption that `WRITING \notin Garbage`;
`TableBounded` assumes a finite set of
descriptors and counts the entries that are in use; `ListenerStays` is an action
property and rests on the listening socket having a session-less entry.

*Reaper* (`ReaperProofs`). The heart of `IInv` is `NextDeadlineInTime`: for a session which has not
just been audited, the next deadline is before `since + Limit + Period`. It is
what makes `ReapedInTime` inductive: a session either began so long ago
that the coming audit kills it, or so recently that the next one is early enough.
`DeadlineOnGrid` is proved with the invariant that the deadline is a multiple
of the period; `NeverReapedEarly` from the agreement of `since` with the stamp that
belongs to the session's present mode.

*Timespec* (`TimespecProofs`). The invariant is `Reaper`'s: no stamp is ahead of the clock. The rest are facts about the
operators, `Difference`, `Comparison` and `Earlier`, whose one non-linear step is `SecondsApart`; `Reading` says
that the clock is what it says, and `OneForm` that a time has one normalised form.

*Sequences* (`SequenceProofs`). The
library's induction theorems take an operator, which the provers cannot instantiate, so the
module first states induction over sets: a set of naturals that holds 0 and, with each, the
next, holds all (`AllNat`, from the least element of the complement), and likewise for
sequences and `Append` (`AllSeq`). With these it has the equations of `FlattenSeq`, and of `Only`
from the module `Subsequence`: the members of a sequence which are in a set. `Only` is a recursive
function and stands for `SelectSeq`, whose definition the provers cannot use.

*Session* (`SessionProofs`). First, what `Drain` computes, which reads octet by octet and is a
recursive function: its equations (`DrainNil`, `DrainSnoc`),
and by induction: reading in two goes is reading in one (`DrainOn`), what is left over has no
terminator in it (`DrainLeaves`), requests that are complete and taken from the front do
not matter to what is read behind them (`DrainBehind`), and reading changes no request that is
complete and leaves only the last incomplete (`DrainContinues`).

The inductive invariant `SessionInv` is `TypeOK`, `Wakeable` and two parts.
`FilesRead` says that a response in progress has read no more than its file, and is alive unless it has
read all of it or failed. `Reader` says that the buffer holds no whole line and is full only if that
ended the reading, and that only complete requests have been taken up. `GracefulClose` is kept
together with it, and each of `HistoryMatches`, `WireIsAnswers`
and `RequestsIntact` is kept by a step from a state with `SessionInv` (`HistoryStep`, `AnswerStep`, `IntactStep`); the
last one rests on `DrainOn` and `DrainBehind`, for a `recv` of any size. `ReadFacts` and `WriteFacts`
state what one call of `read()` and one turn of `write()` do, so that the cases of the code
are split once.

`KeepsItsPromise` is the refinement. `Answering` adds that all requests taken up are complete, that only the
last in the queue may be incomplete, that at the end of input nothing is left in the buffer
unless it is full, and that a session dies only of that end or of a broken request. `WholeInv` is all
of these together; from it the mapping of `asked` is the requests taken up with the complete
ones in the queue (`AskedIs`), and each step of `Session` is a step of `Pipeline` or none
(`PromiseStep`).

*Connection* (`SessionProofs`, the last part). `ConnInv` is `SessionInv`, `ConnTypeOK`, and two parts. `Watched`
relates what epoll watches, what is cached and what the session wants, and has the one
exception; `Ended` says that the end of the input was seen only with everything read. A
step of the loop is then a step of `Session` (`CalledAsAssumed`), so that `SessionInv`
is kept for free, and `DeadlockOnlyByGreed` is a matter of which guard is false. `AnswersInFull` needs
`Paid`: what was due from the responses ended is the files of the requests taken up, or will
be with the one in progress. It is kept as long as no MOD was missed (`PaidStep`), and a session that missed
one never closes.

*Request* (`RequestProofs`). First the searches: what `Find` and `trimr` return, that the name and the colon are
found exactly in a line that is a header by the grammar (`GoodIs`, `NameIs`), and that
`first_line()` finds the URI (`UriIs`). `ShapeIs` and `HeaderLineIs` then say what `RequestQueue` makes of the
same line. `IInv` is the types, `SessionAgrees` and `Kept`: the URI is the first property, at offset 0; the
second starts where it ends, since a line is shorter than the offsets are wide; and there is a
second as soon as there was a header, which is what decides whether a line continues another. Neither
holds if the first header is named like the URI and is appended to it, which is what `NamesUri` excludes.

`HeadersRight` needs a second invariant, `HInv`, next to `IInv`. As long as nothing has wrapped, `Right` says that the
segments of `v` lie one behind the other (`Starts`), that there are properties and fields of the same
names (`SameNames`), and that the first segment of each name is the first series of that name among
the fields (`SameValues`). That series goes on to the last field exactly if the segment is the last one, which
is why a repetition or a continuation may be appended at the end of `v`. The lemmas about `FirstSeries` say when a
field more leaves it alone (`SeriesKept`), extends it (`SeriesGrows`), begins it (`SeriesNew`) or adds to its last value
(`SeriesContinued`); those about `v`, what appending and inserting do to the segments (`Grown`, `Inserted`).
`FieldIs` and `ContinuationIs` say that what the code cuts out of a line is what the grammar has there.
That the end refuses a vector of `Width` or more is what makes the offset of `END` good.

*Filters* (`FiltersProofs`). `IInv` is the types, `InOrder`, and what is known of all that has come
out, on the wire or in the backlog: its octets are those emitted so far, then the end of the
deflated stream if that is finished (`Sums`); it is whole chunks (`Chunks`); there is no last chunk
before `end()`, at most one for each call of it, and at least one when a chunked response is done
(`Unfinished`, `Counted`); the deflater keeps something only while it is not
finished (`Accounted`). `WellFramed` is `Framed` of any sequence, and kept by a chunk behind it (`FramedMore`) and by the last
(`FramedLast`), whatever the size of the blobs. `TrueUnlessKept` is an action property, kept by each
step from a state with `IInv` (`StepIsHonest`).

*ResponseBuf* (`ResponseBufProofs`). `put_terminator()` doubles the dots where they lie, from the last to the first,
while `Terminated` says octet by octet what should come out. `Double` is the stuffing in `Terminated`;
`DoubleSnoc` says what one octet more adds to it, `DoubleOn` when what follows is not changed, and `DoubleCut` that what
begins with CR may be stuffed by itself. `Loop` is the invariant of the loop with `d` dots left and the
text done from `p` on: what is before `p` lies where it was, and what is behind it, doubled, where it belongs, `d` octets
further on. One turn keeps it (`LoopStep`) since from the last dot on there is one to double (`LastDot`), and the two
moves of a turn put it in its place (`TurnMoves`). Its end is `StuffedIs`, for any number of dots.
`IInv` is the types, `Queued` and `Leaving`: while nothing is being flushed, `vec_` is what precedes the mark `z`, which is
promised already, and then the text. That the octet before the mark is LF is needed for
a text of one octet, an LF: looking at all of `vec_`, as `put_terminator()` does, it ends in CRLF only if
the text does (`SameEnd`). `TerminatorPut` has all of this together, and also the size which `StepFits` needs.

*Model-checked only.* Liveness (`SessionEnds`, `Served`, `ResponseBuf`'s `Drained`), which is out of the
prover's reach. `InterestMatches`, `UriAlways`, `BrokenNeverAnswered`,
`WedgedMeansNothingHappened` and `OneLastChunk` do not hold.

## Abstractions

* In `Session` a line is what its first word says: as a first line it names a file, as a
  header line it is malformed or not, unless it continues another. The
  limit of 64K on what is stored is in `Request` only; `SessionAgrees` has the difference.
* `TextReader`'s pointers are not modelled, the amount of room is.
* The name of a file that does not exist and an empty one are the same to the
  client: nothing is sent. Files do not change while they are being sent.
* In `Connection` files can be read to their end; errors when reading one are in
  `Session`. One session stands for all: they share nothing but the loop and the table,
  which are `EventLoop`'s.
* In `Request` a word is a symbol, and a name is one word; the letters matter nowhere
  but in the look-up.
* The server's destructor is never reached. Allocation does not fail.

## Not modelled

* `HeaderCache` is used by its test but not by the server: a map with a threshold at which
  it is cleared. A reference from before is not good afterwards; nothing keeps one.
* `Syslog` is logging: it formats and calls `syslog(3)`. `Blob`, the error types and the version
  have no behaviour.
* `main()` and the socket setup run once, in a straight line. `magic` is another program.
* That `accept()` blocks (`httpd.cc:136`, and the TODO there). A connection that is reset
  between `epoll_wait` and `accept` stops the loop until the next one; the model would
  consist of this sentence.
* A clock that is stepped: `times.cc:22` requires that it is not, and nothing in the code
  guards against it.
