# A verification project for http_decoder

`http_parser/httpfunction` reads a capture of network traffic, collects the TCP
segments of HTTP connections per session and direction, and writes one record
per request/response pair.  `http_parser.cpp` runs the same code inside an actor
of the C++ Actor Framework (CAF 0.15.0a1), which the repository carries along.
This directory holds TLA+ models of the decoder, TLC configurations that check
them, and proofs checked by TLAPS.

    tlc -workers 2 -config MCHandle.cfg MCHandle     # model-check one run
    tlapm HandleProofs.tla                           # check one proof module

Paths below are relative to `http_parser/httpfunction/src/`, or to
`actor-framework-0.15.0a1/libcaf_core/` and `libcaf_io/src/` for CAF.

## The system

    capture file -> AppMain main() -> Receiver::Work/HandleMessage -> CHandle::Process
                                                                       |        |
                                            CSessionHashTable  <-------+        +--> CHttpParse::Parse -> record file
                                            (CSession: two CBuffers)

| Component | State | Operations | What makes it correct |
|---|---|---|---|
| `CBuffer` (Buffer.cpp) | heap block, `len`, `_free` | `Append`, `Reset`, `GetBuf` | never writes outside the block; gives back what was appended |
| `CSessionHashTable`, `CSession` (SessionHash.cpp) | 65536 buckets of sessions | `Find`, `Create`, `Remove` | one session per connection, found from either side |
| `CHandle` (Handle.cpp) | the table, `_lastTimeOutCheck` | `Process`, `TimeOutCheck` | each segment used once, in order, in its connection and direction; exchanges kept apart; nothing complete lost |
| `Receiver`, `CFormatPacket` | none | `HandleMessage`, `Format` | direction and server of a packet |
| `CHttpParse` (HttpParse.cpp) | result of one parse | `Parse`, `Send` | records whole messages, with their own fields; stays inside the buffer; returns |
| `main` (AppMain.cpp) | file position, one frame buffer | the read loop | every segment of the capture used once |
| `http_parser` actor (http_parser.cpp) | a `Receiver` | `start` message | as `main`; scheduled as any event-based actor |
| CAF mailbox (single_reader_queue.hpp) | `stack_`, `head_`, elements | `enqueue`, `try_pop`, `try_block`, `close` | an atomic first-in first-out queue; one wake-up per sleep; no message left behind |
| CAF actor scheduling (scheduled_actor.cpp) | mailbox, `flags_`, strong count, `context_`, `timeout_id_` | `enqueue`, `launch`, `resume`, `cleanup` | one thread in an actor at a time; no message and no reference lost |
| CAF workers (coordinator.hpp, work_stealing.hpp) | a deque per worker, `alive_workers` | dequeue, steal, `stop` | every job run once; the scheduler stops |
| CAF detached actors (private_thread.cpp) | `state_` | `run`, `resume`, `shutdown` | no resume and no shutdown lost |
| CAF links and monitors (monitorable_actor.cpp) | `attachables_head_` and a lock per actor | `link_to`, `unlink_from`, `monitor`, `demonitor`, `cleanup` | links symmetric; every observer told once |
| CAF registry (actor_registry.cpp) | ids, `running_` | `put`, `erase`, `dec_running`, `await_running_count_equal` | no dead actor stays; the wait ends |
| CAF network brokers (basp_broker.cpp, instance.cpp, routing_table.cpp, middleman_actor.cpp; proxy_registry.cpp of libcaf_core) | direct and indirect routes, a context per connection, proxies, cached endpoints | handshakes, forwarding, `make_proxy`, `proxy_announced`, `kill_proxy`, lost connections | the tables agree with each other and with the connections; no proxy outlives its actor |

The decoder is sequential: one thread runs a packet from `HandleMessage` to the
end of `Process`, which calls the table, the parser and the buffers directly and
shares their objects by pointer.  What is hard about it is the environment: the
order and the completeness of a capture, retransmissions, connections that share
a bucket, time passing between any two packets, allocation failure, messages cut
off anywhere, and state that outlives an exchange (buffers, stamps, sequence
numbers, sessions).  CAF is the concurrent part: workers, private threads, the
timer and the program's own thread share mailboxes, deques, reference counts and
flags, and actors take each other's locks.  Its network layer is distributed: the
brokers of several nodes learn about each other from what reaches them, while
connections come and go and actors end.

## The models

**ByteLog** is what a buffer promises: the bytes appended since the last reset.
**HttpBuffer** models `CBuffer` on a block of memory: `buf` is a function from
positions to bytes, `cap` what the allocator granted, `len` and `free` the
fields of the class.  `AppendInPlace`, `AppendGrow` and `AppendFail` are the
three ways through `Append` (an empty segment changes nothing); `Reset` trims
the block.  Fresh memory holds anything.  HttpBuffer implements ByteLog under
`log <- Contents`.

**Exchange** is what reassembly promises, without a table, sessions or a clock:
each connection accumulates two directions, a flush writes exactly one record
with all of it if both sides are there and decode, and a request segment never
joins an exchange that has both sides.  **Handle** models `Process` as one step
per packet: timeout check, `Find` or `Create` (`Lookup`), then one of
`SessionOver`, `RepeatedPacket`, `ZeroLength`, `RequestData`, `ResponseData`;
`Leave` puts the session back (or not, `Remove`) and adds the records.  `table`
is `_cseshash`; a session has its ends, `RefreshTime`, `SeqNo`, its buffers (as
sequences of captured packets, which carry their number) and its two stamps.
Constants stand for the endpoints, the hash (any symmetric one), the parser's
verdict (`Decodes`), the timeouts, what the heap holds (`HeapSeq`) and whether
allocation may fail.  Handle implements Exchange: a session that does not exist
holds nothing.

**Conversation** drives Handle with the capture of one well-behaved connection
(external to the source: a client, a server, the wire), including immediate
retransmissions, acknowledgements everywhere, also after the FIN, other traffic,
and idle time.  Between the two is the loop of `main`: `frame` is its one buffer,
`Captures` one round of the loop, `EndOfFile` the round whose reads fail, which
processes the last frame once more; nothing is flushed after it.  The loop of the
`http_parser` actor is the same text.

**HttpParse** models one call of `Parse`.  A buffer is a sequence of tokens
(space, LF, CR, colon, words), so that every search of the parser is one step
and `pos` moves as in the code.  The buffers are all beginnings of a set of
messages; `stale` is the byte behind the response.  Handle uses the parser as
`Decodes`, and `Cleared` for the `Reset` that ends every path of `Parse`.

**MailboxSpec** is the mailbox an actor is promised: one queue with atomic
operations, open, blocked (its reader sleeps), closing or closed.  **Mailbox**
models `single_reader_queue` one atomic access at a time: `stack`, `head` and
the `next` pointers of elements, which live at addresses that are free again
after `delete_`.  A writer is between its load and its compare-and-swap
(`made`, `expected`) while anything else happens; the reader pops, fetches and
reverses, tries to block, sleeps until it is rescheduled (`wakeups`), and may
close the queue.  Atomics are sequentially consistent, as the code's default
arguments ask.  Mailbox implements MailboxSpec: the queue is `head`'s list
followed by the stack read backwards.

**Scheduling** models event-based actors from launch to destruction.  Its threads
are the workers (`TakeOwn`, `Steal`, then `resume` step by step), the private
threads of detached actors (`LoopTop`, `Resume`, `AwaitResume`,
`AwaitSelfDestroyed`), the timer (`Expire`, `Erase`) and the program, which
launches, sends, drops its handles and, in `coordinator::stop`, sends its helper
to one worker after another, stops the timer and sweeps the deques.  A thread's
`pc` is its position, `job` the actor it is in, `wake` the reader it has unblocked
and must still reschedule (`Reschedule`, a step of its own, as in
`scheduled_actor::enqueue`).  `TailLoad` and `TailStore` are the two halves of the
`set_flag` that `resume` reaches after `try_block` has succeeded.  `refs` is the
count the code keeps, so that owners can be counted against it.  A mailbox is
the atomic queue of MailboxSpec, which Mailbox implements; a deque operation is
one step (its locks are not modelled).  `alive_workers` is a `std::set` of
pointers: the workers are numbered by address.  `next_worker` is turned by
everything that enqueues from outside, so that any worker may be next.
`context_` is forgotten once no thread is in the actor; nothing reads it then.
A program sends only through handles it holds, and stops the scheduler without
waiting for its actors (`await_actors_before_shutdown(false)`, or hidden actors).

**Lifecycle** models what actors do to each other's `attachables_head_`, one step
per critical section.  `link_to` is three (`Link`, `Backlink`, `AttachLink`):
`establish_link_impl` holds its own lock while it takes the other's, and `Locked`
keeps everybody else out meanwhile.  `unlink_from` is two (`RemoveLink`,
`RemoveBacklink`).  The end of an actor is `Close`, `Deregister` and `Notify`
(`dec_running` decrements outside the mutex and notifies under it), `Cleanup`,
which takes the list over, and one `Walk` per attachable.  Mailboxes hold exit and
down messages only, and an actor handles an exit message as
`scheduled_actor::categorize` does: it unlinks first and then asks the exit
handler (`verdict`, free to stay or to leave).  The program enters actors in the
registry (`PutId`, `AttachEraser`) and waits for all to end.

**Basp** models the BASP brokers of several nodes, each with one published actor that
goes by its node's name. A broker is one actor, so that each of its handlers is one
step: its state is a record (`broker[n]`), and the handler is a chain of operators on
that record, in the order of the code; `out` collects what it writes, `flushed` the
streams it flushes. `Receive` is `instance::handle` (`Forward`, `ServerHandshake`,
`ClientHandshake`, `LearnRoute`, `DispatchMessage`, `ProxyAnnounced`, `KillProxy`),
`Closed` is `connection_closed_msg`, `Tell` a program's message that holds a handle to
an actor, `TellEnd` the functor that tells a proxy's node of the end. The middleman
actor has a thread of its own: `Connect` is a request to it, `Note` its reading of the
broker's answer, when it monitors the proxy and fills `cached`, or of a down message,
when it empties it. The broker only puts these into its mailbox, so that a proxy may
end before it is monitored, or stay cached for a while after its end. `mail` is a set:
there is one answer or down message at a time for each endpoint, and those of
different endpoints do not touch each other. `wire` holds what was written to each
connection, in order and per direction, of which the last `unsent` entries lie in the
writer's `wr_offline_buf_`. What a handler writes goes out when it, or a later one,
flushes that stream (`Commit`), or when the stream was still writing and turns to its
buffer by itself (`late`, which `Writing` permits). The other end can read and notice
a closed connection only behind what was sent. The network may drop a connection with
all that is on it (`Lose`), and each end notices in its own time. `id` is the
`connection_context::id` that `make_proxy` takes for the relay. Left out: the split of
a message into header and payload; the functor that `make_proxy` attaches, which posts
a second erase of the same proxy; heartbeats, which are off by default and would flush
every direct connection; the proxies of spawn servers, which change no route that is
used. Relays that cannot be used are dropped all at once, the functors for one remote
node are one (`watchers`), and a connection's handle is not used again.

Left out of the decoder: printing; fields nothing reads (`AckSeqNo`, MACs,
`Protocol`, `CreatedTime`); `sesp`, which only the final `printf` of `main`
reads; the layout of the record file (named by the client's port, so that
clients with one port share a file).  A bucket's deque is a set.  The up to four
calls of `time(0)` in one `Process` read one clock.

## The runs

| Run | Question | Result |
|---|---|---|
| `buffer` | any sequence of appends, growths, failed growths, resets | block never overrun (`MemorySafe`), room for the terminator (`TerminatorFits`), an empty buffer keeps at most 2 * BUFFER_SIZE + 1 bytes (`RetainedMemoryBounded`), contents are the log (`LogSpec`) |
| `handle` | any packets in any order, with checks and failing appends | one session per connection, directions apart, each captured segment used once and in order, stamps of one exchange never in the next, Exchange implemented |
| `conversation` | one well-behaved connection, read by `main` to the end of the file | every exchange in exactly one record, with its own whole answer; no buffer holds a segment twice, although the last data segment may be captured again and the last frame is processed again (`CopiesDropped`) |
| `parse` | messages cut off at every token | nothing cut off inside its head is recorded, whole exchanges are, fields are the message's, position inside the buffer, `Parse` returns |
| `mailbox` | writers, reader and close racing on one pointer | an atomic queue (`MailboxPromise`), one wake-up per sleep and none while the reader runs (`WokenOnce`), every element in one place or deleted (`NodesOwnedOnce`), every message taken or bounced (`EveryMessageSettled`) |
| `scheduling` | launches, messages, timeouts, dropped handles and a stop in any order | an awake actor is in exactly one place and a sleeping one nowhere (`OneWorkerPerActor`), the strong count is the number of owners (`RefsExact`), `stop` knows which workers have left although its helper may be stolen (`StoppedAsReported`), every message is settled unless the scheduler is stopped, and the shutdown completes |
| `lifecycle` | links, unlinks, monitors, registrations, exits and the wait crossing each other | actors at rest agree on their links, unless both unlink on their own account (`LinksAgree`), no observer is attached after cleanup (`NoLateObserver`), a dead actor leaves the registry, operations complete, survivors forget the dead, the wait returns |
| `basp` | three nodes that dial, relay, pass handles on, end and lose a connection | direct routes are held connections and no indirect routes (`TablesAgree`); the middleman actor caches no proxy whose end it will not learn of (`TypeOK`); once nothing is under way, and with at most three nodes, no node has a proxy for an actor that has ended, whichever route the announcement took, unless the announcement was never sent (`DeadActorsForgotten`) |
| `check_vector` | Handle.cpp:147 "traverse the whole vector" | **violated**: bucket 65535 is never visited |
| `check_every` | Handle.cpp:142 "every two minutes" | **violated**: `_lastTimeOutCheck` is never set again |
| `parse_crlf` | HttpParse.cpp:140 "skip the \r\n" | **violated**: a request with CR LF line ends is refused |
| `flags_race` | abstract_channel.hpp:67 "only the actor itself is granted write access" | **violated**: a worker that has blocked the mailbox stores flags it loaded before another worker changed them |

Bounds.  `buffer`: a block of 2 bytes and segments of 1 to 3 bytes reach every
combination of fitting, growing, shrinking and trimming; 7 bytes exceed
2 * BUFFER_SIZE + 1.  `handle`: two clients in one bucket with a server that
reuses their sequence numbers, 4 packets, 3 seconds, timeouts 2/1/3 in place of
120/60/3600 (the code needs FLUSH_AGE < TIMEOUT, which the assumption keeps);
four packets are a request, an answer, and what comes between or after.
`conversation`: 2 exchanges of 2 answer segments, 8 packets (the end of the file
repeats one more), 6 seconds: the table ages across an exchange boundary and after
the end.  `parse`: up to two
headers, also with the same name.  `mailbox`: two writers of two messages over
three addresses: both race with the reader and with each other, and an address is
used again while a writer still compares with it.  `scheduling`: two workers, a
throughput of 2, one pooled actor whose behavior has a timeout, one detached, two
messages, one timeout asked for by an actor: the actor's job can be stolen while a writer reschedules
it, the timeout can expire before, while and after its actor sleeps, and the
helper can be stolen both ways (281,051 states).  `lifecycle`: two actors that
begin up to four operations between them and the program, which is two links
crossing two unlinks, or a link, a registration and a wait while both actors end;
one of the two unlinks on its own account, both by exit messages (161,306 states).  `basp`: three nodes
of which two may each dial both others; three connections, the first of which may be
lost (then no third one is opened), two messages of programs, each with a handle to
the third node's actor, and one actor that may end (587,300 states): an announcement through a relay, one
that waits beside the route that is flushed, a second connection closed in its
handshake, handshakes that cross, a proxy that ends before it is monitored, and a
loss that one end knows of and the other does not.
Two buckets suffice in the violation runs:
one visited, the last one not.

Fairness is assumed where the code's own threads run on.  Weak fairness of the parser's `Next`: it is
sequential code that runs whenever it can.  In Mailbox, weak fairness of the
reader, which a scheduler runs again after every wake-up, and of each enqueue
that has begun; a compare-and-swap fails only when another one succeeded, and
nobody has to enqueue or to close.  In Scheduling, weak fairness of every worker,
every private thread, the timer (a delayed message is due some time) and of a stop
that has begun; whether the program launches, sends, drops or stops is its own
business.  In Lifecycle, weak fairness of what an actor or the program has begun
and of reading messages, none of what they begin.  Basp assumes none: its
properties are safety, `DeadActorsForgotten` one of the states in which nothing is
under way.  Runs without deadlock checking are those
whose system stops: a capture ends, a parse returns, a mailbox is settled.

Every property of a passing run has a mutant in PROJECT.json: an operator named
`M_...`, placed before the definition it stands in for, that models a plausible
bug and violates the property.

## The proofs

Each theorem holds for every value of the constants that the module's named
assumption allows, and each invariant was checked by TLC before it was proved.

**HttpBufferProofs**, for every block size, every segments and any number of
operations.  `TypeOK`, `MemorySafe` and `TerminatorFits` are not inductive:
`Reset` sets `_free` to `BUFFER_SIZE` without looking at the block, which is safe
only because `len + free` never falls below `BUFFER_SIZE`; and the bound on
retained memory needs the two causes of a large block.  `IInv` adds both.
`BufferImplementsLog` maps each step to a step or a stutter of ByteLog, from
`WriteFacts` on `memcpy` and `ContentsAppended`.

**HandleProofs**, for any endpoints, packets, timeouts, buckets and any
symmetric hash: `TypeOK`, `OneSessionPerConnection`, `SidesKeptApart`,
`SegmentsUsedOnce`, `StampsCurrent` and the refinement of Exchange.  The
inductive invariant `TableOK` speaks of a table rather than of the variable, so
that it can be stated of the table after the timeout check (`AgedOK`), of what
`Find` or `Create` returns (`LookupOK`) and of what goes back (`LeaveOK`).
It rests on `HandleAssumption`, above all on the symmetry of the hash; that
`HashVal` has it (exclusive or of both ends) is not proved.  `Ledger` is again
stated of a table, a set of records and the number of the last packet:
whoever holds segments, session or record, holds them in order, shares none with
another holder, and a session's stamps are later than every segment already
recorded of its connection.  The timeout check preserves it (`AgedLedger`);
`Follows` says what any branch of `Process` may make of the one session it has in
hand, and `Leave` puts the outcome back.  The refinement maps each `Process` to
one step of Exchange: the connections it flushes are those the check found idle
(`FlushedByCheck`) with the packet's own if its branch sends, and the session table
is what holds each connection's two directions (`Holds`).  A tick is a stutter.

**ConversationProofs**, for any number of exchanges, answers of up to nine
segments, any length of capture and any other sessions in the table:
`AnswersMatchRequests`, `EveryExchangeRecorded`, `CopiesDropped`, and that
Conversation is a behaviour of Handle (`ConversationIsHandled`), so that what
HandleProofs shows of Handle holds here too.  `ConversationAssumption` says what
is assumed of the environment: the two ends are told apart by their port, the
other traffic is another connection's, an answer's segments are at most
`FLUSH_AGE` apart, whole exchanges decode, memory suffices, and the heap under a
new session does not hold a sequence number of the capture.  The invariant `CInv`
adds to Handle's a `Dialogue`, what client and server have sent and when, and what
the decoder has made of it.  Before the end of the file the last exchange is either
`Open`, all of it so far in the one session of its connection and none of it
recorded, or `Done`, recorded once and whole, no session of its connection with
anything in it, and too old for the client to send a segment again.  A timeout
check leaves an open exchange alone while more of it is due (`AgedOpen`: this is
where `MaxDelay <= FLUSH_AGE` is needed) and makes a complete one done; the
next request makes it done too, and a FIN.  The packet that `main` processes twice
at the end is harmless when it is a segment, since its number is the session's
`SeqNo`, and may open a session and record nothing otherwise (`Over`).

**HttpParseProofs**, for any messages `MessagesAssumption` allows, cut off
anywhere, and any byte behind the response: `StaysInside`, `NoPartialMessage`,
`WholeExchangeSent` and `FieldsFaithful`.  The assumption is what the four properties speak of: header lines have a
colon and an end, a head is longer than the ten bytes `Parse` asks for, a
request's version is one the parser knows, and a body of a response with LF line ends
holds no CR, which the parser would take for the head's.  What the parser searches
for is where the text of a message has it because nothing before it matches:
each search is a least element of a set of positions (`NextTag`), and the text of
a head is a fold over its header lines, of which `Start` gives each line's place.
`IInv` goes through the parser's positions (`Stage`): how far it is in the message,
which fields it has read, that they are the message's, and that a whole exchange is
on no path that drops it.  Only at the end of a response cut off behind a CR may
the byte behind the buffer count as the missing LF (`StaleRead`).

**MailboxProofs**, for any writers, messages and addresses (at least one address
per writer: `new` does not fail): `TypeOK`, `WokenOnce`, `NodesOwnedOnce` and the
refinement of MailboxSpec.  The queue is pointers, so that `Chain`, the list
behind one, has first to be shown defined and unique (`ListUnique`, by an induction
that `ClosedUnderSuccessor` gets from the pigeonhole principle on a finite set).
`IInv` then says that there *are* two lists, the stack's and the reader's, without
a common element and together with the writers' own elements all that is in use
(`Places`), and that a reader which is about to block has seen an empty stack
(`ReaderKnows`).  A compare-and-swap whose expected element has been deleted and
made again in between is harmless because the new top is an element all the same:
this is where addresses that are used again enter the proof.  A push, a fetch with
its reversal and a pop become MailboxSpec's atomic operations on the concatenation.

**SchedulingProofs**, for any number of workers, pooled and detached actors,
messages and timeouts, and any throughput: `TypeOK`, `OneWorkerPerActor`,
`RefsExact` and `StoppedAsReported`.  None is inductive.  `Counted` gives each actor
two equations, owners against the strong count and hands against wakefulness, in
numbers of threads, jobs and delayed messages; every action changes both sides of
both alike (`Balanced`), by the one thread it moves (`ThreadStep`, `WakeStep`,
`DueStep`).  Deques are functions from positions to jobs in which none is twice
(`Once`); taking from either end, pushing to either end and stealing are `Loses`
and `Gains`.  `Backed` says that a thread which has woken an actor acts for
somebody with a reference, so that the count it raises is not zero, and `LastOut`
that whoever gives up the last reference leaves nobody behind.  `Stops` ties the
helper to the worker that `stop` waits for: it is in one deque or reported, never
both.  `Bounds` is a budget: what runners have handled of an actor, what waits in
its mailbox and what the timer holds for it never exceeds what was sent and asked
for; it makes a worker's burst and the mailboxes bounded.  All of this is one `IInv`,
since cleanup depends on the counts, the counts on the flags and the flags on the
positions.  Mailboxes are atomic here, which is what MailboxProofs shows of the
lock-free ones.

**LifecycleProofs**, for any finite number of actors and any number of operations:
`TypeOK`, `NoLateObserver`, `DeadAreUnregistered` and `LinksAgree`.  None is inductive.  `Flags`
ties `terminated`, `cleaned_up` and the two lists to an actor's position: an
attachable is entered only where `terminated` is not set, and `cleaned_up` comes
later, so that an emptied list stays empty.  `Registered` says of everybody in the
registry, dead or not, that a functor of `put` is in one of the actor's lists or
still to be attached; no `unlink_from` and no `demonitor` takes it away
(`RemoveFirstFacts`, `WithoutFacts`), `cleanup` moves it, and `Walk` runs it.
`Lists` keeps the mail and the attachables of an actor about others, and `Counted`
is exact at every step of `dec_running`.  `LinksAgree` is an account kept for each
ordered pair of actors that are not `Rivals`: what one of them is `Promised`, the
links it has with those it is still to attach and without those it is still to
take away, equals what the other is (`Balanced`).  Each critical section of
`link_to` and `unlink_from` changes both sides alike, or moves an amount between a
list and a position.  It needs that an exit message comes from an actor that has
ended (`ExitsFromEnded`), and that whoever is between the halves of `unlink_from`
is an `Unlinker` or takes leave of an ended actor (`OwnUnlinks`).  The proofs rest
on `LifecycleAssumption`: finitely many actors, the program none of them.

**BaspProofs**, for finitely many nodes, any pairs that may dial and any
connections: `TypeOK`, `TablesAgree` and `DeadActorsForgotten`.  A handler is a
chain of operators on a broker's record; each of them keeps the record `Sound`
(tables inverse to each other, relays only for indirect nodes) and writes only
what is meant for actors (`Plain`), and adds no direct route but the one of a
handshake.  That this route is of a connection both ends of which are right is
`Connected`, which needs `HandshakesOn`: one handshake travels in each direction,
the client's answers the server's, and until it is read the connection is no
direct route.  So a second connection to the same node, handshakes that cross and
a loss in between leave the tables inverse.

`DeadActorsForgotten` is about the path of an announcement through the brokers of all
nodes. Its invariant, `Good`, has four parts. `Roads`: a relay has direct routes to
both ends, and the other end of a direct route still holds the connection. `Mail`:
whatever travels was written by a node that knew the one it is for, and can be
delivered or passed on where it arrives, behind a handshake ahead of it if need be.
`Answered`: the server of a direct route has it too, or the client's answer is on its
way. `Ties`: a node that has a proxy is watched for by the actor's node, or its
announcement lies on some connection, sent or not, or the actor's end is on its way.
They are one invariant, since what makes a message deliverable is a route, and what
makes a route complete may be a message. TLC has checked `Good` first, and the two
invariants below, on the run's own instance. A handler passes through states of its
broker that are between two states of the system: `With` and `Sent` put the record it
works on, and what it has written so far, in their places, and `Well` is `Good` there,
kept by each operator of the chain. At most three nodes enter as `ThirdIsOne`: who is
neither end of a connection is the one third node, so a relay is an end of both
connections it joins. The restriction (`Calm`) is the property's own, which is false
from four nodes on, with losses or when dials cross (see below). Two more invariants
tell what may remain when nothing is under way. `Covered`: only announcements wait in
a buffer nobody has flushed, because every other operator of the chain flushes what it
writes. `Abandoned`: whoever leaves a connection has read all that was sent to it. So
an announcement that was sent has been read, and one that was not is the exception the
property names. `TypeOK`'s clause on `cached` needs `Tended`: an answer the middleman
actor has not read yet says what has become of its proxy meanwhile, and `EndProxies`
keeps it true.

What is left to TLC is liveness (`ParseReturns`, `EveryMessageSettled`,
`ShutdownCompletes`, `OperationsComplete`, `DeadLinksForgotten`, `AwaitReturns`),
since fairness needs `ENABLED`, which the provers lack.  Every safety property of a
passing run is a theorem.

## Limits of the code the models make visible

- An answer that comes more than 60 seconds after the last packet may be
  orphaned by the check and then be paired with the *next* request:
  `AnswersMatchRequests` fails with `MaxDelay > FLUSH_AGE`.
- A retransmission is recognised only directly after the original: one `SeqNo`
  serves both directions and remembers one segment.
- A new session's `SeqNo` is what the heap held: when that happens to be the number
  of the first segment, the segment is taken for a copy and lost.
- The payload of a FIN is dropped; a FIN from either side ends the session, so
  an answer after a half-close loses its request.
- Segments that arrive out of order are appended in the order of arrival.
- `RspBuf`'s last CR together with a stale LF behind the buffer passes for a
  line end (`StaleEnd`).
- At the end of the file nothing is flushed: an exchange of a connection that was
  not closed is written only if a later packet's timeout check found it.
- CAF: the store behind `flags_race` may undo `terminated` and `cleaned_up` of an
  actor that another worker has ended.  A monitor that comes later is then attached
  and never told, and `on_exit` and `cleanup` run a second time when the last
  reference goes.  Lifecycle assumes that this does not happen.
- A worker that enqueues from inside puts the job at the head of its own deque: two
  actors that keep waking each other starve what is behind them, the helper of
  `stop` too.  A bounded number of messages hides this.
- What a thread of its own puts into a deque after the sweep of `stop` is never
  run or released.
- Two actors that link to each other at the same time deadlock, each with its own
  lock held (`LinkDeadlock`, which the liveness properties except).
- When both actors of a link unlink on their own account and one links again in
  between, a link may stay on one side only: `LinksAgree` excepts such actors
  (`Rivals`).
- A `link_to` that meets a half-done `unlink_from` of the other side attaches a
  second entry: `establish_link_impl` asks only the other side whether the two are
  linked (monitorable_actor.cpp:146), and `unlink_from` takes the two entries away
  in two critical sections.
- An actor counts as ended (`dec_running`) before its observers are told:
  `await_all_actors_done` may return earlier.
- `actor_registry::put` by name calls `emplace`, which never overwrites: the name
  of an actor that has ended keeps it, and a later `put` under that name does
  nothing, although actor_registry.hpp calls it "Associates given actor to `key`".
- `detach` removes all that matches; abstract_actor.hpp:94 says "Detaches the first
  attached object that matches".
- BASP, an acceptor's relays: `client_handshake` never sets the context's `id`, so
  that a node that has accepted a connection and is told over it of a third node's
  actor adds the invalid node as relay and makes no proxy.  basp_broker.cpp:80 says
  this happens "if and only if" the relay is blacklisted.
- BASP, crossing dials: each side may register its own connection and ignore the
  other's handshake as a second one.  What then arrives on the connection that is
  not registered has no last hop, and contexts go stale; `DeadActorsForgotten`
  excepts nodes that have dialled each other (`Crossed`).
- BASP, four nodes: a node that is told of an actor by a relay which has never
  heard of the actor's node takes the relay for a route.  The relay has none, so
  that its `forward` drops the announcement (instance.cpp), the actor's node never
  learns of the proxy, and the proxy outlives the actor.
- BASP, losses: a kill under way is lost with its connection, and a node reached
  only through a lost relay keeps its proxies, although routing_table.hpp calls
  back "for any node that became unreachable".  A node that reconnects before the
  server has noticed the loss is ignored.  `DeadActorsForgotten` excepts losses.
- BASP, a connection that closes during its handshake has no direct route yet, so
  that `purge_state` is not called and the connect request is never answered; later
  requests for the endpoint wait behind it (`pending`).
- BASP, `make_proxy` looks up a direct route "if possible" and then writes the
  announcement to the connection the handle came from, but flushes the route it has
  looked up (basp_broker.cpp:104-109).  Where the two differ the announcement waits
  in `wr_offline_buf_` until something else is written and flushed there, since only
  `stream::flush` starts sending (default_multiplexer.cpp:1073); if nothing is, the
  actor's node never learns of the proxy and the proxy outlives the actor.  It
  happens when a handle to the actor of a neighbour comes by way of another, and on a
  second connection that is closed in its handshake.  `DeadActorsForgotten` excepts
  exactly such announcements (`Unannounced`).
- HttpParse: `GetMethod` falls off its end for an unknown method
  (HttpParse.cpp:405), so that the method recorded is undefined; the model takes any
  (`AnyMethod`), and `FieldsFaithful` excepts it.
- A segment whose `Append` fails has set `SeqNo` already: it is lost, and its
  retransmission counts as a copy.  Exchange lets any packet pass unused, so that no
  property asks for such a segment, nor for the one a stray `SeqNo` drops.
- A connection between the same two ends inherits the session that late
  acknowledgements created after the FIN; Conversation has one connection only.

What the models do in one step where the code takes several, or take not to happen:
a shrinking `realloc` that returns NULL (`HttpBuffer.Reset`); a worker that finds its
own deque filled between `take_head` and `try_steal` (`Steal` asks for an empty one
in the same step; the model's worker takes its own job first); the store of
`has_timeout`, the two increments of `timeout_id_` and the delayed message of one
request (`RequestTimeout`, which counts the message's two strong references as one);
and the references in `dummy.resumables`, which the sweep of `stop` never releases
(`Sweep`; `RefsExact` does not count them).

## Plan

In this order:

1. ByteLog, HttpBuffer and their proofs (done)
2. Exchange, Handle, the timeout check and their proofs (done)
3. Conversation (done)
4. HttpParse (done)
5. The frame reader composed with Handle (done, in Conversation)
6. Mailbox (done), Scheduling (done), Lifecycle (done), Basp (done)
7. Proofs of the safety properties of every module (done)
8. HashVal checked on 2^w arithmetic against what Handle assumes of it: symmetric,
   in range, and every bucket reachable, the last one too
9. Requests: awaited and multiplexed responses and the cache of skipped messages,
   on top of Scheduling; the deque's two locks
10. Basp: automatic connections, blacklists, spawn servers after their request,
    publishing while nodes connect

## Not modelled

Blocking actors, groups, serialization and typed messaging, the test framework, tools
and examples: the decoder does not use them, and what they do is data or blocking I/O.
Foreign frames, packet lengths beyond `int16_t` and the layout of headers and of the
record file are data the models abstract. In CAF, priorities, the printer,
`work_sharing`, weak references and the `synchronized_` functions of the mailbox are
left out. In the network layer the multiplexer and sockets are I/O that the model
takes for ordered pairs of streams, each with its buffer of what has not been flushed;
heartbeats, invalid headers, `publish` and `unpublish`, blacklists, automatic
connections and spawn servers beyond their request are left out.
