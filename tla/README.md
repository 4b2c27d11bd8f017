# learn_asio: a TLA+ verification of the asynchronous servers

The repository is a set of asio programs: an HTTP server and its client
(`src/src/http_server`, `src/src/http_client`, with `src/src/common`), the
daytime, timer and thread examples of the asio tutorial (`src/src/basics`) and a
second series of examples (`src/tutorial`), of which the chat server is the
largest. Paths in this document are those of the repository's checkout under
`src/`. The state that is hard to get right is in the asynchronous programs:
callbacks that run in an order nobody wrote down, objects kept alive by whoever
happens to hold a reference, and errors that arrive between two steps.

## 1. Inventory

| component | state | operations | talks to |
|---|---|---|---|
| `http_server::server` (server.cpp) | acceptor, signal set, `new_connection_` | `start_accept`, `hanlde_accept`, `hanlde_stop`, `run` | manager (calls), connection (creates) |
| `connection_manager` | `connections_`, a set of `shared_ptr` | `start`, `stop`, `stop_all` | connection (calls) |
| `http_server::connection` | socket, `buffer_`, `request_`, `response_` | `start`, `stop`, `handle_read`, `handle_write`, `dispatch` | manager (calls back), request, handler |
| `http_message`, `request` (message.cpp) | url, headers, body, status, the half-read header line | `parse`, eight parser callbacks, `save_headers` | http_parser (callbacks) |
| `request_handler`, `response` | status, headers, content | `on_get` ..., `to_buffers` | connection |
| `http_client` | one socket at a time | connect, write, read status, read headers, again | the server, by TCP |
| chat server (tutorial/301) | `sessions_`; per session a socket, a queue, a name | `accept`, `on_accept`, `broadcast`, `post`, `on_read`, `on_write` | sessions call the server back to broadcast |
| line server (202), echo server (201) | a session's read buffer and queue | `on_read`, `on_write` | its client |
| timers (106, timer1-5) | timers, a counter, a strand | `print1`, `print2`, connect and timeout handlers | threads in `run()` |
| daytime3, daytime7 over TCP | an acceptor, connections | accept, `Start`, `write` | clients, by TCP |
| UDP: 103, 104, daytime4-7 | a socket, the endpoint heard last | receive, send | clients, by UDP |
| io_context, threads (203-207, thread.cpp) | work guards, threads, a round-robin index | `run`, `run_one`, `stop`, `query` | threads |
| the rest | none | one library call after another | - |

What is hard in them, and what makes them right:

* **server, manager, connection.** One thread runs all handlers, in any order.
  A read handler holds its connection by `shared_from_this()`, a write handler by
  a raw `this` (connection.cpp:68, 74). Right means: whoever waits for a write is
  registered; never two operations on one connection at once (there is no lock);
  no open descriptor without an owner; an open server keeps accepting; a stopped
  one waits for nothing and `run()` returns.
* **http_message.** A read may end anywhere, inside a header's name too. Right
  means: the result does not depend on where reads end, and the answer is the one
  the request deserves. The second does not quite hold, see 4.
* **chat server.** A queue per session whose front is being written while others
  post. Right means: no message is stuck or lost, each member hears what was said
  since it joined in one common order, a slow client delays nobody.
* **client.** It waits for its server and its server for it, and each may cut the other short. Right
  means: neither waits for ever, and a 200 is a 200.
* **line server.** A buffer read while lines are taken out of it, and a queue as in the chat. Right
  means: what is sent comes back, and a session whose client leaves is let go. The first holds only for a
  client that waits for each line, see 4.
* **accept loops, daytime.** Exceptions out of handlers and destructors, on the only thread. Right
  means: one client cannot end the server for the others. It can, by a reset, which a client that closes before it has read causes too.
* **UDP.** One endpoint variable for all clients, datagrams lost and repeated. Right means: each datagram is
  answered once, to its sender, and a waiting client gets its answer. From 103 none does: its socket has no port.
* **timer5.** Two threads count in one variable. Right means: the strand makes the count exact.

The hazards this leads to, each at its line, are in `PROJECT.json` ("hazards"), with
the properties that cover them.

## 2. Modules

| module | models | lines of the source |
|---|---|---|
| `HttpServer` | server, connection_manager, connection: operations, lifetime, shutdown | server.cpp, connection_manager.cpp, connection.cpp, main.cpp |
| `HttpServerProofs` | its inductive invariant and nine theorems | |
| `HttpMessage` | one request through http_parser's callbacks, the verdict and the reply | message.cpp, connection.cpp:34-75, request_handler.cpp, response.cpp |
| `HttpMessageProofs` | its inductive invariant and seven theorems | |
| `HttpExchange` | http_client against one connection of the server, counted in bytes | http_client/main.cpp, connection.cpp:55-88 |
| `HttpExchangeProofs` | its inductive invariant and five theorems | |
| `ChatRoom` | what the chat server promises (abstract) | 301.chat_server.cpp |
| `ChatServer` | sessions, queues, broadcast; refines `ChatRoom` | 301.chat_server.cpp |
| `ChatServerProofs` | its inductive invariant and eight theorems | |
| `StrandCounter` | two timer handlers counting in a strand or racing | basics/timer5.cpp |
| `StrandCounterProofs` | its inductive invariant and four theorems | |
| `LineEcho` | what the line server promises (abstract) | 202.async_tcp_server_streambuf.cpp |
| `LineSession` | a session, its buffer and its queue; refines `LineEcho` | 202.async_tcp_server_streambuf.cpp:19-92 |
| `LineSessionProofs` | its inductive invariant, three theorems | |
| `AcceptLoop` | accepting, serving and failing in four servers | 201, 202:95-131, basics/daytime3.cpp, basics/daytime7.cpp:19-78 |
| `AcceptLoopProofs` | its inductive invariant, three theorems | |
| `DaytimeUdp` | four datagram servers and their clients over a lossy network | 103, 104, basics/daytime4.cpp to daytime7.cpp |
| `DaytimeUdpProofs` | its inductive invariant, four theorems | |
| `MCHttpMessage`, `MC....cfg` | the instances TLC checks | |

### HttpServer

The state is the members of the three classes: `is_open` is `acceptor_.is_open()`,
`new_connection` and `connections` are the members of these names, `socket` the
state of each `socket_`. A `Conn` is a connection object; `Fresh` are those
`make_shared` has not handed out. `accepting`, `signal`, `reading[c]`, `writing[c]`
are the asynchronous operations: `"idle"`, `"wait"` (the kernel has it), or the
error code with which the handler is queued. `message[c]` is how far the request
has been parsed.

There is one action per handler, and it is the whole handler: `hanlde_accept`
with its four ways (closed acceptor, error, client, `remote_endpoint()` throws and
nobody catches), `hanlde_stop` with `stop_all`, `handle_read`, `handle_write`. Four
actions stand for the kernel and asio: an accept, a read, a write completes, a
signal arrives; `run_returns` is the end of `io_context::run()`.

* asio promises no order between the handlers of different operations. Any queued
  handler may be next.
* `close()` completes a pending operation with `operation_aborted`; an operation that
  has its outcome keeps it. The code does not treat `operation_aborted` as an error
  (connection.cpp:56): the aborted read goes on to the parser with zero bytes, which
  http_parser takes for the end of the stream. `Parse` has these cases. The parser is
  initialised for requests and responses alike (message.cpp:49), so a client may send a
  message that only the end of the stream ends (`"until_eof"`).
* A connection is alive while the manager, `new_connection_` or a read handler holds
  it. `handle_write` on a connection that is not is undefined behaviour:
  `handle_write_dangling` either gets through without effect or ends the process. It
  happens only after `stop_all` has cleared the set under a queued write handler; the
  property `WriterRegistered` says that it does not happen before.
* No failure of `async_wait` or of the constructor's bind is modelled: they
  end the program before it runs.

### HttpMessage

The client's bytes are a sequence of elements, in the order in which http_parser
calls back: begin, url, field, value, ..., message_complete. An element's text is a
sequence of pieces, and a read may end between any two pieces and between any two
elements, but not between the last byte of a message and its `message_complete`.
The pieces of a begin are methods (`Taken`): http_parser calls `on_message_begin` at the first byte, takes the message
for a POST when that is a P, and corrects itself at later bytes, with which no callback comes (`method_corrected`).
`"junk"` is any bytes the parser refuses. `IsStream` is the order the parser's grammar gives its callbacks
(a value behind its name, a message begun before it is complete and complete before the next); every member of `Streams`
has it, by assumption. Each callback is an action that takes some
pieces. `parse` is the beginning of `handle_read`, `handle_read` what follows
`http_parser_execute`: error over status (`Verdict`), the method (`Method`), the
answer (`Reply`, `dispatch`). `stock_response` and `response` are the two constructors of a
response, `to_buffers` what is sent of it; texts are names, and a Content-Length is named for
the content it counts.

### HttpExchange

The loop of the client's `main` and the server's end of its connection, composed over a byte
stream: `sent` bytes of the request have arrived, `received` of them are read, `written` bytes
of the reply are on their way. Elements and headers are lengths here: what matters is where the
message ends (`End`) and where the request does (`Request`), two bytes later, because line 47 of the
client writes a blank line too many. A read takes what has arrived, up to the buffer (`Taken`); a
write takes any part of the reply (`async_write_some`); both happen together with their handlers,
since on one connection nothing else can come between. The client asks localhost, so a connection
breaks only when the server stops. A new round forgets the server's end of the old connection: what
its handlers still do reaches nobody.

### ChatServer and ChatRoom

`ChatServer` has the members of `session` and `server`, the operations as above, and two
history variables: `room`, everything broadcast in its order, and `sent`, what each
session's `on_write` has taken off its queue. `post` of several messages to one session
in one handler (the broadcast and then the session's own message) is one operator.
`accept_error` includes what the destructor of the session does, `server_destroyed` what the
destructors do to the vector when main ends: with sessions in it, `broadcast` walks a
vector that is being destroyed, which is undefined.

`ChatRoom` is the promise: to a member everything announced since it joined is
delivered in the order of the room, its own line twice (as the broadcast, and
as the echo). `RoomSpec` is the refinement, with `seen` mapped to `sent`.

### StrandCounter

Two handlers, `print1` and `print2`, each a `check`, a `load` (the number printed), a `store` with which
the timer is armed again, or `done` at the limit. With `need_sync_` a handler has the strand from its check
to its return. Without it the two race for a plain `unsigned`, which is undefined behaviour; it is
modelled by the accesses a build makes of it, one load for the check, one for the increment
and one store, in any interleaving. The eleven threads are not in the state: two handlers never need more than two.

### LineSession and LineEcho

A byte is its number in what the client sends; `buffer_` is the bytes from `pos + 1` to `got`. `line_read` is
`on_read`: `Line` is what `getline` takes, `Consumed` where the buffer begins after `consume` has taken as
many bytes again (or all there are). A line pushed to `messages_` is its first and last byte. An operation of no bytes
is done at once, on a closed socket too: so is the write of an empty line, and a read while the buffer still has a line.
`throws` is `name()` on an open socket whose client has reset the connection. A `patient` client
begins a line when the one before has come back.

`LineEcho` is what is left of an echo server: pieces of what was sent, each up to the end of a line, in their
order and none twice; in front of a piece there may be missing as many bytes as the piece before took.
`EchoSpec` maps `heard` to `taken` and `returned` to `popped`.

### AcceptLoop

`program` is one of four servers that differ in what they do with an accepted client and with errors. The state is the accept
operation and the object bound into its handler (`new_session`), and of each object its socket, its
client and its one operation. `Throws` is an exception on its way out of `run()`: the connections still alive are destroyed
before main catches it, and a destructor that throws (`DestructorThrows`) ends the process. The sessions of 202
are their reads here; the rest of them is `LineSession`.

### DaytimeUdp

`receiving` is the blocking or asynchronous receive, `remote_endpoint_` the member of daytime6 and daytime7 and the local
variable of the loops. Each server's reaction to a datagram and to a failed receive is an action. Datagrams are
counted, in each direction of each client; the network may take one away or add one, which with
the free choice among those under way is loss, repetition and reordering. A send that fails is a loss. `lost` remembers whether a datagram of a client has been lost. `Bound` says which servers'
sockets have the port: 103's has not, so no datagram is delivered to it, and what it would do with one (answer it, with a `send_to`
that throws) is not in the module.
daytime7's TCP half (in `AcceptLoop`) appears as `handler`, which may end the process at any time.

## 3. Runs

| run | instance | states | shows |
|---|---|---|---|
| `http_server` | 4 connections | 372120 | one operation per connection, owners of writers and descriptors, what is left after the stop, answers, registrations; after a signal `run()` returns |
| `http_server_stop_called` | 2 connections | (violation) | the handler that a comment says is not called is called |
| `http_message` | 344 streams: 248 requests alone, others in pairs or with refused bytes behind | 12331 | reads may end anywhere; the reply |
| `chat_server` | 3 sessions, one of them prompt | 106323 | queues, order, refinement of `ChatRoom`; a slow client delays nobody |
| `http_exchange` | a request of 6 + 2 bytes read by 4, a reply of 4, two rounds | 3789 | who gets which answer, what ends the client |
| `strand_counter` | limit 6, with the strand and without | 6622 | the strand counts exactly; the race loses updates, and ends at the limit or one past it |
| `line_session` | 6 bytes, any of them a newline | 60844 | who is echoed what, refinement of `LineEcho`; a client that leaves is let go |
| `accept_loop` | 3 objects, four programs | 6423 | what ends a server, and that until then clients are served |
| `daytime_udp` | 3 clients, 2 faults, four programs | 35507 | who is answered how often; who waits for ever |
| `udp_103_listens` | 1 client, no faults | (violation) | the server that says it listens on a port hears nobody |

**Bounds.** The only bound of the servers is the number of objects: the kernel
accepts a client only while one is left for the next accept, so n objects are n - 1
clients in one behaviour. With four there are three clients at once: one with
a read queued, one with a write queued and one accepted and not registered,
when the signal comes. No property relates more than two connections. In the chat three
sessions are two members, speaker and listener, and a third that fails to arrive or
keeps accepting armed; every session speaks once, because the code reads once, so the
history is finite. In `AcceptLoop` three objects are a client that sleeps or resets, one it delays, and the
object that waits to be accepted into.

The bounds of `HttpMessage` are its streams: up to two header lines
and two trailer lines of five kinds (a name in two pieces, a name repeated, an empty
value), two requests in one stream, the second of every method the code or the parser's
corrections tell apart but GET and POST. `save_headers` keeps one line back, so two lines in
a row are what it takes to see each line affect the next.

The lengths of `HttpExchange` keep what counts in the real ones (121 + 2048 bytes, 2 more, a buffer of 1024): the message ends
inside a buffer, not at its end, and the extra bytes fit in the read that gets there. A second
round is enough to begin one after each way the first can end.

Six bytes are three lines of two bytes, or a line, the piece that its `consume` takes away, and a line that begins in the
middle; empty lines and bytes behind the last newline are among them. Two faults of the network are a lost answer
after a repeated question, or a receive that fails before and after the first datagram; each client asks once, as daytime4 does (104 asks again only when it is answered, which 103 never does).
A limit of six for timer5 (100 in the code) lets one handler fall behind the other by several counts.
The proofs are for all lengths, limits and sets.

Deadlock is not checked: in every module the process ends, or the clients stop.
No run uses symmetry, since each checks liveness too.

**Fairness.** In `HttpServer` and `ChatServer` `EventLoop` is weak fairness of each handler: `run()` takes queued handlers one
after the other, so each gets its turn. Nothing is assumed of the network, of clients
or of the operator. The chat adds weak fairness of `WriteCompletes` for the sessions in `Prompt`, a
condition on those clients: they read what is sent to them or break the connection.
`PromptIsServed` then says that other clients, which may never read, do not matter.

`HttpExchange` assumes weak fairness of each program (its handlers run, and localhost delivers);
`StrandCounter` that timers expire and threads run; `LineSession` that handlers run, that the kernel reports an end or an error of
the connection, and that it takes what is written; `AcceptLoop` that handlers run, a sleep ends, and the kernel takes a text as
short as the time; `DaytimeUdp` that the programs run and that what the network does not lose arrives. No client need ever
send, leave or ask.

**Mutants.** In each module the section "Slips" has mistakes one could make in this code (a
registration forgotten, `=` for `+=`, a handler that does not re-arm). Each property
of each passing run is broken by one of them (`PROJECT.json`, "mutants").

## 4. What the checks say about the code

* `handle_write`'s raw `this` is safe as long as the server is open, and only because
  nothing unregisters a connection while it writes. It is not once `hanlde_stop` has run.
* A connection answers once and then stays registered with its socket shut down but
  open until the server stops (`ReleasedOnlyOnErrorOrStop`, `OpenSocketOwned`).
* Shutdown completes although aborted reads are parsed and may start another operation:
  on a closed socket it fails at once.
* Where reads end has no effect on url, headers and body. It has on the answer:
  the same bytes after a request make it 400 if they came in the read that completes it,
  and are never seen otherwise (`AnswerExact`). A header line with an empty value is glued to
  the next one, the last trailer line is lost (`StoredHeaders`), and with two
  requests in one read the method is the second's, or what the parser takes it for by then: a GET with the first byte of
  a PATCH behind it is answered as a POST, with the whole PATCH as a method nobody handles (`LastMethodAnswers`).
* The repository's client is answered 400 by the repository's server whenever its request arrives before the first read
  (`WholeIsRefused`); it is answered 200 only if a read happens to end at the byte where its Content-Length does. It never hangs
  (`RoundEnds`), but a reply of which less than the headers was written ends it, as the server's end does (`EndsOnlyIfCut`).
* Every reply states the length of the content it carries. That the connection ends with it is said by the 200s only
  (`ReplyStandsAlone`).
* 202 loses what a client sends ahead: `consume` after `getline` takes as many bytes again, so a second line in the buffer,
  or its beginning, is gone. A client that waits for each line never notices (`PatientIsEchoed`); for any other `LineEcho`
  is all that holds.
* After a failed write 202 goes on reading the lines it has in the buffer from the closed socket. They pile up behind the line
  whose write failed, no further write is started, and it comes to an end (`Released`).
* A client that resets its connection ends 201, 202 and daytime3 as a whole, since `remote_endpoint()` throws, and
  daytime7, whose failed write throws. Without a reset, or with the daytime servers a failed accept, none of them ends
  (`OnlyFaultsEnd`); but a client that closes before it has read what it was sent turns its leaving into a reset.
* The `catch` around `run()` in daytime3's main is never reached: there is always a connection, at least the one waiting to be accepted
  into, whose destructor throws during unwinding (`CatchNotReached`). daytime7's is.
* daytime6 answers each datagram once and to its sender although one `remote_endpoint_` serves all (`OnceEach`); what a failed receive
  sends goes to whoever asked last (`ErrorToKnown`). daytime7's UDP half is deaf after its first datagram or error
  (`ServesOne`).
* timer5 without the strand prints numbers twice, and ends at the limit or one past it, never below.
* A chat client is heard once. After a failed write its session stays in the
  room and its queue grows for ever (`DeadQueueOnlyGrows`).
* Finding: server.cpp:48-49 calls `hanlde_stop` "not called"; the constructor registers it
  and a signal calls it.
* Finding: 103.udp_server.cpp:11 says "Listening on port" 5678; the socket is opened on line 12 and never bound to the endpoint of line 10,
  so the server hears nobody and 104 waits for ever (`Listens`).

## 5. Proofs

The `...Proofs` modules prove, with TLAPS, for every set of connections and sessions, all lengths,
every limit, and all streams however they are cut. Assumed is that the sets are not empty (`ConnAssumption`, `SessionAssumption`, which also
says that `Prompt` are sessions), that lengths and limits are naturals of the obvious order
(`LengthsAssumption`, `kCountAssumption`, `TotalAssumption`, `BoundsAssumption`), that the names "none" and "nobody" are nobody's, that the client's message does not end where a full buffer does
(`BoundaryAssumption`: 2169 is no multiple of 1024), and that what http_parser calls back for is in the order of its grammar
(`StreamsAssumption`). Every one of them is evaluated by TLC for the instances it checks.

*HttpServer.* `OneOperation` and the others are not inductive. `Inv` adds who owns an
operation: while the server is open a registered connection, afterwards one
with a closed socket (`OperationsOwned`); that an object not yet accepted has none
(`FreshUntouched`, `NewUntouched`), so that the read `manager_start` begins is its only one;
and that a parsed request has no read any more (`ParsedReadsNoMore`), so that no second
answer is begun. `NewUntouched` also ties the socket of `new_connection` to the state of the accept,
which is what keeps a client accepted and not registered from being lost. One lemma
per handler and one for the kernel show that steps keep `Inv`; the theorems follow, the two action
properties from `Inv` and the step.

*HttpMessage.* `SplitsDoNotShow` compares the three members with functions of everything handed over so far (`Consumed`), and is
not inductive: what a callback stores depends on the line it has kept back. `Inv` adds what that line is (`Buffered`: the value
that waits and its name, or the names since the last value), how far into an element the parser is (`Position`), what the last
message begun is taken for so far (`Begun`) and how far the answer is (`Answering`). Every callback, wherever the read ended, makes `Consumed` longer by one piece, of
the last element or of a new one (`Longer`, `CallsLonger`). What such a piece does to `Texts`, to the buffered line and to `StoredHeaders` is said
by `LongerTexts`, `LongerPasses`, `LongerValue` and `LongerLine`, and each callback does the same to the members (`Callback`, `SavesLine`); what it does to the method, `LongerMethod`. So
the split does not show because the functions cannot see it. `PlainAsSent` is then about sequences alone: in a plain message each
value closes a line whose only name is the element before (`PlainNames`). `AnswerExactly`, `LastMethod` and `ReplyAlone` follow from
`Answering` and `Begun`.

*ChatServer.* Two invariants, one upon the other. `Queues` is about each session's queue. `NoLostWakeup` is kept by `post` and `on_write` for a session whatever its socket, except
that a socket just opened must find its queue empty; hence `Outsiders`: who is not in
`sessions_` has no operation and no message. `SpeaksAtMostOnce` needs `SpokenReadsNoMore`. `SeqFacts`,
`PostQueues` and `BroadcastQueues` say once what a post does to each queue: it only grows, at its
end, and a write under way stays as it is; `FrontUntouched` is a consequence. `DeadQueueStays`
adds that what is posted goes behind (`PrefixFacts`, `BroadcastGrows`).

`Inv` adds `EverythingDue`, what a member has been sent and what is queued is what the room has for it, and `Registered`, that the members are those the
room has heard join, without which a newcomer's queue would not begin where its part of the history does. `DueAppend` says that what is due to a
member ends with what it hears of the last message, `DueStep` that `broadcast` puts just that behind its queue, `Written` that `on_write` takes
the next thing due. `ImplementsRoom` proves the refinement: each handler is `Join`, `Say`, `Leave` or `Deliver` of `ChatRoom`
or leaves its state alone (`StepOfRoom`). The room has no queues, sockets or
operations; its `seen` is `sent`.

*HttpExchange.* `WholeIsRefused` needs `FullBuffers`: while the server wants more of a request that was there at once,
it has read a multiple of the buffer. The next read is a full buffer again, which cannot end at
`End` by the assumption, or all the rest, which ends behind it. `InOrder` says which of request, answer and
reply come before which, for the two properties of the client.

*StrandCounter.* That the count never passes the limit by more than one needs `LastOne`: when a handler
is to store the limit plus one, the other has reached the limit and cannot pass its check any
more. That it ends at the limit at least is `CountsOn`. In the strand, `InStrand`: what is loaded is still true when it is stored.

*LineSession.* `EchoSpec` needs to know where the buffer begins: at the end of the last line, or further by
no more than that line was long (`Behind`). For a patient client there is nothing behind the line it is at (`OneLineAhead`), because it sent
that line when the queue was empty, and so `consume` finds nothing to take: `PatientIsEchoed`. That each step is one of `LineEcho`'s or
leaves its state alone then follows action by action, which makes this a refinement proved and not only checked.

*AcceptLoop.* `Owned` says which objects have an operation, an open socket, a client that has left, and that with the daytime servers an operation
fails only by a reset; `Pending` says what is known of the object waiting to be accepted into. From these an exception always has a fault behind it
(`ThrowsInv`), and in daytime3 a connection alive whose destructor throws (`WaitingThrows`).

*DaytimeUdp.* `OnceEach` counts the datagram being handled (`Unanswered`) and so is inductive; `ErrorToKnown` needs that the endpoint is
always somebody heard (`HeardLast`), which also holds what `ServesOne` needs.

*Induction.* What `FlattenSeq` makes of a sequence is needed for every sequence, in `Due` of `ChatRoom` and in `Texts`. The library's induction
theorems cannot be used, for they take an operator as a parameter. Both modules therefore begin with the least element of a set of
naturals (`Least`, from the well-foundedness of `<`), induction for sets of naturals from it (`Induct`), and the one fact that is needed of the fold
below `FlattenSeq`, that one sequence more is appended (`FlattenAppend`).

Each `Inv` was checked with TLC before it was proved; those of `HttpServer`, `HttpMessage`, `HttpExchange`, `ChatServer` and `LineSession` are
invariants of a run. `TypeCorrect` and `KeepsAccepting` are conjuncts of an `Inv`.

**Model-checked only.** Every invariant and every refinement a run checks is proved, and every action property but the liveness ones:
`ShutdownCompletes`, `PromptIsServed`, `RoundEnds`, `CountEnds`, `Released`, `Served` and `Answered` need fairness, which is out of the prover's reach.

## 6. Plan

Done: `HttpServer`, `HttpMessage`, `ChatServer` over `ChatRoom`, `HttpExchange`, `StrandCounter`, `LineSession` over `LineEcho`,
`AcceptLoop`, `DaytimeUdp`, with their proofs. What would come next:

1. Safety halves of the liveness properties, proved: what is queued or outstanding whenever the program is not done.
2. The asynchronous client of 110 as a second client of `HttpExchange`.
3. thread.cpp: threads that outlive main.

## 7. Not modelled

* Logging, the command line, the build; the text of names, dates and headers.
* Responses through `http_message::parse`: the server hands it requests, and the client does not use it.
* The lifetime of the bytes of a reply (connection.cpp:67): what is sent from memory given back is undefined.
* 106 and timer1 to timer4: one thread, one or two handlers, a dozen states; a module would be longer than the
  program it models.
* 203 to 207 and thread.cpp: main programs that call asio and keep hardly a state of their own; what matters in thread.cpp, the end of
  main under detached threads, is undefined behaviour.
* The sequential examples, 110 among them with one operation at a time: one library call after another.

`PROJECT.json` lists every part with its status.
