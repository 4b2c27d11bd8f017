----------------------------- MODULE HttpServer -----------------------------
(***************************************************************************)
(* The HTTP server of src/http_server: class server (acceptor, signal set, *)
(* the connection waiting to be accepted), connection_manager (the set of  *)
(* registered connections) and class connection (one socket, at most one   *)
(* request and one reply), all driven by the one thread in                 *)
(* io_context::run().                                                      *)
(*                                                                         *)
(* Every asynchronous operation of asio is in one of the states            *)
(*   "idle"     not started, or its handler has been run,                  *)
(*   "wait"     started, the kernel has not finished it,                   *)
(*   an outcome finished: its handler is queued with that error code.      *)
(* The handlers tell three error codes apart: none ("ok"),                 *)
(* operation_aborted ("aborted") and any other ("failed").  asio promises  *)
(* no order between the handlers of different operations, so any queued    *)
(* handler may be the next one to run.                                     *)
(***************************************************************************)
CONSTANTS
  Conn     \* the connection objects; a finite set bounds the clients served

ASSUME ConnAssumption == Conn # {}

Outcome   == {"ok", "aborted", "failed"}
Operation == {"idle", "wait"} \cup Outcome

(* What request::parse has made of the bytes so far (message_status_ and   *)
(* the state of http_parser behind it).  "until_eof" is the body of a      *)
(* message that only the end of the stream can end.                        *)
WantMore == {"start", "partial", "until_eof"}
Parsed   == {"complete", "faild"}

VARIABLES
  process,         \* main(): in run(), returned from it, or std::terminate
  is_open,         \* acceptor_.is_open()
  accepting,       \* the async_accept operation
  signal,          \* the async_wait of signals_
  new_connection,  \* new_connection_
  connections,     \* connection_manager_.connections_
  socket,          \* socket_ of each connection
  reading,         \* its async_read_some operation
  writing,         \* its async_write_some operation
  message          \* its request_

vars == <<process, is_open, accepting, signal, new_connection, connections,
          socket, reading, writing, message>>
ofServer == <<process, is_open, accepting, signal, new_connection>>

-----------------------------------------------------------------------------
(* Slips: a plausible mistake in the definition each is named for, before  *)
(* the double underscore.  None is part of the specification; they show    *)
(* that the properties notice such mistakes.                               *)

\* the connection is read but never registered
manager_start__unregistered(c) ==
  /\ reading' = [reading EXCEPT ![c] = "wait"]
  /\ UNCHANGED connections

\* the registration is dropped, the socket left open
manager_stop__left_open(c) ==
  /\ connections' = connections \ {c}
  /\ UNCHANGED socket

\* the set is cleared without closing what is in it
stop_all__only_clears ==
  /\ connections' = {}
  /\ UNCHANGED <<socket, reading, writing>>

\* an accept error is reported and nothing more
accept_error__returns ==
  /\ is_open /\ accepting # "ok"
  /\ accepting' = "idle"
  /\ UNCHANGED <<process, new_connection, connections, reading>>

\* the closed acceptor is not noticed, and armed again
accept_closed__rearms ==
  /\ ~is_open
  /\ accepting' = "failed"
  /\ UNCHANGED <<process, new_connection, connections, reading>>

\* the next request is read while the reply is on its way
reply__and_read(c) ==
  /\ writing' = [writing EXCEPT ![c] = "wait"]
  /\ reading' = [reading EXCEPT ![c] = "wait"]

\* the connection is done with: unregister it
written__erases(c) ==
  /\ connections' = connections \ {c}
  /\ UNCHANGED <<socket, reading>>

\* keep-alive: read the next request into the same parser
written__reads_on(c) ==
  /\ reading' = [reading EXCEPT ![c] = "wait"]
  /\ UNCHANGED <<socket, connections>>

-----------------------------------------------------------------------------
(* Lifetime.  A connection lives while a shared_ptr to it does: the        *)
(* manager's, the server's new_connection_, or the one bound into its read *)
(* handler.  The write handler is bound to a raw this and holds none.      *)
Alive(c) == c \in connections \/ c = new_connection \/ reading[c] # "idle"

(* The objects make_shared can still hand out: never accepted, not held.   *)
Fresh == {c \in Conn : socket[c] = "unopened"}

(* asio fails an operation on a closed descriptor at once.                 *)
Started(s) == IF s = "open" THEN "wait" ELSE "failed"

(* close() aborts the operation the kernel has not finished; one that has  *)
(* an outcome keeps it.                                                    *)
Cancelled(op) == IF op = "wait" THEN "aborted" ELSE op

-----------------------------------------------------------------------------
(* server::server and main: the signal wait and the first accept.          *)
Init ==
  /\ process = "running"
  /\ is_open = TRUE
  /\ accepting = "wait"
  /\ signal = "wait"
  /\ new_connection \in Conn
  /\ connections = {}
  /\ socket  = [c \in Conn |-> "unopened"]
  /\ reading = [c \in Conn |-> "idle"]
  /\ writing = [c \in Conn |-> "idle"]
  /\ message = [c \in Conn |-> "start"]

start_accept ==
  /\ \E c \in Fresh : new_connection' = c
  /\ accepting' = "wait"

(* connection_manager::start of the accepted connection: registered, then  *)
(* its first read.                                                         *)
manager_start(c) ==
  /\ connections' = connections \cup {c}
  /\ reading' = [reading EXCEPT ![c] = Started(socket[c])]

(* connection_manager::stop: close the socket and drop the registration.   *)
manager_stop(c) ==
  /\ socket' = [socket EXCEPT ![c] = "closed"]
  /\ connections' = connections \ {c}

(* connection_manager::stop_all: the same for every registered one.        *)
stop_all ==
  /\ socket' = [c \in Conn |-> IF c \in connections THEN "closed" ELSE socket[c]]
  /\ reading' = [c \in Conn |-> IF c \in connections THEN Cancelled(reading[c])
                                                     ELSE reading[c]]
  /\ writing' = [c \in Conn |-> IF c \in connections THEN Cancelled(writing[c])
                                                     ELSE writing[c]]
  /\ connections' = {}

-----------------------------------------------------------------------------
(* server::hanlde_accept, by the way it goes.                              *)
accept_closed ==
  /\ ~is_open
  /\ accepting' = "idle"
  /\ UNCHANGED <<process, new_connection, connections, reading>>

accept_error ==
  /\ is_open /\ accepting # "ok"
  /\ start_accept
  /\ UNCHANGED <<process, connections, reading>>

accept_client ==
  /\ is_open /\ accepting = "ok"
  /\ manager_start(new_connection)
  /\ start_accept
  /\ UNCHANGED process

(* remote_endpoint() throws when the peer has already reset the connection *)
(* and nothing between run() and main catches it.                          *)
accept_throws ==
  /\ is_open /\ accepting = "ok"
  /\ process' = "terminated"
  /\ UNCHANGED <<accepting, new_connection, connections, reading>>

hanlde_accept ==
  /\ process = "running"
  /\ accepting \in Outcome
  /\ accept_closed \/ accept_error \/ accept_client \/ accept_throws
  /\ UNCHANGED <<is_open, signal, socket, writing, message>>

(* server::hanlde_stop, the handler of SIGINT and SIGTERM.                 *)
hanlde_stop ==
  /\ process = "running"
  /\ signal = "ok"
  /\ signal' = "idle"
  /\ is_open' = FALSE
  /\ accepting' = Cancelled(accepting)
  /\ stop_all
  /\ UNCHANGED <<process, new_connection, message>>

(* http_message::parse: the states the request can be in after a read.  A  *)
(* read that carried bytes may hold any of them; an aborted one carries    *)
(* none, which http_parser takes for the end of the stream.                *)
Parse(m, outcome) ==
  CASE outcome = "ok" /\ m = "start"     -> WantMore \cup Parsed
    [] outcome = "ok" /\ m = "partial"   -> (WantMore \cup Parsed) \ {"start"}
    [] outcome = "ok" /\ m = "until_eof" -> {"until_eof"}
    [] outcome # "ok" /\ m = "start"     -> {"start"}
    [] outcome # "ok" /\ m = "until_eof" -> {"complete"}
    [] OTHER                             -> {"faild"}

(* connection::handle_read.  Only an error other than operation_aborted    *)
(* stops the connection; an aborted read goes on to the parser.            *)
read_failed(c) ==
  /\ reading[c] = "failed"
  /\ manager_stop(c)
  /\ reading' = [reading EXCEPT ![c] = "idle"]
  /\ UNCHANGED <<writing, message>>

(* want_more: connection::start again.                                     *)
read_on(c) ==
  /\ reading[c] # "failed"
  /\ \E m \in Parse(message[c], reading[c]) \cap WantMore :
       message' = [message EXCEPT ![c] = m]
  /\ reading' = [reading EXCEPT ![c] = Started(socket[c])]
  /\ UNCHANGED <<connections, socket, writing>>

(* async_write_some of the answer, or of "bad request", bound to this.     *)
reply(c) ==
  /\ writing' = [writing EXCEPT ![c] = Started(socket[c])]
  /\ reading' = [reading EXCEPT ![c] = "idle"]

read_parsed(c) ==
  /\ reading[c] # "failed"
  /\ \E m \in Parse(message[c], reading[c]) \cap Parsed :
       message' = [message EXCEPT ![c] = m]
  /\ reply(c)
  /\ UNCHANGED <<connections, socket>>

handle_read(c) ==
  /\ process = "running"
  /\ reading[c] \in Outcome
  /\ read_failed(c) \/ read_on(c) \/ read_parsed(c)
  /\ UNCHANGED ofServer

(* connection::handle_write on a living connection.  On success it shuts   *)
(* the socket down and does nothing else: no close, no erase.  shutdown on *)
(* a closed socket throws and is caught.                                   *)
write_failed(c) ==
  /\ manager_stop(c)
  /\ UNCHANGED reading

written(c) ==
  /\ socket' = [socket EXCEPT ![c] = IF @ = "open" THEN "shut" ELSE @]
  /\ UNCHANGED <<connections, reading>>

handle_write(c) ==
  /\ process = "running"
  /\ writing[c] \in Outcome
  /\ Alive(c)
  /\ \/ writing[c] = "failed" /\ write_failed(c)
     \/ writing[c] # "failed" /\ written(c)
  /\ writing' = [writing EXCEPT ![c] = "idle"]
  /\ UNCHANGED <<ofServer, message>>

(* connection::handle_write through a this whose connection has been       *)
(* destroyed.  What the build does is undefined: the handler may find the  *)
(* old bytes and get through, or the process may die.                      *)
handle_write_dangling(c) ==
  /\ process = "running"
  /\ writing[c] \in Outcome
  /\ ~Alive(c)
  /\ process' \in {"running", "terminated"}
  /\ writing' = [writing EXCEPT ![c] = "idle"]
  /\ UNCHANGED <<is_open, accepting, signal, new_connection, connections,
                 socket, reading, message>>

(* io_context::run() returns when no operation and no handler is left.     *)
run_returns ==
  /\ process = "running"
  /\ accepting = "idle" /\ signal = "idle"
  /\ \A c \in Conn : reading[c] = "idle" /\ writing[c] = "idle"
  /\ process' = "returned"
  /\ UNCHANGED <<is_open, accepting, signal, new_connection, connections,
                 socket, reading, writing, message>>

-----------------------------------------------------------------------------
(* The kernel.  It accepts a client only while another object is left for  *)
(* the next accept: the bound Conn puts on the clients of a behaviour.     *)
AcceptCompletes ==
  /\ process = "running"
  /\ accepting = "wait"
  /\ \/ /\ Fresh # {new_connection}
        /\ accepting' = "ok"
        /\ socket' = [socket EXCEPT ![new_connection] = "open"]
     \/ /\ accepting' = "failed"
        /\ UNCHANGED socket
  /\ UNCHANGED <<process, is_open, signal, new_connection, connections,
                 reading, writing, message>>

ReadCompletes(c) ==
  /\ process = "running"
  /\ reading[c] = "wait"
  /\ \E o \in {"ok", "failed"} : reading' = [reading EXCEPT ![c] = o]
  /\ UNCHANGED <<ofServer, connections, socket, writing, message>>

WriteCompletes(c) ==
  /\ process = "running"
  /\ writing[c] = "wait"
  /\ \E o \in {"ok", "failed"} : writing' = [writing EXCEPT ![c] = o]
  /\ UNCHANGED <<ofServer, connections, socket, reading, message>>

SignalArrives ==
  /\ process = "running"
  /\ signal = "wait"
  /\ signal' = "ok"
  /\ UNCHANGED <<process, is_open, accepting, new_connection, connections,
                 socket, reading, writing, message>>

-----------------------------------------------------------------------------
Handler(c) == handle_read(c) \/ handle_write(c) \/ handle_write_dangling(c)

Next ==
  \/ hanlde_accept \/ hanlde_stop \/ run_returns
  \/ AcceptCompletes \/ SignalArrives
  \/ \E c \in Conn : Handler(c) \/ ReadCompletes(c) \/ WriteCompletes(c)

Spec == Init /\ [][Next]_vars

(* run() takes queued handlers one after the other, so each of them gets   *)
(* its turn.  Nothing is assumed of the clients, the kernel or the         *)
(* operator: no read, write or accept need ever complete, no signal come.  *)
EventLoop ==
  /\ WF_vars(hanlde_accept)
  /\ WF_vars(hanlde_stop)
  /\ WF_vars(run_returns)
  /\ \A c \in Conn : WF_vars(Handler(c))

FairSpec == Spec /\ EventLoop

-----------------------------------------------------------------------------
(* The types of the state.                                                 *)
TypeOK ==
  /\ process \in {"running", "returned", "terminated"}
  /\ is_open \in BOOLEAN
  /\ accepting \in Operation
  /\ signal \in {"idle", "wait", "ok"}
  /\ new_connection \in Conn
  /\ connections \subseteq Conn
  /\ socket \in [Conn -> {"unopened", "open", "shut", "closed"}]
  /\ reading \in [Conn -> Operation]
  /\ writing \in [Conn -> Operation]
  /\ message \in [Conn -> WantMore \cup Parsed]

(* The implicit strand.  connection has no lock: request_, response_ and   *)
(* buffer_ are safe only because a connection never has a read and a write *)
(* outstanding together (connection.cpp:55-75).                            *)
OneOperation == \A c \in Conn : reading[c] = "idle" \/ writing[c] = "idle"

(* handle_write is bound to a raw this (connection.cpp:68,74).  While the  *)
(* server is open that is safe: whoever waits for a write is registered,   *)
(* so the manager's shared_ptr keeps it alive.                             *)
WriterRegistered ==
  is_open => \A c \in Conn : writing[c] # "idle" => c \in connections

(* No descriptor is lost: an open socket is one stop_all or the server's   *)
(* destructor reaches (connection_manager.cpp:6-20).                       *)
OpenSocketOwned ==
  \A c \in Conn : socket[c] \in {"open", "shut"} =>
                    c \in connections \cup {new_connection}

(* Once the server has been stopped no operation can wait for a client or  *)
(* for the network, and nothing is registered or becomes registered again  *)
(* (server.cpp:50-66, the check at server.cpp:32).                         *)
StopLeavesNothingWaiting ==
  ~is_open =>
    /\ connections = {}
    /\ accepting # "wait"
    /\ \A c \in Conn : reading[c] # "wait" /\ writing[c] # "wait"

(* An open server goes on accepting: whatever a handler did, an accept is  *)
(* outstanding or its handler is queued (server.cpp:37-45).                *)
AcceptorAlwaysArmed == is_open => accepting # "idle"

(* A connection answers one request at most, and the request it answers is *)
(* not touched again: once parse has said complete or faild, message_ and  *)
(* the reply that refers to it stay as they are (connection.cpp:61-74).    *)
AnswerOnce ==
  [][\A c \in Conn : message[c] \in Parsed =>
       /\ message'[c] = message[c]
       /\ writing[c] = "idle" => writing'[c] = "idle"]_vars

(* What the success path of handle_write leaves out: a connection leaves   *)
(* the manager's set only through an error of its own or when the server   *)
(* stops.  A served client stays registered, its socket shut down but not  *)
(* closed (connection.cpp:83-87).                                          *)
ReleasedOnlyOnErrorOrStop ==
  [][\A c \in connections \ connections' :
       reading[c] = "failed" \/ writing[c] = "failed" \/ ~is_open']_vars

(* server.cpp:48-49 says of hanlde_stop "FIXME ... not called".  If so the *)
(* acceptor would never be closed.                                         *)
StopNotCalled == is_open

(* Graceful shutdown: after hanlde_stop, run() returns (or the process     *)
(* dies on a dangling this) although no client ever does anything more.    *)
ShutdownCompletes == ~is_open ~> process # "running"

-----------------------------------------------------------------------------
(* The inductive invariant behind the safety properties.                   *)

(* An object never accepted has nothing to it yet.                         *)
FreshUntouched ==
  \A c \in Fresh : /\ c \notin connections
                   /\ reading[c] = "idle" /\ writing[c] = "idle"
                   /\ message[c] = "start"

(* Nor has the one being accepted, but for the client it may already hold. *)
NewUntouched ==
  /\ new_connection \notin connections
  /\ reading[new_connection] = "idle" /\ writing[new_connection] = "idle"
  /\ message[new_connection] = "start"
  /\ socket[new_connection] \in {"unopened", "open"}
  /\ is_open => (socket[new_connection] = "open" <=> accepting = "ok")

(* While the server is open every operation is a registered connection's;  *)
(* once it is stopped, one of a closed socket.                             *)
OperationsOwned ==
  \A c \in Conn : reading[c] # "idle" \/ writing[c] # "idle" =>
     IF is_open THEN c \in connections ELSE socket[c] = "closed"

(* No read outlives the request.                                           *)
ParsedReadsNoMore == \A c \in Conn : message[c] \in Parsed => reading[c] = "idle"

(* All of it: what a reachable state guarantees before every step.         *)
Inv ==
  /\ TypeOK
  /\ OneOperation
  /\ OpenSocketOwned
  /\ StopLeavesNothingWaiting
  /\ AcceptorAlwaysArmed
  /\ FreshUntouched
  /\ NewUntouched
  /\ OperationsOwned
  /\ ParsedReadsNoMore

=============================================================================
