---------------------------- MODULE HttpExchange ----------------------------
(* http_client against http_server: one exchange after another, counted in *)
(* bytes.  The client's blank line (main.cpp:47) ends in a CR LF too many, *)
(* so that its body is two bytes longer than the Content-Length it states: *)
(* whether it is answered "ok" or "bad request" depends on where the       *)
(* server's reads end.  The client asks localhost: nothing but the end of  *)
(* the server breaks a connection, and a read takes all that has arrived.  *)
EXTENDS Naturals

CONSTANTS
  Head,        \* the bytes of the request line and the headers
  Length,      \* its Content-Length
  Extra,       \* the bytes of the body behind that
  Buffer,      \* connection::buffer_size
  StatusLine,  \* where the status line of a reply ends,
  Headers,     \* where its headers end,
  Reply,       \* and where the reply does
  Rounds       \* bounds the exchanges of a behaviour

End == Head + Length

(* In the code 121 + 2048 bytes, 2 extra ones and a buffer of 1024.        *)
ASSUME LengthsAssumption ==
  /\ Head \in Nat \ {0} /\ Length \in Nat /\ Extra \in Nat \ {0}
  /\ Buffer \in Nat \ {0}
  /\ StatusLine \in Nat \ {0} /\ Headers \in Nat /\ Reply \in Nat
  /\ StatusLine < Headers /\ Headers <= Reply
  /\ Rounds \in Nat
ASSUME BoundaryAssumption == \A k \in 0 .. End : k * Buffer # End

VARIABLES
  client,      \* where main() is in its loop
  rounds,      \* the exchanges begun
  sent,        \* the bytes of the request that have reached the server
  status_code, \* what the client read last
  server,      \* "open" or "stopped"
  connection,  \* the server's end of the client's connection
  received,    \* the bytes it has read and parsed
  answer,      \* the status it answers with, 0 before
  written,     \* the bytes of the reply it has got rid of
  at_once      \* history: the bytes that were there at the first read

client_vars == <<client, rounds, sent, status_code>>
server_vars == <<server, connection, received, answer, written, at_once>>
vars == <<client_vars, server_vars>>

-----------------------------------------------------------------------------
(* Slips: a plausible mistake in the definition each is named for.         *)

\* the body is shorter than the Content-Length says
Request__short == End - 1

\* the size of the buffer is parsed, not bytes_transferred
Taken__buffer == Buffer

\* a complete message is complete, whatever is behind it
Verdict__complete_wins(n) == IF n < End THEN "want_more" ELSE "complete"

\* the socket is shut down while the write is under way
reply__shuts(status) ==
  /\ answer' = status
  /\ connection' = "shut"

-----------------------------------------------------------------------------
Init ==
  /\ client = "connect" /\ rounds = 0 /\ sent = 0 /\ status_code = 0
  /\ server = "open" /\ connection = "none"
  /\ received = 0 /\ answer = 0 /\ written = 0 /\ at_once = 0

(* The client: a new socket in each round, the one of the round before is  *)
(* destroyed.                                                              *)
connect ==
  /\ client = "connect" /\ rounds < Rounds /\ server = "open"
  /\ client' = "write" /\ rounds' = rounds + 1 /\ sent' = 0
  /\ connection' = "backlog"
  /\ received' = 0 /\ answer' = 0 /\ written' = 0 /\ at_once' = 0
  /\ UNCHANGED <<status_code, server>>

(* asio::write sends all of it; it arrives bit by bit, and also at a       *)
(* socket that has been shut down.                                         *)
Request == End + Extra
write(n) ==
  /\ client = "write" /\ connection # "closed"
  /\ n \in 1 .. Request - sent
  /\ sent' = sent + n
  /\ client' = IF sent' = Request THEN "status" ELSE "write"
  /\ UNCHANGED <<rounds, status_code, server_vars>>

(* Any status but 200 is reported, and the next round begins.              *)
read_status ==
  /\ client = "status" /\ written >= StatusLine
  /\ status_code' = answer
  /\ client' = IF answer = 200 THEN "headers" ELSE "connect"
  /\ UNCHANGED <<rounds, sent, server_vars>>

read_headers ==
  /\ client = "headers" /\ written >= Headers
  /\ client' = "connect"
  /\ UNCHANGED <<rounds, sent, status_code, server_vars>>

(* connect, write and read_until throw; main catches only OptionException. *)
Wanted == IF client = "status" THEN StatusLine ELSE Headers
throws ==
  /\ \/ client = "connect" /\ rounds < Rounds /\ server = "stopped"
     \/ client \in {"write", "status", "headers"} /\ connection = "closed"
     \/ client \in {"status", "headers"} /\ connection = "shut" /\ written < Wanted
  /\ client' = "terminated"
  /\ UNCHANGED <<rounds, sent, status_code, server_vars>>

-----------------------------------------------------------------------------
(* The server.                                                             *)
hanlde_accept ==
  /\ connection = "backlog"
  /\ connection' = "reading"
  /\ UNCHANGED <<client_vars, server, received, answer, written, at_once>>

Taken == IF sent - received < Buffer THEN sent - received ELSE Buffer

(* The parser refuses the bytes behind the message.                        *)
Verdict(n) == IF n < End THEN "want_more" ELSE IF n = End THEN "complete" ELSE "faild"

reply(status) ==
  /\ answer' = status
  /\ connection' = "answering"

handle_read ==
  /\ connection = "reading" /\ received < sent
  /\ received' = received + Taken
  /\ at_once' = IF received = 0 THEN sent ELSE at_once
  /\ \/ Verdict(received') = "want_more" /\ UNCHANGED <<connection, answer>>
     \/ Verdict(received') = "complete" /\ reply(200)
     \/ Verdict(received') = "faild" /\ reply(400)
  /\ UNCHANGED <<client_vars, server, written>>

(* async_write_some is done when some of the reply is written.             *)
write_some(n) ==
  /\ connection = "answering"
  /\ n \in 1 .. Reply
  /\ written' = n
  /\ connection' = "written"
  /\ UNCHANGED <<client_vars, server, received, answer, at_once>>

handle_write ==
  /\ connection = "written"
  /\ connection' = "shut"
  /\ UNCHANGED <<client_vars, server, received, answer, written, at_once>>

hanlde_stop ==
  /\ server = "open"
  /\ server' = "stopped"
  /\ connection' = "closed"
  /\ UNCHANGED <<client_vars, received, answer, written, at_once>>

-----------------------------------------------------------------------------
Client == connect \/ (\E n \in 1 .. Request : write(n)) \/ read_status
          \/ read_headers \/ throws
Server == hanlde_accept \/ handle_read \/ (\E n \in 1 .. Reply : write_some(n))
          \/ handle_write

Next == Client \/ Server \/ hanlde_stop

Spec == Init /\ [][Next]_vars

(* Both programs run; no signal need ever come.                            *)
FairSpec == Spec /\ WF_vars(Client) /\ WF_vars(Server)

-----------------------------------------------------------------------------
(* The types of the state; the server reads only what has arrived.         *)
TypeOK ==
  /\ client \in {"connect", "write", "status", "headers", "terminated"}
  /\ rounds \in 0 .. Rounds
  /\ sent \in 0 .. Request
  /\ status_code \in {0, 200, 400}
  /\ server \in {"open", "stopped"}
  /\ connection \in {"none", "backlog", "reading", "answering", "written",
                     "shut", "closed"}
  /\ received \in 0 .. sent
  /\ answer \in {0, 200, 400}
  /\ written \in 0 .. Reply
  /\ at_once \in 0 .. Request

(* The client goes on to the headers of an "ok" only if a read of the      *)
(* server's ended at the last byte the Content-Length counts, although     *)
(* more was, or was going to be, there (main.cpp:46-49,                    *)
(* connection.cpp:61-75).                                                  *)
OkMeansExact == client = "headers" => answer = 200 /\ received = End

(* A request that arrives as a whole is refused: no read of a full buffer, *)
(* nor one of all the rest, ends where the message does.                   *)
WholeIsRefused == at_once = Request => answer \in {0, 400}

(* The client ends only with the server, or when async_write_some wrote    *)
(* part of the reply and the socket was shut down behind that              *)
(* (connection.cpp:73-84).                                                 *)
EndsOnlyIfCut ==
  client = "terminated" => server = "stopped" \/ (0 < written /\ written < Headers)

(* Client and server do not wait for each other: each round comes to its   *)
(* end, in the next one or with the client.                                *)
RoundEnds == client \in {"write", "status", "headers"}
               ~> client \in {"connect", "terminated"}

-----------------------------------------------------------------------------
(* The inductive invariant behind WholeIsRefused: until the answer is      *)
(* there, a whole request has been read in full buffers.                   *)
FullBuffers ==
  at_once = Request =>
    sent = Request /\ \E k \in 0 .. End : received = k * Buffer /\ received < End

(* An answer comes after the request, a reply after the answer, and the    *)
(* client does not go on before there is some of it.                       *)
InOrder ==
  /\ connection \in {"none", "backlog"} => received = 0 /\ at_once = 0
  /\ connection \in {"none", "backlog", "reading"} => answer = 0 /\ received < End
  /\ connection \in {"none", "backlog", "reading", "answering"} => written = 0
  /\ connection \in {"written", "shut"} => written > 0
  /\ connection = "closed" <=> server = "stopped"
  /\ answer = 200 => received = End
  /\ client = "headers" => answer = 200 /\ written > 0

(* All of it.                                                              *)
Inv ==
  /\ TypeOK
  /\ InOrder
  /\ connection = "reading" => FullBuffers
  /\ WholeIsRefused
  /\ client = "terminated" => connection \notin {"backlog", "reading", "answering", "written"}
  /\ EndsOnlyIfCut

=============================================================================
