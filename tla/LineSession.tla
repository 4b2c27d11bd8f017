---------------------------- MODULE LineSession ----------------------------
(* A session of tutorial/202.async_tcp_server_streambuf.cpp, from start()  *)
(* to its destruction, and its client.  A byte is its number in what the   *)
(* client sends, buffer_ the bytes from pos + 1 to got, messages_ the      *)
(* lines of taken behind the first popped ones.  After getline, which      *)
(* takes the line out of buffer_, on_read consumes as many bytes again.    *)
(*                                                                         *)
(* name() asks an open socket for its remote_endpoint, which throws when   *)
(* the client has reset the connection; nothing catches it and the whole   *)
(* server ends.                                                            *)
EXTENDS Naturals, Sequences

CONSTANT Total   \* bounds the bytes the client sends

ASSUME TotalAssumption == Total \in Nat

VARIABLES
  newlines,  \* the bytes that are a '\n'
  patient,   \* the client sends a line when the one before has come back
  peer,      \* the client: "there", has "ended" its side, or "reset"
  process,   \* "running" or "terminated"
  socket_,   \* "open" or "closed"
  got, pos,  \* buffer_
  reading,   \* async_read_until: "idle", in "wait", or its handler queued,
  writing,   \*   "ok" or "failed"; async_write likewise
  taken,     \* history: the lines pushed to messages_
  popped     \* how many of them have been popped

client_vars == <<newlines, patient, peer>>
vars == <<client_vars, process, socket_, got, pos, reading, writing, taken, popped>>

messages_empty == popped = Len(taken)

-----------------------------------------------------------------------------
(* Slips: a plausible mistake in the definition each is named for.         *)

\* consume does not look at what is there
Consumed__unclamped(newline) == newline + (newline - pos)

\* all of buffer_ is taken for a line
Line__all(newline) == [from |-> pos + 1, to |-> got]

\* on_write forgets the lines behind the one written
AfterWrite__idle == "idle"

\* on_read goes on after an error
AfterError__reads == "failed"

-----------------------------------------------------------------------------
(* asio.  An operation of no bytes is done at once, on a closed socket     *)
(* too, and so is async_read_until when buffer_ has a line; another one    *)
(* fails on a closed socket.                                               *)
ReadStarted(from) ==
  IF \E i \in newlines : from < i /\ i <= got THEN "ok"
  ELSE IF socket_ = "open" THEN "wait" ELSE "failed"
WriteStarted(line) ==
  IF line.to < line.from THEN "ok"
  ELSE IF socket_ = "open" THEN "wait" ELSE "failed"
Closed(op) == IF op = "wait" THEN "failed" ELSE op

(* server::accept has called start().                                      *)
Init ==
  /\ newlines \in SUBSET (1 .. Total)
  /\ patient \in BOOLEAN
  /\ peer = "there"
  /\ process = "running"
  /\ socket_ = "open"
  /\ got = 0 /\ pos = 0
  /\ reading = "wait" /\ writing = "idle"
  /\ taken = <<>> /\ popped = 0

-----------------------------------------------------------------------------
(* session::name().                                                        *)
NameThrows == socket_ = "open" /\ peer = "reset"
throws ==
  /\ NameThrows
  /\ process' = "terminated"
  /\ UNCHANGED <<socket_, got, pos, reading, writing, taken, popped>>

Line(newline) == [from |-> pos + 1, to |-> newline - 1]

(* getline has taken all up to the newline, consume takes                  *)
(* bytes_transferred, which is as much, as far as there is so much.        *)
Consumed(newline) ==
  IF newline + (newline - pos) < got THEN newline + (newline - pos) ELSE got

(* session::on_read.                                                       *)
line_read ==
  /\ reading = "ok"
  /\ ~NameThrows
  /\ \E newline \in newlines :
       /\ pos < newline /\ newline <= got
       /\ \A i \in newlines : i <= pos \/ newline <= i
       /\ pos' = Consumed(newline)
       /\ taken' = Append(taken, Line(newline))
       /\ writing' = IF messages_empty THEN WriteStarted(Line(newline)) ELSE writing
       /\ reading' = ReadStarted(Consumed(newline))
  /\ UNCHANGED <<process, socket_, got, popped>>

(* session::on_error, of a read and of a write; close() ends the other     *)
(* operation.                                                              *)
AfterError == "idle"
read_error ==
  /\ reading = "failed"
  /\ ~NameThrows
  /\ socket_' = "closed"
  /\ reading' = AfterError
  /\ writing' = Closed(writing)
  /\ UNCHANGED <<process, got, pos, taken, popped>>

on_read ==
  /\ process = "running"
  /\ line_read \/ read_error \/ (reading \in {"ok", "failed"} /\ throws)
  /\ UNCHANGED client_vars

(* session::on_write.                                                      *)
AfterWrite ==
  IF popped + 1 < Len(taken) THEN WriteStarted(taken[popped + 2]) ELSE "idle"
line_written ==
  /\ writing = "ok"
  /\ popped' = popped + 1
  /\ writing' = AfterWrite
  /\ UNCHANGED <<process, socket_, got, pos, reading, taken>>

write_error ==
  /\ writing = "failed"
  /\ ~NameThrows
  /\ socket_' = "closed"
  /\ writing' = "idle"
  /\ reading' = Closed(reading)
  /\ UNCHANGED <<process, got, pos, taken, popped>>

on_write ==
  /\ process = "running"
  /\ line_written \/ write_error \/ (writing = "failed" /\ throws)
  /\ UNCHANGED client_vars

-----------------------------------------------------------------------------
(* The client and the kernel.                                              *)

(* A patient client sends no byte beyond the line it is at, and begins a   *)
(* line when all before it have been written back.                         *)
Answered == Len(taken) = popped \/ (Len(taken) = popped + 1 /\ writing = "ok")
MaySend(n) ==
  patient => /\ \A i \in newlines : i <= got \/ got + n <= i
             /\ got \in newlines => Answered

(* n more bytes; the operation is done with the first newline.             *)
ReadCompletes(n) ==
  /\ reading = "wait" /\ peer = "there"
  /\ n \in 1 .. Total - got
  /\ MaySend(n)
  /\ got' = got + n
  /\ reading' = IF \E i \in newlines : pos < i /\ i <= got' THEN "ok" ELSE "wait"
  /\ UNCHANGED <<client_vars, process, socket_, pos, writing, taken, popped>>

(* The end of the stream, or an error.                                     *)
ReadFails ==
  /\ reading = "wait" /\ peer # "there"
  /\ reading' = "failed"
  /\ UNCHANGED <<client_vars, process, socket_, got, pos, writing, taken, popped>>

WriteCompletes ==
  /\ writing = "wait"
  /\ writing' = IF peer = "reset" THEN "failed" ELSE "ok"
  /\ UNCHANGED <<client_vars, process, socket_, got, pos, reading, taken, popped>>

PeerLeaves ==
  /\ peer' \in IF peer = "there" THEN {"ended", "reset"}
               ELSE IF peer = "ended" THEN {"reset"} ELSE {}
  /\ UNCHANGED <<newlines, patient, process, socket_, got, pos, reading, writing,
                 taken, popped>>

Kernel == (\E n \in 1 .. Total : ReadCompletes(n)) \/ ReadFails \/ WriteCompletes

Next == on_read \/ on_write \/ Kernel \/ PeerLeaves

Spec == Init /\ [][Next]_vars

(* Handlers run, ends and errors are reported, the client reads.           *)
FairSpec ==
  /\ Spec
  /\ WF_vars(on_read) /\ WF_vars(on_write)
  /\ WF_vars(ReadFails) /\ WF_vars(WriteCompletes)

-----------------------------------------------------------------------------
(* No line is stuck: while the socket is open, a write is under way        *)
(* exactly if messages_ is not empty (202...cpp:53-72).                    *)
QueueIsWritten == socket_ = "open" => (writing = "idle" <=> messages_empty)

(* The only thing that ends the server is a reset, found by name(); the    *)
(* socket of a session without operations is closed, so that its           *)
(* destructor's name() does not throw (202...cpp:22, 74-86).               *)
OnlyResetEnds == process = "terminated" => peer = "reset"
DestroyedClosed ==
  process = "running" /\ reading = "idle" => socket_ = "closed"

(* A client that waits for each line to come back is echoed exactly the    *)
(* lines it sends, however they arrive: consume then finds nothing to take *)
(* (202...cpp:47-51).                                                      *)
WholeLine(k) ==
  /\ taken[k].from = IF k = 1 THEN 1 ELSE taken[k - 1].to + 2
  /\ taken[k].to + 1 \in newlines
  /\ \A i \in newlines : i < taken[k].from \/ taken[k].to < i
PatientIsEchoed == patient => \A k \in 1 .. Len(taken) : WholeLine(k)

(* Any other is echoed what LineEcho says.                                 *)
Echo == INSTANCE LineEcho WITH heard <- taken, returned <- popped
EchoSpec == Echo!Spec

(* The session of a client that has left is released, although lines may   *)
(* wait in buffer_ and in messages_, and reads of them still succeed when  *)
(* the socket is closed (202...cpp:42-77).                                 *)
Released ==
  peer # "there" ~> process = "terminated" \/ (reading = "idle" /\ writing = "idle")

-----------------------------------------------------------------------------
(* The inductive invariant.                                                *)
TypeOK ==
  /\ newlines \in SUBSET (1 .. Total)
  /\ patient \in BOOLEAN
  /\ peer \in {"there", "ended", "reset"}
  /\ process \in {"running", "terminated"}
  /\ socket_ \in {"open", "closed"}
  /\ got \in 0 .. Total /\ pos \in 0 .. got
  /\ reading \in {"idle", "wait", "ok", "failed"}
  /\ writing \in {"idle", "wait", "ok", "failed"}
  /\ taken \in Seq([from : 1 .. Total, to : 0 .. Total])
  /\ popped \in 0 .. Len(taken)

(* Where buffer_ begins: behind the last line, or as far behind it as that *)
(* line was long, if so much had come.                                     *)
Behind ==
  IF taken = <<>> THEN pos = 0
  ELSE LET last == taken[Len(taken)] IN
       /\ last.from <= last.to + 1
       /\ last.to + 1 <= pos
       /\ pos - (last.to + 1) <= last.to + 2 - last.from

(* For a patient client the last line is all that has been taken out, and  *)
(* behind the line it is at there is nothing.                              *)
OneLineAhead ==
  patient =>
    /\ taken # <<>> => pos = taken[Len(taken)].to + 1
    /\ \A i \in newlines : pos < i /\ i <= got => i = got

OperationsOfOpen ==
  /\ QueueIsWritten
  /\ writing # "idle" => ~messages_empty
  /\ socket_ = "closed" => reading # "wait" /\ writing # "wait"
  /\ reading = "wait" => \A i \in newlines : i <= pos \/ got < i

Inv ==
  /\ TypeOK
  /\ Behind
  /\ OneLineAhead
  /\ PatientIsEchoed
  /\ OperationsOfOpen
  /\ OnlyResetEnds
  /\ DestroyedClosed
=============================================================================
