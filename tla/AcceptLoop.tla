----------------------------- MODULE AcceptLoop -----------------------------
(* Four servers with one accept loop and different ways to fail:           *)
(*   "201"       reads once from each client and answers nothing,          *)
(*   "202"       reads lines until the client leaves (see LineSession),    *)
(*   "daytime3"  writes the time, then sleeps for five seconds,            *)
(*   "daytime7"  writes the time; its UDP half is in DaytimeUdp.           *)
(* A client that resets its connection makes remote_endpoint() throw.      *)
(* main catches in the daytime servers, but no exception gets there alive: *)
(* the destructors of daytime3's connections ask for the endpoint too, and *)
(* what leaves a destructor ends the process.                              *)
EXTENDS Naturals

CONSTANT Session   \* the connection objects; a finite set bounds the clients

ASSUME SessionAssumption == Session # {} /\ "none" \notin Session

Daytime == {"daytime3", "daytime7"}
Program == {"201", "202"} \cup Daytime

Operation == {"idle", "wait", "ok", "failed"}

VARIABLES
  program,
  process,      \* "running", run() has "returned", main has "caught", or
                \* "terminated"
  accepting,    \* the async_accept operation
  new_session,  \* the object bound into its handler
  socket_,      \* of each object
  peer,         \* its client: "there", has "ended" its side, or "reset"
  op,           \* its operation, the only one: a read (201, 202) or a write
  sleeping      \* the object whose handler sleeps, or "none"

vars == <<program, process, accepting, new_session, socket_, peer, op, sleeping>>

Alive(s) == op[s] # "idle" \/ (s = new_session /\ accepting # "idle")
Fresh == {s \in Session : socket_[s] = "unopened" /\ s # new_session}

-----------------------------------------------------------------------------
(* Slips: a plausible mistake in the definition each is named for.         *)

\* the socket is closed before name() is called
NameThrows__closed(s) == op[s] = "failed"

\* the destructor does not log the port
DestructorThrows__silent(s) == FALSE

\* the handler starts its operation again
Released__again(s) ==
  /\ op' = [op EXCEPT ![s] = "wait"]
  /\ UNCHANGED <<process, accepting, new_session, socket_, peer>>

-----------------------------------------------------------------------------
RemoteEndpointThrows(s) == socket_[s] # "open" \/ peer[s] = "reset"

(* worker::start, the accept handler of 202, TcpConnection::Start.         *)
StartThrows(s) == program # "daytime7" /\ RemoteEndpointThrows(s)

(* session::name asks an open socket only.                                 *)
NameThrows(s) == peer[s] = "reset"

(* ~TcpConnection of daytime3.                                             *)
DestructorThrows(s) == program = "daytime3" /\ RemoteEndpointThrows(s)

(* An exception leaves a handler, and run(): on its way to a catch all the *)
(* connections are destroyed.                                              *)
Throws ==
  /\ process' = IF program \in Daytime /\ \A s \in Session : Alive(s) => ~DestructorThrows(s)
                THEN "caught" ELSE "terminated"
  /\ UNCHANGED <<accepting, new_session, socket_, peer, op, sleeping>>

(* The handler held the last reference: the destructor closes the socket.  *)
Released(s) ==
  /\ op' = [op EXCEPT ![s] = "idle"]
  /\ socket_' = [socket_ EXCEPT ![s] = "closed"]
  /\ UNCHANGED <<process, accepting, new_session, peer>>

Init ==
  /\ program \in Program
  /\ process = "running"
  /\ accepting = "wait"
  /\ new_session \in Session
  /\ socket_ = [s \in Session |-> "unopened"]
  /\ peer = [s \in Session |-> "there"]
  /\ op = [s \in Session |-> "idle"]
  /\ sleeping = "none"

(* One thread runs the handlers.                                           *)
Runs == process = "running" /\ sleeping = "none"

-----------------------------------------------------------------------------
(* The accept handler.  201 and 202 stop accepting after an error.         *)
accept_error ==
  /\ accepting = "failed"
  /\ IF program \in Daytime THEN Throws
     ELSE /\ accepting' = "idle"
          /\ UNCHANGED <<process, new_session, socket_, peer, op, sleeping>>

accept_client ==
  /\ accepting = "ok"
  /\ IF StartThrows(new_session) THEN Throws
     ELSE /\ op' = [op EXCEPT ![new_session] = "wait"]
          /\ new_session' \in Fresh
          /\ accepting' = "wait"
          /\ UNCHANGED <<process, socket_, peer, sleeping>>

on_accept == Runs /\ (accept_error \/ accept_client) /\ UNCHANGED program

(* worker::do_read's handler (201): printed or closed, it was the only     *)
(* operation.                                                              *)
worker_read(s) ==
  /\ program = "201" /\ op[s] \in {"ok", "failed"}
  /\ Released(s)
  /\ UNCHANGED sleeping

(* session::on_read (202).                                                 *)
session_read(s) ==
  /\ program = "202"
  /\ \/ op[s] \in {"ok", "failed"} /\ NameThrows(s) /\ Throws
     \/ /\ op[s] = "ok" /\ ~NameThrows(s)
        /\ op' = [op EXCEPT ![s] = "wait"]
        /\ UNCHANGED <<process, accepting, new_session, socket_, peer, sleeping>>
     \/ op[s] = "failed" /\ ~NameThrows(s) /\ Released(s) /\ UNCHANGED sleeping

(* TcpConnection::write: of daytime3, which sleeps before it looks at the  *)
(* error ...                                                               *)
write_sleeps(s) ==
  /\ program = "daytime3" /\ op[s] \in {"ok", "failed"}
  /\ sleeping' = s
  /\ UNCHANGED <<process, accepting, new_session, socket_, peer, op>>

(* ... and is destroyed after that, ...                                    *)
write_wakes(s) ==
  /\ process = "running" /\ sleeping = s
  /\ IF op[s] = "failed" THEN Throws
     ELSE IF DestructorThrows(s)
     THEN /\ process' = "terminated"
          /\ UNCHANGED <<accepting, new_session, socket_, peer, op, sleeping>>
     ELSE Released(s) /\ sleeping' = "none"
  /\ UNCHANGED program

(* ... and of daytime7.                                                    *)
write_done(s) ==
  /\ program = "daytime7"
  /\ \/ op[s] = "failed" /\ Throws
     \/ op[s] = "ok" /\ Released(s) /\ UNCHANGED sleeping

on_done(s) ==
  /\ Runs
  /\ worker_read(s) \/ session_read(s) \/ write_sleeps(s) \/ write_done(s)
  /\ UNCHANGED program

run_returns ==
  /\ process = "running"
  /\ accepting = "idle" /\ \A s \in Session : op[s] = "idle"
  /\ process' = "returned"
  /\ UNCHANGED <<program, accepting, new_session, socket_, peer, op, sleeping>>

-----------------------------------------------------------------------------
(* The kernel; it accepts a client while there is an object for the next.  *)
AcceptCompletes ==
  /\ process = "running" /\ accepting = "wait"
  /\ \/ /\ Fresh # {}
        /\ accepting' = "ok"
        /\ socket_' = [socket_ EXCEPT ![new_session] = "open"]
     \/ accepting' = "failed" /\ UNCHANGED socket_
  /\ UNCHANGED <<program, process, new_session, peer, op, sleeping>>

(* A text as short as the time is taken by the kernel, unless the client   *)
(* has reset.                                                              *)
Outcome(s) ==
  IF peer[s] = "reset" \/ (peer[s] = "ended" /\ program \notin Daytime)
  THEN "failed" ELSE "ok"
OpCompletes(s) ==
  /\ process = "running" /\ op[s] = "wait"
  /\ op' = [op EXCEPT ![s] = Outcome(s)]
  /\ UNCHANGED <<program, process, accepting, new_session, socket_, peer, sleeping>>

PeerLeaves(s) ==
  /\ process = "running" /\ socket_[s] = "open"
  /\ \E how \in {"ended", "reset"} :
       /\ peer[s] # "reset" /\ how # peer[s]
       /\ peer' = [peer EXCEPT ![s] = how]
  /\ UNCHANGED <<program, process, accepting, new_session, socket_, op, sleeping>>

Next ==
  \/ on_accept \/ AcceptCompletes \/ run_returns
  \/ \E s \in Session : on_done(s) \/ write_wakes(s) \/ OpCompletes(s) \/ PeerLeaves(s)

Spec == Init /\ [][Next]_vars

(* Queued handlers run, a sleep ends, and the kernel takes what is written.*)
FairSpec ==
  /\ Spec
  /\ WF_vars(on_accept)
  /\ \A s \in Session : /\ WF_vars(on_done(s)) /\ WF_vars(write_wakes(s))
                        /\ WF_vars(program \in Daytime /\ OpCompletes(s))

-----------------------------------------------------------------------------
TypeOK ==
  /\ program \in Program
  /\ process \in {"running", "returned", "caught", "terminated"}
  /\ accepting \in Operation
  /\ new_session \in Session
  /\ socket_ \in [Session -> {"unopened", "open", "closed"}]
  /\ peer \in [Session -> {"there", "ended", "reset"}]
  /\ op \in [Session -> Operation]
  /\ sleeping \in Session \cup {"none"}

(* A server ends only when some connection has been reset (201:19, 202:82  *)
(* and 114, daytime3:30 and 43, daytime7:41) or, with the daytime servers, *)
(* an accept has failed.  A client need not ask for the reset: one that    *)
(* closes before it has read is answered into one ("ended" may become      *)
(* "reset").                                                               *)
OnlyFaultsEnd ==
  process \in {"caught", "terminated"} =>
    \/ \E s \in Session : peer[s] = "reset"
    \/ program \in Daytime /\ accepting = "failed"

(* The catch of daytime3's main (daytime3.cpp:105) is never reached from   *)
(* run(): there is always a connection whose destructor throws first, if   *)
(* only the one that waits to be accepted.                                 *)
CatchNotReached == program = "daytime3" => process # "caught"

(* Every client of a daytime server is written to and let go, unless the   *)
(* process ends before; another client's sleep only delays it.             *)
Served ==
  \A s \in Session :
    program \in Daytime /\ op[s] # "idle" ~> socket_[s] = "closed" \/ process # "running"

-----------------------------------------------------------------------------
(* The inductive invariant: which objects have an operation, an open       *)
(* socket, a client that has left; what a failure means.                   *)
Owned ==
  \A s \in Session :
    /\ op[s] # "idle" => socket_[s] = "open" /\ s # new_session
    /\ socket_[s] = "open" => op[s] # "idle" \/ (s = new_session /\ accepting = "ok")
    /\ peer[s] # "there" => socket_[s] # "unopened"
    /\ op[s] = "failed" /\ program \in Daytime => peer[s] = "reset"
    /\ sleeping = s => program = "daytime3" /\ op[s] \in {"ok", "failed"}

(* The object to be accepted next is an open socket exactly when a client  *)
(* has been accepted into it; the daytime servers always have one.         *)
Pending ==
  /\ socket_[new_session] = IF accepting = "ok" THEN "open" ELSE "unopened"
  /\ program \in Daytime => accepting # "idle"

Inv ==
  /\ TypeOK
  /\ Owned
  /\ Pending
  /\ OnlyFaultsEnd
  /\ CatchNotReached
=============================================================================
