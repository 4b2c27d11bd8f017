----------------------------- MODULE ChatServer -----------------------------
(***************************************************************************)
(* The chat server of tutorial/301.chat_server.cpp: one io_context and one *)
(* thread; a session per client with its queue of outgoing messages, of    *)
(* which the front one is being written; a server that accepts and posts   *)
(* every announcement to all sessions.                                     *)
(*                                                                         *)
(* An asynchronous operation is "idle", in "wait" of the network, or has   *)
(* finished, "ok" or "failed", and its handler is queued.  Every error is  *)
(* handled alike, operation_aborted included.  Queued handlers run in any  *)
(* order.                                                                  *)
(***************************************************************************)
EXTENDS Naturals, Sequences, SequencesExt

CONSTANTS
  Session,    \* the session objects; a finite set bounds the clients
  Prompt      \* those whose client reads what it is sent (liveness only)

ASSUME SessionAssumption == Session # {} /\ Prompt \subseteq Session

Message(kind, s) == [kind |-> kind, from |-> s]
Kind == {"joined", "welcome", "said", "line", "left"}
Messages == [kind : Kind, from : Session]

Outcome   == {"ok", "failed"}
Operation == {"idle", "wait"} \cup Outcome

VARIABLES
  process,       \* main(): in run(), returned from it, exited or terminated
  accepting,     \* the async_accept operation
  new_session,   \* the session bound into its handler
  sessions_,     \* server::sessions_, of which only the members matter
  socket_,       \* of each session
  reading,       \* its async_read_until
  writing,       \* its async_write
  outgoing_messages_,
  room,          \* history: all broadcasts, in their order
  sent           \* history: what on_write has taken off each queue

vars == <<process, accepting, new_session, sessions_, socket_, reading,
          writing, outgoing_messages_, room, sent>>

Fresh == {s \in Session : socket_[s] = "unopened"}

(* asio fails an operation on a closed socket at once.                     *)
Started(socket) == IF socket = "open" THEN "wait" ELSE "failed"

-----------------------------------------------------------------------------
(* Slips: a plausible mistake in the definition each is named for.         *)

\* post looks at the write, not at the queue
Idle__no_write(s) == writing[s] = "idle"

\* a message is posted in front of those that wait
Queued__in_front(queue, posts) == posts \o queue

\* a message posted to a session that is busy is lost
Queued__if_idle(queue, posts) == IF queue = <<>> THEN posts ELSE queue

\* the newcomer is pushed back before its arrival is announced
Audience__with_newcomer == sessions_ \cup {new_session}

\* on_write forgets the messages behind the one written
AfterWrite__idle(s) == "idle"

\* on_read reads the next line
AfterRead__reads(s) == Started(socket_[s])

-----------------------------------------------------------------------------
(* close() ends an operation the kernel has not finished.                  *)
Closed(op) == IF op = "wait" THEN "failed" ELSE op

(* main, server::server and the first accept.                              *)
Init ==
  /\ process = "running"
  /\ accepting = "wait"
  /\ new_session \in Session
  /\ sessions_ = {}
  /\ socket_ = [s \in Session |-> "unopened"]
  /\ reading = [s \in Session |-> "idle"]
  /\ writing = [s \in Session |-> "idle"]
  /\ outgoing_messages_ = [s \in Session |-> <<>>]
  /\ room = <<>>
  /\ sent = [s \in Session |-> <<>>]

accept ==
  /\ \E s \in Fresh : new_session' = s
  /\ accepting' = "wait"

(* session::post of posts[s], one after the other, to every session s: the *)
(* first message of an empty queue starts the write.                       *)
Idle(s) == outgoing_messages_[s] = <<>>
Queued(queue, posts) == queue \o posts
post(posts) ==
  /\ outgoing_messages_' =
       [s \in Session |-> Queued(outgoing_messages_[s], posts[s])]
  /\ writing' = [s \in Session |-> IF posts[s] # <<>> /\ Idle(s)
                                   THEN Started(socket_[s]) ELSE writing[s]]

(* server::broadcast of m; own[s] is posted to s after it.                 *)
Audience == sessions_
broadcast(m, own) ==
  /\ room' = Append(room, m)
  /\ post([s \in Session |-> (IF s \in Audience THEN <<m>> ELSE <<>>) \o own[s]])

Nothing == [s \in Session |-> <<>>]

(* session::on_error closes the socket, which ends the other operation.    *)
on_error(s) == socket_' = [socket_ EXCEPT ![s] = "closed"]

-----------------------------------------------------------------------------
(* server::on_accept with an error: the handler held the only reference to *)
(* the new session, whose destructor announces that it has left; nothing   *)
(* is accepted any more.                                                   *)
accept_error ==
  /\ accepting = "failed"
  /\ accepting' = "idle"
  /\ broadcast(Message("left", new_session), Nothing)
  /\ UNCHANGED <<process, new_session, sessions_, reading>>

accept_client ==
  /\ accepting = "ok"
  /\ broadcast(Message("joined", new_session),
               [Nothing EXCEPT ![new_session] = <<Message("welcome", new_session)>>])
  /\ reading' = [reading EXCEPT ![new_session] = Started(socket_[new_session])]
  /\ sessions_' = sessions_ \cup {new_session}
  /\ accept
  /\ UNCHANGED process

(* remote_endpoint() throws if the peer has reset the connection by then,  *)
(* and nobody catches.  What this handler had posted goes with the process.*)
accept_throws ==
  /\ accepting = "ok"
  /\ process' = "terminated"
  /\ UNCHANGED <<accepting, new_session, sessions_, reading, writing,
                 outgoing_messages_, room>>

on_accept ==
  /\ process = "running"
  /\ accept_error \/ accept_client \/ accept_throws
  /\ UNCHANGED <<socket_, sent>>

(* session::on_read: the line goes to everybody, then back to the speaker. *)
(* It does not read on.                                                    *)
AfterRead(s) == "idle"
line_read(s) ==
  /\ reading[s] = "ok"
  /\ broadcast(Message("said", s), [Nothing EXCEPT ![s] = <<Message("line", s)>>])
  /\ reading' = [reading EXCEPT ![s] = AfterRead(s)]
  /\ UNCHANGED socket_

read_error(s) ==
  /\ reading[s] = "failed"
  /\ on_error(s)
  /\ reading' = [reading EXCEPT ![s] = "idle"]
  /\ writing' = [writing EXCEPT ![s] = Closed(@)]
  /\ UNCHANGED <<outgoing_messages_, room>>

on_read(s) ==
  /\ process = "running"
  /\ line_read(s) \/ read_error(s)
  /\ UNCHANGED <<process, accepting, new_session, sessions_, sent>>

(* session::on_write: the message written is taken off, the next one       *)
(* started.  After an error the queue stays as it is.                      *)
AfterWrite(s) ==
  IF Len(outgoing_messages_[s]) > 1 THEN Started(socket_[s]) ELSE "idle"
message_written(s) ==
  /\ writing[s] = "ok"
  /\ sent' = [sent EXCEPT ![s] = Append(@, Head(outgoing_messages_[s]))]
  /\ outgoing_messages_' = [outgoing_messages_ EXCEPT ![s] = Tail(@)]
  /\ writing' = [writing EXCEPT ![s] = AfterWrite(s)]
  /\ UNCHANGED <<socket_, reading>>

write_error(s) ==
  /\ writing[s] = "failed"
  /\ on_error(s)
  /\ writing' = [writing EXCEPT ![s] = "idle"]
  /\ reading' = [reading EXCEPT ![s] = Closed(@)]
  /\ UNCHANGED <<outgoing_messages_, sent>>

on_write(s) ==
  /\ process = "running"
  /\ message_written(s) \/ write_error(s)
  /\ UNCHANGED <<process, accepting, new_session, sessions_, room>>

(* run() returns when no operation is left, ...                            *)
run_returns ==
  /\ process = "running"
  /\ accepting = "idle"
  /\ \A s \in Session : reading[s] = "idle" /\ writing[s] = "idle"
  /\ process' = "returned"
  /\ UNCHANGED <<accepting, new_session, sessions_, socket_, reading, writing,
                 outgoing_messages_, room, sent>>

(* ... and main destroys the server.  The destructor of a session calls    *)
(* broadcast on the vector that is being destroyed: undefined, unless the  *)
(* vector is empty.                                                        *)
server_destroyed ==
  /\ process = "returned"
  /\ process' \in IF sessions_ = {} THEN {"exited"} ELSE {"exited", "terminated"}
  /\ UNCHANGED <<accepting, new_session, sessions_, socket_, reading, writing,
                 outgoing_messages_, room, sent>>

-----------------------------------------------------------------------------
(* The network.  A client is let in only while an object is left for the   *)
(* next accept: the bound Session puts on the clients of a behaviour.      *)
AcceptCompletes ==
  /\ process = "running" /\ accepting = "wait"
  /\ \/ /\ Fresh # {new_session}
        /\ accepting' = "ok"
        /\ socket_' = [socket_ EXCEPT ![new_session] = "open"]
     \/ /\ accepting' = "failed"
        /\ UNCHANGED socket_
  /\ UNCHANGED <<process, new_session, sessions_, reading, writing,
                 outgoing_messages_, room, sent>>

ReadCompletes(s) ==
  /\ process = "running" /\ reading[s] = "wait"
  /\ \E o \in Outcome : reading' = [reading EXCEPT ![s] = o]
  /\ UNCHANGED <<process, accepting, new_session, sessions_, socket_, writing,
                 outgoing_messages_, room, sent>>

WriteCompletes(s) ==
  /\ process = "running" /\ writing[s] = "wait"
  /\ \E o \in Outcome : writing' = [writing EXCEPT ![s] = o]
  /\ UNCHANGED <<process, accepting, new_session, sessions_, socket_, reading,
                 outgoing_messages_, room, sent>>

Next ==
  \/ on_accept \/ run_returns \/ server_destroyed \/ AcceptCompletes
  \/ \E s \in Session : \/ on_read(s) \/ on_write(s)
                        \/ ReadCompletes(s) \/ WriteCompletes(s)

Spec == Init /\ [][Next]_vars

(* Every queued handler gets its turn; of the clients only the prompt ones *)
(* are trusted to take what is written to them, or to break the connection.*)
FairSpec ==
  /\ Spec
  /\ WF_vars(on_accept)
  /\ \A s \in Session : WF_vars(on_read(s)) /\ WF_vars(on_write(s))
  /\ \A s \in Prompt : WF_vars(WriteCompletes(s))

-----------------------------------------------------------------------------
(* The types of the state.                                                 *)
TypeOK ==
  /\ process \in {"running", "returned", "exited", "terminated"}
  /\ accepting \in Operation
  /\ new_session \in Session
  /\ sessions_ \subseteq Session
  /\ socket_ \in [Session -> {"unopened", "open", "closed"}]
  /\ reading \in [Session -> Operation]
  /\ writing \in [Session -> Operation]
  /\ outgoing_messages_ \in [Session -> Seq(Messages)]
  /\ room \in Seq(Messages)
  /\ sent \in [Session -> Seq(Messages)]

(* No message is stuck and none is written from a queue that is empty: on  *)
(* an open socket a write is under way exactly when the queue is not empty *)
(* (301.chat_server.cpp:41-47, 84-94).                                     *)
NoLostWakeup ==
  \A s \in Session :
    /\ writing[s] # "idle" => outgoing_messages_[s] # <<>>
    /\ socket_[s] = "open" /\ outgoing_messages_[s] # <<>> => writing[s] # "idle"

(* async_write refers to the bytes of outgoing_messages_.front() until its *)
(* handler runs: the front does not change under it                        *)
(* (301.chat_server.cpp:58-64).                                            *)
FrontStays ==
  [][\A s \in Session : writing[s] = "wait" =>
       /\ outgoing_messages_'[s] # <<>>
       /\ Head(outgoing_messages_'[s]) = Head(outgoing_messages_[s])]_vars

(* What on_error leaves behind: the queue of a session whose write failed  *)
(* keeps every message and gets every later one, and no write is started   *)
(* on it again (301.chat_server.cpp:42-46, 86-88, 96-99).                  *)
DeadQueueOnlyGrows ==
  [][\A s \in Session :
       socket_[s] = "closed" /\ writing[s] = "idle" /\ outgoing_messages_[s] # <<>> =>
         /\ writing'[s] = "idle"
         /\ IsPrefix(outgoing_messages_[s], outgoing_messages_'[s])]_vars

(* on_read never reads again, so a session is heard at most once           *)
(* (301.chat_server.cpp:66-82).                                            *)
SpeaksAtMostOnce ==
  \A i, j \in DOMAIN room : room[i].kind = "said" /\ room[i] = room[j] => i = j

Room == INSTANCE ChatRoom WITH seen <- sent

(* Sent and still to send together are all that is due to a session, in    *)
(* the order of the room, errors or not (301.chat_server.cpp:131-152).     *)
EverythingDue ==
  \A s \in sessions_ : sent[s] \o outgoing_messages_[s] = Room!Due(s)

(* The server implements the room it promises.                             *)
RoomSpec == Room!Spec

(* A client that does not read cannot hold up one that does: what is       *)
(* posted to a prompt client is all written, unless its connection breaks  *)
(* or the process ends (one write per session, 301.chat_server.cpp:58-64). *)
PromptIsServed ==
  \A s \in Prompt :
    outgoing_messages_[s] # <<>> ~>
      outgoing_messages_[s] = <<>> \/ socket_[s] = "closed" \/ process # "running"

-----------------------------------------------------------------------------
(* The inductive invariant, of the queues and of what is due from them.    *)

(* A session that is not in sessions_ has nothing to it yet, the one bound *)
(* into the accept handler included; one that is has been accepted.        *)
Outsiders ==
  /\ new_session \notin sessions_
  /\ accepting = "ok" => socket_[new_session] = "open"
  /\ \A s \in sessions_ : socket_[s] # "unopened"
  /\ \A s \in Session \ sessions_ :
       reading[s] = "idle" /\ writing[s] = "idle" /\ outgoing_messages_[s] = <<>>

(* Who has spoken does not read any more.                                  *)
SpokenReadsNoMore ==
  \A i \in DOMAIN room : room[i].kind = "said" =>
    room[i].from \in sessions_ /\ reading[room[i].from] = "idle"

Queues == TypeOK /\ NoLostWakeup /\ Outsiders /\ SpokenReadsNoMore /\ SpeaksAtMostOnce

(* sessions_ holds those whose arrival the room has heard of; nothing has  *)
(* been written to anybody else.                                           *)
Registered ==
  /\ sessions_ = Room!Members
  /\ \A s \in Session \ sessions_ : sent[s] = <<>>

Inv == Queues /\ Registered /\ EverythingDue

=============================================================================
