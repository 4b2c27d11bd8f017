-------------------------- MODULE ChatServerProofs --------------------------
(* The chat server, for any number of sessions.  Two invariants are        *)
(* inductive, one upon the other.  Queues is about the outgoing queue of a *)
(* session.  Why it is more than the properties: that a queue on an open   *)
(* socket is never left without a write (NoLostWakeup) holds of a socket   *)
(* just opened only because nothing is posted to a session before it is in *)
(* sessions_ (Outsiders); that a session speaks once, because the one that *)
(* has spoken has no read outstanding (SpokenReadsNoMore).                 *)
(*                                                                         *)
(* Inv adds what is due from those queues (EverythingDue), and for that    *)
(* who is registered: those the room has heard of, and to nobody else has  *)
(* anything been written (Registered).  The argument: the sequence due to  *)
(* a member ends with what it hears of the room's last message (DueAppend, *)
(* by induction over what FlattenSeq flattens); broadcast puts the same    *)
(* at the end of the member's queue (DueStep); on_write moves the front of *)
(* the queue to the end of what is sent, and this is the next thing due    *)
(* (Written).  So every step is one of the room, or none (StepOfRoom).     *)
EXTENDS ChatServer, Integers, WellFoundedInduction, TLAPS

(* Sequences: what the queues and the history are built with.              *)
LEMMA SeqFacts ==
  ASSUME NEW S
  PROVE  /\ <<>> \in Seq(S)
         /\ \A q, p \in Seq(S) : q \o p \in Seq(S)
         /\ \A q \in Seq(S) : q \o <<>> = q
         /\ \A x \in S : <<x>> \in Seq(S)
         /\ \A q \in Seq(S), x \in S :
              /\ Append(q, x) \in Seq(S)
              /\ DOMAIN Append(q, x) = DOMAIN q \cup {Len(q) + 1}
              /\ Len(q) + 1 \notin DOMAIN q
              /\ \A i \in DOMAIN q : Append(q, x)[i] = q[i]
              /\ Append(q, x)[Len(q) + 1] = x
         /\ \A q \in Seq(S) : q # <<>> =>
              Head(q) \in S /\ Tail(q) \in Seq(S) /\ (Tail(q) # <<>> <=> Len(q) > 1)
<1>1. /\ <<>> \in Seq(S)
      /\ \A q, p \in Seq(S) : q \o p \in Seq(S)
      /\ \A q \in Seq(S) : q \o <<>> = q
      /\ \A x \in S : <<x>> \in Seq(S)
  OBVIOUS
<1>2. \A q \in Seq(S), x \in S :
        /\ Append(q, x) \in Seq(S)
        /\ DOMAIN Append(q, x) = DOMAIN q \cup {Len(q) + 1}
        /\ Len(q) + 1 \notin DOMAIN q
        /\ \A i \in DOMAIN q : Append(q, x)[i] = q[i]
        /\ Append(q, x)[Len(q) + 1] = x
  OBVIOUS
<1>3. ASSUME NEW q \in Seq(S), q # <<>>
      PROVE  Head(q) \in S /\ Tail(q) \in Seq(S) /\ (Tail(q) # <<>> <=> Len(q) > 1)
  <2>1. Len(q) \in Nat /\ Len(q) > 0
    BY <1>3
  <2>2. Head(q) \in S /\ Tail(q) \in Seq(S) /\ Len(Tail(q)) = Len(q) - 1
    BY <1>3, <2>1
  <2>3. Tail(q) # <<>> <=> Len(Tail(q)) # 0
    BY <2>2
  <2> QED
    BY <2>1, <2>2, <2>3
<1> QED
  BY <1>1, <1>2, <1>3

(* What an announcement other than a client's line leaves of room.         *)
LEMMA RoomAppend ==
  ASSUME NEW m \in Messages, room \in Seq(Messages), room' = Append(room, m)
  PROVE  /\ \A i \in DOMAIN room : i \in DOMAIN room' /\ room'[i] = room[i]
         /\ \A i \in DOMAIN room' : i \in DOMAIN room \/ room'[i] = m
         /\ \A i, j \in DOMAIN room' :
              i \notin DOMAIN room /\ j \notin DOMAIN room => i = j
  BY SeqFacts

(* What post leaves in each queue and which writes it starts: the queues   *)
(* only grow, at their end, and a write that was under way stays as it is. *)
LEMMA PostQueues ==
  ASSUME TypeOK, NoLostWakeup,
         NEW posts \in [Session -> Seq(Messages)],
         post(posts), UNCHANGED socket_
  PROVE  /\ outgoing_messages_' \in [Session -> Seq(Messages)]
         /\ writing' \in [Session -> Operation]
         /\ NoLostWakeup'
         /\ \A s \in Session : /\ posts[s] = <<>> =>
                                   /\ writing'[s] = writing[s]
                                   /\ outgoing_messages_'[s] = outgoing_messages_[s]
                               /\ outgoing_messages_[s] # <<>> =>
                                   /\ writing'[s] = writing[s]
                                   /\ outgoing_messages_'[s] # <<>>
                                   /\ Head(outgoing_messages_'[s]) = Head(outgoing_messages_[s])
<1>1. outgoing_messages_ \in [Session -> Seq(Messages)]
  BY DEF TypeOK
<1>2. ASSUME NEW s \in Session
      PROVE  /\ outgoing_messages_'[s] = outgoing_messages_[s] \o posts[s]
             /\ writing'[s] = IF posts[s] # <<>> /\ outgoing_messages_[s] = <<>>
                              THEN Started(socket_[s]) ELSE writing[s]
  BY DEF post, Idle, Queued
<1>3. outgoing_messages_' \in [Session -> Seq(Messages)]
  <2>1. \A q, p \in Seq(Messages) : q \o p \in Seq(Messages)
    OBVIOUS
  <2>2. \A s \in Session : outgoing_messages_[s] \in Seq(Messages)
                           /\ posts[s] \in Seq(Messages)
    BY <1>1
  <2> QED
    BY <2>1, <2>2 DEF post, Queued
<1>4. writing' \in [Session -> Operation]
  BY DEF post, TypeOK, Started, Operation, Outcome
<1>5. ASSUME NEW s \in Session
      PROVE  /\ writing'[s] # "idle" => outgoing_messages_'[s] # <<>>
             /\ socket_[s] = "open" /\ outgoing_messages_'[s] # <<>> => writing'[s] # "idle"
  <2>1. outgoing_messages_[s] \in Seq(Messages) /\ posts[s] \in Seq(Messages)
    BY <1>1
  <2>2. CASE posts[s] = <<>>
    BY <1>2, <2>1, <2>2 DEF NoLostWakeup
  <2>3. CASE posts[s] # <<>>
    <3>1. outgoing_messages_[s] \o posts[s] # <<>>
      BY <2>1, <2>3
    <3> QED
      BY <1>2, <2>3, <3>1 DEF NoLostWakeup, Started
  <2> QED
    BY <2>2, <2>3
<1>6. ASSUME NEW s \in Session, posts[s] = <<>>
      PROVE  writing'[s] = writing[s] /\ outgoing_messages_'[s] = outgoing_messages_[s]
  <2>1. \A q \in Seq(Messages) : q \o <<>> = q
    OBVIOUS
  <2>2. outgoing_messages_[s] \in Seq(Messages)
    BY <1>1
  <2> QED
    BY <1>2, <1>6, <2>1, <2>2
<1>7. ASSUME NEW s \in Session, outgoing_messages_[s] # <<>>
      PROVE  /\ writing'[s] = writing[s]
             /\ outgoing_messages_'[s] # <<>>
             /\ Head(outgoing_messages_'[s]) = Head(outgoing_messages_[s])
  BY <1>1, <1>2, <1>7
<1> QED
  BY <1>3, <1>4, <1>5, <1>6, <1>7 DEF NoLostWakeup

(* broadcast: the same, and who is not in sessions_ is posted only what is *)
(* its own.                                                                *)
LEMMA BroadcastQueues ==
  ASSUME TypeOK, NoLostWakeup,
         NEW m \in Messages,
         NEW own \in [Session -> Seq(Messages)],
         broadcast(m, own), UNCHANGED socket_
  PROVE  /\ room' = Append(room, m)
         /\ room' \in Seq(Messages)
         /\ outgoing_messages_' \in [Session -> Seq(Messages)]
         /\ writing' \in [Session -> Operation]
         /\ NoLostWakeup'
         /\ \A s \in Session \ sessions_ : own[s] = <<>> =>
              /\ writing'[s] = writing[s]
              /\ outgoing_messages_'[s] = outgoing_messages_[s]
         /\ \A s \in Session : outgoing_messages_[s] # <<>> =>
              /\ writing'[s] = writing[s]
              /\ outgoing_messages_'[s] # <<>>
              /\ Head(outgoing_messages_'[s]) = Head(outgoing_messages_[s])
<1> DEFINE posts == [s \in Session |->
                       (IF s \in Audience THEN <<m>> ELSE <<>>) \o own[s]]
<1>1. post(posts) /\ room' = Append(room, m)
  BY DEF broadcast
<1>2. posts \in [Session -> Seq(Messages)]
  <2>1. \A q, p \in Seq(Messages) : q \o p \in Seq(Messages)
    OBVIOUS
  <2>2. \A s \in Session : (IF s \in Audience THEN <<m>> ELSE <<>>) \in Seq(Messages)
    OBVIOUS
  <2> QED
    BY <2>1, <2>2
<1>3. \A s \in Session \ sessions_ : own[s] = <<>> => posts[s] = <<>>
  BY DEF Audience
<1>4. room' \in Seq(Messages)
  BY <1>1 DEF TypeOK
<1> HIDE DEF posts
<1> QED
  BY <1>1, <1>2, <1>3, <1>4, PostQueues

(* The messages the handlers broadcast and post.                           *)
LEMMA MessageType ==
  ASSUME NEW s \in Session, NEW k \in Kind
  PROVE  /\ Message(k, s) \in Messages
         /\ Nothing \in [Session -> Seq(Messages)]
         /\ [Nothing EXCEPT ![s] = <<Message(k, s)>>] \in [Session -> Seq(Messages)]
<1>1. Message(k, s) \in Messages
  BY DEF Message, Messages
<1>2. Nothing \in [Session -> Seq(Messages)]
  BY SeqFacts DEF Nothing
<1>3. <<Message(k, s)>> \in Seq(Messages)
  BY <1>1, SeqFacts
<1> QED
  BY <1>1, <1>2, <1>3

(* The state main and the server's constructor leave.                      *)
LEMMA InitQueues == Init => Queues
BY DEF Init, Queues, TypeOK, NoLostWakeup, Outsiders, SpokenReadsNoMore,
    SpeaksAtMostOnce, Operation

(* on_accept.                                                              *)
LEMMA AcceptKeepsQueues ==
  ASSUME Queues, on_accept
  PROVE  Queues'
<1> USE DEF Queues
<1>0. new_session \in Session /\ UNCHANGED socket_ /\ UNCHANGED sent
  BY DEF TypeOK, on_accept
<1>1. CASE accept_error
  <2> DEFINE m == Message("left", new_session)
  <2>1. m \in Messages /\ m.kind = "left"
        /\ broadcast(m, Nothing)
        /\ Nothing \in [Session -> Seq(Messages)]
    BY <1>0, <1>1, MessageType DEF accept_error, Message, Kind
  <2> HIDE DEF m
  <2>2. TypeOK' /\ NoLostWakeup'
    BY <1>0, <1>1, <2>1, BroadcastQueues DEF TypeOK, on_accept, accept_error,
        Operation
  <2>3. Outsiders'
    BY <1>0, <1>1, <2>1, BroadcastQueues DEF TypeOK, Outsiders, on_accept,
        accept_error, Nothing
  <2>4. SpokenReadsNoMore' /\ SpeaksAtMostOnce'
    <3>1. room' = Append(room, m) /\ room \in Seq(Messages)
      BY <1>0, <2>1, BroadcastQueues DEF TypeOK
    <3> QED
      BY <1>1, <2>1, <3>1, RoomAppend DEF SpokenReadsNoMore, SpeaksAtMostOnce,
          on_accept, accept_error
  <2> QED
    BY <2>2, <2>3, <2>4
<1>2. CASE accept_client
  <2> DEFINE m == Message("joined", new_session)
             own == [Nothing EXCEPT ![new_session] =
                       <<Message("welcome", new_session)>>]
  <2>1. m \in Messages /\ m.kind = "joined"
        /\ broadcast(m, own)
        /\ own \in [Session -> Seq(Messages)]
        /\ \A s \in Session \ {new_session} : own[s] = <<>>
    BY <1>0, <1>2, MessageType DEF accept_client, Message, Kind, Nothing
  <2> HIDE DEF m, own
  <2>2. new_session' \in Session /\ socket_[new_session'] = "unopened"
        /\ accepting' = "wait"
    BY <1>2 DEF accept_client, accept, Fresh
  <2>3. TypeOK' /\ NoLostWakeup'
    BY <1>0, <1>2, <2>1, <2>2, BroadcastQueues DEF TypeOK, on_accept,
        accept_client, Operation, Outcome, Started
  <2>4. Outsiders'
    <3>1. \A s \in Session \ sessions_ : s # new_session =>
            writing'[s] = writing[s] /\ outgoing_messages_'[s] = outgoing_messages_[s]
      BY <1>0, <2>1, BroadcastQueues
    <3>2. /\ sessions_' = sessions_ \cup {new_session}
          /\ reading' = [reading EXCEPT ![new_session] = Started(socket_[new_session])]
          /\ accepting = "ok"
      BY <1>2 DEF accept_client
    <3> QED
      BY <1>0, <2>2, <3>1, <3>2 DEF TypeOK, Outsiders
  <2>5. SpokenReadsNoMore' /\ SpeaksAtMostOnce'
    <3>1. room' = Append(room, m) /\ room \in Seq(Messages)
      BY <1>0, <2>1, BroadcastQueues DEF TypeOK
    <3>2. \A s \in sessions_ : s \in sessions_' /\ reading'[s] = reading[s]
      BY <1>2 DEF accept_client, TypeOK, Outsiders
    <3> QED
      BY <2>1, <3>1, <3>2, RoomAppend DEF SpokenReadsNoMore, SpeaksAtMostOnce
  <2> QED
    BY <2>3, <2>4, <2>5
<1>3. CASE accept_throws
  BY <1>0, <1>3 DEF on_accept, accept_throws, TypeOK, NoLostWakeup, Outsiders,
      SpokenReadsNoMore, SpeaksAtMostOnce
<1> QED
  BY <1>1, <1>2, <1>3 DEF on_accept

(* session::on_read.                                                       *)
LEMMA ReadKeepsQueues ==
  ASSUME NEW s \in Session, Queues, on_read(s)
  PROVE  Queues'
<1> USE DEF Queues
<1>1. CASE line_read(s)
  <2> DEFINE m == Message("said", s)
             own == [Nothing EXCEPT ![s] = <<Message("line", s)>>]
  <2>1. m \in Messages /\ m.kind = "said" /\ m.from = s
        /\ broadcast(m, own)
        /\ own \in [Session -> Seq(Messages)]
        /\ \A t \in Session \ {s} : own[t] = <<>>
    BY <1>1, MessageType DEF line_read, Message, Kind, Nothing
  <2> HIDE DEF m, own
  <2>2. s \in sessions_ /\ reading[s] = "ok" /\ UNCHANGED <<socket_, sessions_>>
        /\ reading' = [reading EXCEPT ![s] = "idle"]
    BY <1>1 DEF on_read, line_read, Outsiders, AfterRead
  <2>3. TypeOK' /\ NoLostWakeup'
    BY <1>1, <2>1, <2>2, BroadcastQueues DEF TypeOK, on_read, Operation
  <2>4. Outsiders'
    <3>1. \A t \in Session \ sessions_ :
            writing'[t] = writing[t] /\ outgoing_messages_'[t] = outgoing_messages_[t]
      BY <2>1, <2>2, BroadcastQueues
    <3> QED
      BY <1>1, <2>2, <3>1 DEF TypeOK, Outsiders, on_read
  <2>5. room' = Append(room, m) /\ room \in Seq(Messages)
    BY <2>1, <2>2, BroadcastQueues DEF TypeOK
  <2>6. SpokenReadsNoMore'
    BY <2>1, <2>2, <2>5, RoomAppend DEF TypeOK, SpokenReadsNoMore
  <2>7. SpeaksAtMostOnce'
    <3>1. \A i \in DOMAIN room : room[i] # m
      BY <2>1, <2>2 DEF SpokenReadsNoMore
    <3> QED
      BY <2>1, <2>5, <3>1, RoomAppend DEF SpeaksAtMostOnce
  <2> QED
    BY <2>3, <2>4, <2>6, <2>7
<1>2. CASE read_error(s)
  <2>1. s \in sessions_
    BY <1>2 DEF read_error, Outsiders
  <2>2. TypeOK'
    BY <1>2 DEF on_read, read_error, on_error, Closed, TypeOK, Operation, Outcome
  <2>3. NoLostWakeup' /\ Outsiders'
    BY <1>2, <2>1 DEF on_read, read_error, on_error, Closed, TypeOK,
        NoLostWakeup, Outsiders
  <2>4. SpokenReadsNoMore' /\ SpeaksAtMostOnce'
    BY <1>2 DEF on_read, read_error, TypeOK, SpokenReadsNoMore, SpeaksAtMostOnce
  <2> QED
    BY <2>2, <2>3, <2>4
<1> QED
  BY <1>1, <1>2 DEF on_read

(* session::on_write.                                                      *)
LEMMA WriteKeepsQueues ==
  ASSUME NEW s \in Session, Queues, on_write(s)
  PROVE  Queues'
<1> USE DEF Queues
<1>1. s \in sessions_ /\ outgoing_messages_[s] \in Seq(Messages)
      /\ outgoing_messages_[s] # <<>>
  BY DEF on_write, message_written, write_error, Outsiders, TypeOK, NoLostWakeup
<1>2. CASE message_written(s)
  <2> DEFINE q == outgoing_messages_[s]
  <2>1. Tail(q) \in Seq(Messages) /\ Head(q) \in Messages
        /\ (Tail(q) # <<>> <=> Len(q) > 1)
    BY <1>1, SeqFacts
  <2>2. /\ outgoing_messages_' = [outgoing_messages_ EXCEPT ![s] = Tail(q)]
        /\ writing' = [writing EXCEPT ![s] = IF Len(q) > 1 THEN Started(socket_[s])
                                                           ELSE "idle"]
        /\ sent' = [sent EXCEPT ![s] = Append(@, Head(q))]
        /\ UNCHANGED <<process, accepting, new_session, sessions_, socket_,
                       reading, room>>
    BY <1>2 DEF on_write, message_written, AfterWrite
  <2> HIDE DEF q
  <2>3. TypeOK'
    BY <2>1, <2>2 DEF TypeOK, Operation, Outcome, Started
  <2>4. NoLostWakeup'
    BY <2>1, <2>2 DEF TypeOK, NoLostWakeup, Started
  <2>5. Outsiders' /\ SpokenReadsNoMore' /\ SpeaksAtMostOnce'
    BY <1>1, <2>2 DEF Outsiders, SpokenReadsNoMore, SpeaksAtMostOnce
  <2> QED
    BY <2>3, <2>4, <2>5
<1>3. CASE write_error(s)
  <2>1. TypeOK'
    BY <1>3 DEF on_write, write_error, on_error, Closed, TypeOK, Operation, Outcome
  <2>2. NoLostWakeup' /\ Outsiders'
    BY <1>1, <1>3 DEF on_write, write_error, on_error, Closed, TypeOK,
        NoLostWakeup, Outsiders
  <2>3. SpokenReadsNoMore' /\ SpeaksAtMostOnce'
    BY <1>3 DEF on_write, write_error, Closed, TypeOK, SpokenReadsNoMore,
        SpeaksAtMostOnce
  <2> QED
    BY <2>1, <2>2, <2>3
<1> QED
  BY <1>2, <1>3 DEF on_write

(* What the network does, and the end of main.                             *)
LEMMA NetworkKeepsQueues ==
  ASSUME Queues,
         \/ AcceptCompletes \/ run_returns \/ server_destroyed
         \/ \E s \in Session : ReadCompletes(s) \/ WriteCompletes(s)
  PROVE  Queues'
<1> USE DEF Queues
<1>1. CASE AcceptCompletes
  BY <1>1 DEF AcceptCompletes, TypeOK, Operation, Outcome, NoLostWakeup,
      Outsiders, SpokenReadsNoMore, SpeaksAtMostOnce
<1>2. CASE run_returns \/ server_destroyed
  BY <1>2 DEF run_returns, server_destroyed, TypeOK, NoLostWakeup, Outsiders,
      SpokenReadsNoMore, SpeaksAtMostOnce
<1>3. ASSUME NEW s \in Session, ReadCompletes(s)
      PROVE  Queues'
  BY <1>3 DEF ReadCompletes, TypeOK, Operation, Outcome, NoLostWakeup, Outsiders,
      SpokenReadsNoMore, SpeaksAtMostOnce
<1>4. ASSUME NEW s \in Session, WriteCompletes(s)
      PROVE  Queues'
  BY <1>4 DEF WriteCompletes, TypeOK, Operation, Outcome, NoLostWakeup, Outsiders,
      SpokenReadsNoMore, SpeaksAtMostOnce
<1> QED
  BY <1>1, <1>2, <1>3, <1>4

(* Every step.                                                             *)
LEMMA NextQueues == Queues /\ [Next]_vars => Queues'
<1> SUFFICES ASSUME Queues, [Next]_vars PROVE Queues'
  OBVIOUS
<1>1. CASE UNCHANGED vars
  BY <1>1 DEF vars, Queues, TypeOK, NoLostWakeup, Outsiders, SpokenReadsNoMore,
      SpeaksAtMostOnce
<1>2. CASE Next
  BY <1>2, AcceptKeepsQueues, ReadKeepsQueues, WriteKeepsQueues,
      NetworkKeepsQueues DEF Next
<1> QED
  BY <1>1, <1>2

(* The step behind FrontStays: only on_write of the session itself takes   *)
(* the front away, and it runs when the write is over.                     *)
LEMMA FrontStep ==
  ASSUME Queues, [Next]_vars, NEW s \in Session, writing[s] = "wait"
  PROVE  /\ outgoing_messages_'[s] # <<>>
         /\ Head(outgoing_messages_'[s]) = Head(outgoing_messages_[s])
<1> USE DEF Queues
<1>0. outgoing_messages_[s] # <<>> /\ new_session \in Session
  BY DEF NoLostWakeup, TypeOK
<1>1. ASSUME UNCHANGED outgoing_messages_
      PROVE  /\ outgoing_messages_'[s] # <<>>
             /\ Head(outgoing_messages_'[s]) = Head(outgoing_messages_[s])
  BY <1>0, <1>1
<1>2. CASE on_accept
  <2>1. CASE accept_error
    BY <1>0, <1>2, <2>1, MessageType, BroadcastQueues DEF on_accept, accept_error,
        Kind
  <2>2. CASE accept_client
    BY <1>0, <1>2, <2>2, MessageType, BroadcastQueues DEF on_accept,
        accept_client, Kind
  <2> QED
    BY <1>1, <1>2, <2>1, <2>2 DEF on_accept, accept_throws
<1>3. ASSUME NEW t \in Session, on_read(t)
      PROVE  /\ outgoing_messages_'[s] # <<>>
             /\ Head(outgoing_messages_'[s]) = Head(outgoing_messages_[s])
  <2>1. CASE line_read(t)
    BY <1>0, <2>1, MessageType, BroadcastQueues DEF line_read, Kind
  <2> QED
    BY <1>1, <1>3, <2>1 DEF on_read, read_error
<1>4. ASSUME NEW t \in Session, on_write(t)
      PROVE  /\ outgoing_messages_'[s] # <<>>
             /\ Head(outgoing_messages_'[s]) = Head(outgoing_messages_[s])
  <2>1. CASE message_written(t)
    <3>1. s # t
      BY <2>1 DEF message_written
    <3> QED
      BY <1>0, <2>1, <3>1 DEF message_written, TypeOK
  <2> QED
    BY <1>1, <1>4, <2>1 DEF on_write, write_error
<1> QED
  BY <1>1, <1>2, <1>3, <1>4 DEF Next, vars, run_returns, server_destroyed,
      AcceptCompletes, ReadCompletes, WriteCompletes

(* What is posted goes behind what is queued.                              *)
LEMMA PrefixFacts ==
  ASSUME NEW S, NEW q \in Seq(S)
  PROVE  /\ IsPrefix(q, q)
         /\ \A p \in Seq(S) : IsPrefix(q, q \o p)
<1>1. ASSUME NEW p \in Seq(S) PROVE IsPrefix(q, q \o p)
  <2>1. q \o p \in Seq(S) /\ Len(q \o p) = Len(q) + Len(p)
    OBVIOUS
  <2>2. SubSeq(q, 1, Len(q)) = SubSeq(q \o p, 1, Len(q))
    BY <2>1
  <2> QED
    BY <2>1, <2>2 DEF IsPrefix
<1> QED
  BY <1>1 DEF IsPrefix

(* broadcast and post leave a queue that is not written as it is, but for  *)
(* what they put behind it.                                                *)
LEMMA BroadcastGrows ==
  ASSUME TypeOK,
         NEW m \in Messages, NEW own \in [Session -> Seq(Messages)],
         broadcast(m, own),
         NEW s \in Session, outgoing_messages_[s] # <<>>
  PROVE  /\ writing'[s] = writing[s]
         /\ IsPrefix(outgoing_messages_[s], outgoing_messages_'[s])
<1> DEFINE p == (IF s \in Audience THEN <<m>> ELSE <<>>) \o own[s]
<1>1. p \in Seq(Messages)
  <2>1. (IF s \in Audience THEN <<m>> ELSE <<>>) \in Seq(Messages)
    OBVIOUS
  <2> QED
    BY <2>1, SeqFacts
<1>2. /\ outgoing_messages_'[s] = outgoing_messages_[s] \o p
      /\ writing'[s] = writing[s]
  BY DEF broadcast, post, Queued, Idle, TypeOK
<1>3. outgoing_messages_[s] \in Seq(Messages)
  BY DEF TypeOK
<1> HIDE DEF p
<1> QED
  BY <1>1, <1>2, <1>3, PrefixFacts

(* The step behind DeadQueueOnlyGrows: a write is started by the first     *)
(* message of an empty queue or by on_write, and neither comes.            *)
LEMMA DeadStep ==
  ASSUME Queues, [Next]_vars, NEW s \in Session,
         writing[s] = "idle", outgoing_messages_[s] # <<>>
  PROVE  /\ writing'[s] = "idle"
         /\ IsPrefix(outgoing_messages_[s], outgoing_messages_'[s])
<1> DEFINE Grows == /\ writing'[s] = "idle"
                   /\ IsPrefix(outgoing_messages_[s], outgoing_messages_'[s])
<1>0. TypeOK /\ new_session \in Session
  BY DEF Queues, TypeOK
<1>1. ASSUME writing'[s] = writing[s], UNCHANGED outgoing_messages_
      PROVE  Grows
  BY <1>0, <1>1, PrefixFacts DEF TypeOK
<1>2. ASSUME NEW m \in Messages, NEW own \in [Session -> Seq(Messages)],
             broadcast(m, own)
      PROVE  Grows
  BY <1>0, <1>2, BroadcastGrows
<1> SUFFICES Grows
  OBVIOUS
<1> HIDE DEF Grows
<1>3. CASE on_accept
  <2>1. CASE accept_error
    BY <1>0, <1>2, <2>1, MessageType DEF accept_error, Kind
  <2>2. CASE accept_client
    BY <1>0, <1>2, <2>2, MessageType DEF accept_client, Kind
  <2> QED
    BY <1>1, <1>3, <2>1, <2>2 DEF on_accept, accept_throws
<1>4. ASSUME NEW t \in Session, on_read(t)
      PROVE  Grows
  <2>1. CASE line_read(t)
    BY <1>2, <2>1, MessageType DEF line_read, Kind
  <2>2. CASE read_error(t)
    BY <1>0, <1>1, <2>2 DEF read_error, Closed, TypeOK
  <2> QED
    BY <1>4, <2>1, <2>2 DEF on_read
<1>5. ASSUME NEW t \in Session, on_write(t)
      PROVE  Grows
  <2>1. t # s
    BY <1>5 DEF on_write, message_written, write_error
  <2>2. writing'[s] = writing[s] /\ outgoing_messages_'[s] = outgoing_messages_[s]
    BY <1>0, <1>5, <2>1 DEF on_write, message_written, write_error, TypeOK
  <2> QED
    BY <1>0, <2>2, PrefixFacts DEF Grows, TypeOK
<1>6. ASSUME NEW t \in Session, WriteCompletes(t)
      PROVE  Grows
  BY <1>0, <1>1, <1>6 DEF WriteCompletes, TypeOK
<1>7. CASE \/ run_returns \/ server_destroyed \/ AcceptCompletes
          \/ UNCHANGED vars \/ \E t \in Session : ReadCompletes(t)
  BY <1>1, <1>7 DEF vars, run_returns, server_destroyed, AcceptCompletes,
      ReadCompletes
<1> QED
  BY <1>3, <1>4, <1>5, <1>6, <1>7 DEF Next

-----------------------------------------------------------------------------
(* Induction over a sequence.  A set of naturals that is not empty has a   *)
(* least element; ...                                                      *)
LEMMA Least ==
  ASSUME NEW T \in SUBSET Nat, T # {}
  PROVE  \E n \in T : \A m \in T : n <= m
<1> DEFINE R == OpToRel(<, Nat)
<1>1. IsWellFoundedOn(R, Nat)
  BY NatLessThanWellFounded
<1>2. \A x, y \in Nat : x < y => <<x, y>> \in R
  BY Z3 DEF OpToRel
<1> HIDE DEF R
<1>3. PICK n \in T : \A m \in T : <<m, n>> \notin R
  BY <1>1, WFMin
<1>4. ASSUME NEW m \in T PROVE n <= m
  <2>1. n \in Nat /\ m \in Nat /\ ~(m < n)
    BY <1>2, <1>3
  <2> QED
    BY <2>1
<1> QED
  BY <1>4

(* ... so one that has 0, and the successors of its elements, has them all.*)
LEMMA Induct ==
  ASSUME NEW T, 0 \in T, \A n \in Nat : n \in T => n + 1 \in T
  PROVE  Nat \subseteq T
<1> SUFFICES ASSUME Nat \ T # {} PROVE FALSE
  OBVIOUS
<1>1. PICK n \in Nat \ T : \A m \in Nat \ T : n <= m
  BY Least
<1>2. n # 0 /\ n - 1 \in Nat /\ n - 1 \notin Nat \ T
  BY <1>1
<1> QED
  BY <1>1, <1>2

(* Concatenation under a name: for the provers an operator like any other. *)
Cat(a, b) == a \o b

(* What is known of Cat wherever it is not unfolded.                       *)
LEMMA CatFacts ==
  ASSUME NEW S
  PROVE  /\ <<>> \in Seq(S)
         /\ \A a, b \in Seq(S) : Cat(a, b) \in Seq(S)
         /\ \A a \in Seq(S) : Cat(<<>>, a) = a
BY DEF Cat

(* f[n] is what the first n of the sequences ss come to, flattened.        *)
Flattens(f, ss) ==
  /\ f[0] = <<>>
  /\ \A i \in Nat : i < Len(ss) => f[i + 1] = Cat(f[i], ss[i + 1])

(* There is such an f, of sequences: built one step at a time.             *)
LEMMA FlattensExists ==
  ASSUME NEW S, NEW ss \in Seq(Seq(S))
  PROVE  \E f \in [0 .. Len(ss) -> Seq(S)] : Flattens(f, ss)
<1> DEFINE Upto(f, n) == /\ f \in [0 .. n -> Seq(S)]
                         /\ f[0] = <<>>
                         /\ \A i \in Nat : i < n => f[i + 1] = Cat(f[i], ss[i + 1])
           T == {n \in Nat : n <= Len(ss) => \E f : Upto(f, n)}
<1>1. 0 \in T
  <2>1. Upto([i \in 0 .. 0 |-> <<>>], 0)
    BY CatFacts
  <2> HIDE DEF Upto
  <2> QED
    BY <2>1
<1>2. ASSUME NEW n \in Nat, n + 1 <= Len(ss), NEW f, Upto(f, n)
      PROVE  \E g : Upto(g, n + 1)
  <2>1. ss[n + 1] \in Seq(S) /\ f[n] \in Seq(S)
    BY <1>2
  <2>2. PICK x \in Seq(S) : x = Cat(f[n], ss[n + 1])
    BY <2>1, CatFacts
  <2> DEFINE g == [i \in 0 .. n + 1 |-> IF i = n + 1 THEN x ELSE f[i]]
  <2>3. g \in [0 .. n + 1 -> Seq(S)] /\ g[0] = <<>> /\ g[n + 1] = x
        /\ \A i \in Nat : i <= n => g[i] = f[i]
    BY <1>2
  <2> HIDE DEF g
  <2>4. ASSUME NEW i \in Nat, i < n + 1 PROVE g[i + 1] = Cat(g[i], ss[i + 1])
    <3>1. CASE i = n
      BY <2>2, <2>3, <3>1
    <3>2. CASE i < n
      <4>1. f[i + 1] = Cat(f[i], ss[i + 1])
        BY <1>2, <3>2
      <4>2. i <= n /\ i + 1 <= n /\ i + 1 \in Nat
        BY <3>2
      <4>3. g[i + 1] = f[i + 1] /\ g[i] = f[i]
        BY <2>3, <4>2
      <4> QED
        BY <4>1, <4>3
    <3> QED
      BY <2>4, <3>1, <3>2
  <2> QED
    BY <2>3, <2>4
<1> HIDE DEF Upto
<1>3. \A n \in Nat : n \in T => n + 1 \in T
  BY <1>2
<1>4. Len(ss) \in T
  <2> HIDE DEF T
  <2> QED
    BY <1>1, <1>3, Induct
<1> QED
  BY <1>4 DEF Upto, Flattens

(* Two of them end alike: by induction they agree everywhere.              *)
LEMMA FlattensUnique ==
  ASSUME NEW ss, Len(ss) \in Nat, NEW f, NEW g, Flattens(f, ss), Flattens(g, ss)
  PROVE  f[Len(ss)] = g[Len(ss)]
<1> DEFINE T == {n \in Nat : n <= Len(ss) => f[n] = g[n]}
<1>1. 0 \in T
  BY DEF Flattens
<1>2. ASSUME NEW n \in Nat, n + 1 <= Len(ss), f[n] = g[n] PROVE f[n + 1] = g[n + 1]
  <2>1. f[n + 1] = Cat(f[n], ss[n + 1]) /\ g[n + 1] = Cat(g[n], ss[n + 1])
    BY <1>2 DEF Flattens
  <2> QED
    BY <1>2, <2>1
<1>3. \A n \in Nat : n \in T => n + 1 \in T
  BY <1>2
<1>4. Len(ss) \in T
  <2> HIDE DEF T
  <2> QED
    BY <1>1, <1>3, Induct
<1> QED
  BY <1>4

(* FlattenSeq computes it.                                                 *)
LEMMA FlattenIs ==
  ASSUME NEW S, NEW ss \in Seq(Seq(S)), NEW f \in [0 .. Len(ss) -> Seq(S)],
         Flattens(f, ss)
  PROVE  FlattenSeq(ss) = f[Len(ss)]
<1> DEFINE N == Len(ss)
           Eq(h) == h = [i \in 1 .. N |-> IF i = 1 THEN ss[i] ELSE Cat(h[i - 1], ss[i])]
<1>2. CASE N = 0
  <2>1. FlattenSeq(ss) = <<>>
    BY <1>2 DEF FlattenSeq
  <2> QED
    BY <1>2, <2>1 DEF Flattens
<1>3. CASE N # 0
  <2> DEFINE h == CHOOSE g : Eq(g)
             e == [i \in 1 .. N |-> f[i]]
  <2>1. ASSUME NEW i \in 1 .. N
        PROVE  f[i] = IF i = 1 THEN ss[i] ELSE Cat(e[i - 1], ss[i])
    <3>1. f[i] = Cat(f[i - 1], ss[i]) /\ ss[i] \in Seq(S) /\ f[0] = <<>>
      <4>1. i - 1 \in Nat /\ i - 1 < Len(ss) /\ (i - 1) + 1 = i
        OBVIOUS
      <4> QED
        BY <4>1 DEF Flattens
    <3>2. CASE i = 1
      <4>1. f[i] = Cat(<<>>, ss[i])
        BY <3>1, <3>2
      <4> QED
        BY <3>1, <3>2, <4>1, CatFacts
    <3>3. CASE i # 1
      <4>1. e[i - 1] = f[i - 1]
        BY <3>3
      <4> QED
        BY <3>1, <3>3, <4>1
    <3> QED
      BY <3>2, <3>3
  <2>2. Eq(e)
    BY <2>1
  <2>3. Eq(h)
    BY <2>2, Zenon
  <2>4. FlattenSeq(ss) = h[N]
    BY <1>3 DEF FlattenSeq, Cat
  <2> DEFINE k == [i \in 0 .. N |-> IF i = 0 THEN <<>> ELSE h[i]]
  <2> HIDE DEF h
  <2>5. Flattens(k, ss)
    <3>1. ASSUME NEW i \in Nat, i < N PROVE k[i + 1] = Cat(k[i], ss[i + 1])
      <4>1. h[i + 1] = IF i + 1 = 1 THEN ss[i + 1] ELSE Cat(h[(i + 1) - 1], ss[i + 1])
        BY <2>3, <3>1
      <4>2. k[i + 1] = h[i + 1] /\ ss[i + 1] \in Seq(S)
        BY <3>1
      <4>3. CASE i = 0
        <5>1. k[i] = <<>> /\ k[i + 1] = ss[i + 1]
          BY <4>1, <4>2, <4>3
        <5> QED
          BY <4>2, <5>1, CatFacts
      <4>4. CASE i # 0
        <5>1. k[i] = h[i] /\ (i + 1) - 1 = i
          BY <3>1, <4>4
        <5> QED
          BY <4>1, <4>2, <4>4, <5>1
      <4> QED
        BY <4>3, <4>4
    <3>2. k[0] = <<>>
      OBVIOUS
    <3> HIDE DEF k
    <3> QED
      BY <3>1, <3>2 DEF Flattens
  <2> HIDE DEF k
  <2>6. f[N] = k[N]
    BY <2>5, FlattensUnique
  <2>7. k[N] = h[N]
    BY <1>3 DEF k
  <2> QED
    BY <2>4, <2>6, <2>7
<1> QED
  BY <1>2, <1>3

(* The flattened sequence has the elements of the others, ...              *)
LEMMA FlattenType ==
  ASSUME NEW S, NEW ss \in Seq(Seq(S))
  PROVE  FlattenSeq(ss) \in Seq(S)
<1>1. PICK f \in [0 .. Len(ss) -> Seq(S)] : Flattens(f, ss)
  BY FlattensExists
<1>2. f[Len(ss)] \in Seq(S)
  OBVIOUS
<1> QED
  BY <1>1, <1>2, FlattenIs

(* ... and one more sequence at the end goes to the end of the result.     *)
LEMMA FlattenAppend ==
  ASSUME NEW S, NEW ss \in Seq(Seq(S)), NEW x \in Seq(S)
  PROVE  FlattenSeq(Append(ss, x)) = FlattenSeq(ss) \o x
<1> DEFINE tt == Append(ss, x)
           N == Len(ss)
<1>1. tt \in Seq(Seq(S)) /\ N \in Nat /\ Len(tt) = N + 1 /\ tt[N + 1] = x
      /\ \A i \in 1 .. N : ss[i] = tt[i]
  OBVIOUS
<1> HIDE DEF tt
<1>2. PICK f \in [0 .. N -> Seq(S)] : Flattens(f, ss)
  BY FlattensExists
<1>3. PICK g \in [0 .. Len(tt) -> Seq(S)] : Flattens(g, tt)
  BY <1>1, FlattensExists
<1>4. f[N] = g[N]
  <2>1. ASSUME NEW i \in Nat, i < N PROVE g[i + 1] = Cat(g[i], ss[i + 1])
    <3>1. i < Len(tt) /\ i + 1 \in 1 .. N
      BY <1>1, <2>1
    <3>2. ss[i + 1] = tt[i + 1]
      BY <1>1, <3>1, Zenon
    <3> QED
      BY <1>3, <3>1, <3>2 DEF Flattens
  <2>2. Flattens(g, ss)
    BY <1>3, <2>1 DEF Flattens
  <2> QED
    BY <1>1, <1>2, <2>2, FlattensUnique
<1>5. g[N + 1] = Cat(g[N], x)
  <2>1. N \in Nat /\ N < Len(tt) /\ tt[N + 1] = x
    BY <1>1
  <2> HIDE DEF N
  <2> QED
    BY <1>3, <2>1 DEF Flattens
<1>6. FlattenSeq(ss) = f[N] /\ FlattenSeq(tt) = g[N + 1]
  BY <1>1, <1>2, <1>3, FlattenIs
<1> QED
  BY <1>4, <1>5, <1>6 DEF tt, Cat
-----------------------------------------------------------------------------
(* Concatenation is associative.                                           *)
LEMMA CatAssoc ==
  ASSUME NEW S
  PROVE  \A a, b, c \in Seq(S) : Cat(a, Cat(b, c)) = Cat(Cat(a, b), c)
<1> SUFFICES ASSUME NEW a \in Seq(S), NEW b \in Seq(S), NEW c \in Seq(S)
             PROVE  a \o (b \o c) = (a \o b) \o c
  BY DEF Cat
<1> QED
  OBVIOUS

(* Of a sequence with an element behind it, the rest from k + 1 on is the  *)
(* rest of the sequence, with the element behind it.                       *)
LEMMA TailAppend ==
  ASSUME NEW S, NEW q \in Seq(S), NEW m \in S, NEW k \in 1 .. Len(q)
  PROVE  /\ SubSeq(q, k + 1, Len(q)) \in Seq(S)
         /\ SubSeq(Append(q, m), k + 1, Len(q) + 1)
              = Append(SubSeq(q, k + 1, Len(q)), m)
<1> DEFINE n == Len(q) - k
           p == SubSeq(q, k + 1, Len(q))
           r == SubSeq(Append(q, m), k + 1, Len(q) + 1)
<1>1. n \in Nat /\ p \in Seq(S) /\ Len(p) = n /\ r \in Seq(S) /\ Len(r) = n + 1
  OBVIOUS
<1>2. \A i \in 1 .. n : p[i] = q[k + i] /\ r[i] = q[k + i]
  OBVIOUS
<1>3. r[n + 1] = m
  OBVIOUS
<1> HIDE DEF n, p, r
<1>4. Append(p, m) \in Seq(S) /\ Len(Append(p, m)) = n + 1
      /\ (\A i \in 1 .. n : Append(p, m)[i] = p[i]) /\ Append(p, m)[n + 1] = m
  BY <1>1
<1>5. \A i \in 1 .. n + 1 : i \in 1 .. n \/ i = n + 1
  BY <1>1
<1> DEFINE u == Append(p, m)
<1> HIDE DEF u
<1>6. \A i \in 1 .. n + 1 : r[i] = u[i]
  BY <1>2, <1>3, <1>4, <1>5, Zenon DEF u
<1>7. r = u
  BY <1>1, <1>4, <1>6 DEF u
<1> QED
  BY <1>1, <1>7 DEF p, r, n, u

(* The room, as Room!Due reads it, of any history q.                       *)
At(q, m) == LET I == {i \in 1 .. Len(q) : q[i] = m}
            IN  IF I # {} THEN Min(I) ELSE 0
HeardBy(q, s) == [i \in DOMAIN q |-> Room!Heard(q[i], s)]
After(q, m) == SubSeq(q, At(q, m) + 1, Len(q))
DueIn(q, s) == Cat(<<Message("welcome", s)>>,
                   FlattenSeq(HeardBy(After(q, Message("joined", s)), s)))

(* That is what is due, in a state and in the next.                        *)
LEMMA DueIs ==
  ASSUME NEW s
  PROVE  Room!Due(s) = DueIn(room, s) /\ Room!Due(s)' = DueIn(room', s)
<1>0. \A ss : Room!FlattenSeq(ss) = FlattenSeq(ss)
  BY Zenon DEF Room!FlattenSeq, FlattenSeq
<1>1. Room!Since(s) = After(room, Message("joined", s))
  BY Zenon DEF Room!Since, Room!Message, Message, After, At, Room!SelectInSeq,
      Room!Min, Min
<1>2. Room!Since(s)' = After(room', Message("joined", s))
  BY Zenon DEF Room!Since, Room!Message, Message, After, At, Room!SelectInSeq,
      Room!Min, Min
<1>3. Room!Due(s) = DueIn(room, s)
  BY <1>0, <1>1, Zenon DEF Room!Due, DueIn, HeardBy, Cat, Room!Message, Message
<1>4. Room!Due(s)' = DueIn(room', s)
  BY <1>0, <1>2, Zenon DEF Room!Due, DueIn, HeardBy, Cat, Room!Message, Message
<1> QED
  BY <1>3, <1>4

(* Where a message is first found does not change with what comes behind.  *)
LEMMA AtAppend ==
  ASSUME NEW S, NEW q \in Seq(S), NEW m, NEW x \in S
  PROVE  /\ (\E i \in 1 .. Len(q) : q[i] = m) =>
               At(q, m) \in 1 .. Len(q) /\ At(Append(q, x), m) = At(q, m)
         /\ (\A i \in 1 .. Len(q) : q[i] # m) /\ x = m =>
               At(Append(q, x), m) = Len(q) + 1
<1> DEFINE I == {i \in 1 .. Len(q) : q[i] = m}
           J == {i \in 1 .. Len(Append(q, x)) : Append(q, x)[i] = m}
<1>1. J = IF x = m THEN I \cup {Len(q) + 1} ELSE I
  OBVIOUS
<1>2. I \in SUBSET Nat /\ Len(q) \in Nat /\ \A i \in I : i \in 1 .. Len(q)
  OBVIOUS
<1>3. At(q, m) = (IF I # {} THEN Min(I) ELSE 0)
      /\ At(Append(q, x), m) = (IF J # {} THEN Min(J) ELSE 0)
  BY DEF At
<1> HIDE DEF I, J
<1>4. CASE I # {}
  <2>1. PICK n \in I : \A i \in I : n <= i
    BY <1>2, <1>4, Least
  <2>2. Min(I) \in I /\ \A i \in I : Min(I) <= i
    BY <2>1, Zenon DEF Min
  <2>3. n \in J /\ \A i \in J : n <= i
    BY <1>1, <1>2, <2>1
  <2>4. Min(J) \in J /\ \A i \in J : Min(J) <= i
    BY <2>3, Zenon DEF Min
  <2>5. Min(J) = Min(I)
    <3>1. Min(I) \in J /\ Min(J) <= Min(I) /\ Min(I) \in 1 .. Len(q)
      BY <1>1, <1>2, <2>2, <2>4
    <3>2. Min(J) \in I
      BY <1>1, <1>2, <2>4, <3>1
    <3> DEFINE a == Min(I)
               b == Min(J)
    <3>3. a \in Nat /\ b \in Nat /\ a <= b /\ b <= a
      BY <1>2, <2>2, <3>1, <3>2
    <3> HIDE DEF a, b
    <3>4. a = b
      BY <3>3
    <3> QED
      BY <3>4 DEF a, b
  <2> QED
    BY <1>2, <1>3, <1>4, <2>2, <2>3, <2>5 DEF I
<1>5. CASE I = {}
  <2>1. \A i \in 1 .. Len(q) : q[i] # m
    BY <1>5 DEF I
  <2>2. x = m => J = {Len(q) + 1}
    BY <1>1, <1>5
  <2>3. x = m => Min(J) = Len(q) + 1
    BY <1>2, <2>2 DEF Min
  <2> QED
    BY <1>3, <2>1, <2>2, <2>3
<1> QED
  BY <1>4, <1>5

(* What is heard of a message, and of a history, has its types.            *)
LEMMA HeardType ==
  ASSUME NEW q \in Seq(Messages), NEW s \in Session
  PROVE  /\ HeardBy(q, s) \in Seq(Seq(Messages))
         /\ \A m \in Messages : Room!Heard(m, s) \in Seq(Messages)
<1>1. ASSUME NEW m \in Messages PROVE Room!Heard(m, s) \in Seq(Messages)
  <2>1. Room!Message("line", s) \in Messages
    BY DEF Room!Message, Messages, Kind
  <2>2. \A x, y \in Messages : <<x>> \in Seq(Messages) /\ <<x, y>> \in Seq(Messages)
    OBVIOUS
  <2> QED
    BY <2>1, <2>2, Zenon DEF Room!Heard
<1> DEFINE E(i) == Room!Heard(q[i], s)
<1>2. \A i \in 1 .. Len(q) : E(i) \in Seq(Messages)
  BY <1>1
<1>3. HeardBy(q, s) = [i \in 1 .. Len(q) |-> E(i)]
  BY DEF HeardBy
<1> HIDE DEF E
<1>4. HeardBy(q, s) \in Seq(Seq(Messages))
  BY <1>2, <1>3
<1> QED
  BY <1>1, <1>4

(* One message more is heard last.                                         *)
LEMMA HeardAppend ==
  ASSUME NEW q \in Seq(Messages), NEW s \in Session, NEW m \in Messages
  PROVE  HeardBy(Append(q, m), s) = Append(HeardBy(q, s), Room!Heard(m, s))
<1>1. /\ HeardBy(q, s) \in Seq(Seq(Messages)) /\ Len(HeardBy(q, s)) = Len(q)
      /\ Room!Heard(m, s) \in Seq(Messages)
      /\ HeardBy(Append(q, m), s) \in Seq(Seq(Messages))
      /\ Len(HeardBy(Append(q, m), s)) = Len(q) + 1
  BY HeardType DEF HeardBy
<1>2. \A i \in 1 .. Len(q) + 1 :
        HeardBy(Append(q, m), s)[i] = Append(HeardBy(q, s), Room!Heard(m, s))[i]
  BY <1>1 DEF HeardBy
<1> QED
  BY <1>1, <1>2

(* What is due to a member grows by what it hears of the last message; to  *)
(* one that joins with it, its welcome is due.                             *)
LEMMA DueAppend ==
  ASSUME NEW q \in Seq(Messages), NEW m \in Messages, NEW s \in Session
  PROVE  /\ (\E i \in 1 .. Len(q) : q[i] = Message("joined", s)) =>
               /\ DueIn(q, s) \in Seq(Messages)
               /\ DueIn(Append(q, m), s) = Cat(DueIn(q, s), Room!Heard(m, s))
         /\ (\A i \in 1 .. Len(q) : q[i] # Message("joined", s))
             /\ m = Message("joined", s) =>
               DueIn(Append(q, m), s) = <<Message("welcome", s)>>
<1> DEFINE j == Message("joined", s)
           w == <<Message("welcome", s)>>
<1>0. w \in Seq(Messages) /\ Append(q, m) \in Seq(Messages)
      /\ Len(Append(q, m)) = Len(q) + 1 /\ Len(q) \in Nat
  BY DEF Message, Messages, Kind
<1>1. CASE \E i \in 1 .. Len(q) : q[i] = j
  <2> DEFINE k == At(q, j)
  <2>1. k \in 1 .. Len(q) /\ At(Append(q, m), j) = k
    BY <1>1, AtAppend
  <2> HIDE DEF k, j, w
  <2> DEFINE p == SubSeq(q, k + 1, Len(q))
  <2>2. p \in Seq(Messages) /\ SubSeq(Append(q, m), k + 1, Len(q) + 1) = Append(p, m)
    BY <2>1, TailAppend
  <2>3. After(q, j) = p /\ After(Append(q, m), j) = Append(p, m)
    BY <1>0, <2>1, <2>2 DEF After, k
  <2> HIDE DEF p
  <2> DEFINE h == HeardBy(p, s)
             x == Room!Heard(m, s)
  <2>4. h \in Seq(Seq(Messages)) /\ x \in Seq(Messages)
        /\ HeardBy(Append(p, m), s) = Append(h, x)
    BY <2>2, HeardType, HeardAppend
  <2> HIDE DEF h, x
  <2> DEFINE f == FlattenSeq(h)
  <2>5. FlattenSeq(Append(h, x)) = Cat(f, x) /\ f \in Seq(Messages)
    BY <2>4, FlattenType, FlattenAppend, Zenon DEF Cat
  <2> HIDE DEF f
  <2>6. DueIn(q, s) = Cat(w, f) /\ DueIn(Append(q, m), s) = Cat(w, Cat(f, x))
    BY <2>3, <2>4, <2>5, Zenon DEF DueIn, h, j, w, f
  <2>7. Cat(w, Cat(f, x)) = Cat(Cat(w, f), x) /\ Cat(w, f) \in Seq(Messages)
    BY <1>0, <2>4, <2>5, CatAssoc, CatFacts
  <2> QED
    BY <1>1, <2>6, <2>7, Zenon DEF j, x
<1>2. CASE (\A i \in 1 .. Len(q) : q[i] # j) /\ m = j
  <2>1. At(Append(q, m), j) = Len(q) + 1
    BY <1>2, AtAppend
  <2>2. After(Append(q, m), j) = <<>>
    BY <1>0, <2>1 DEF After
  <2>3. HeardBy(<<>>, s) = <<>>
    BY DEF HeardBy
  <2>4. FlattenSeq(<<>>) = <<>>
    BY DEF FlattenSeq
  <2>5. DueIn(Append(q, m), s) = Cat(w, <<>>)
    BY <2>2, <2>3, <2>4, Zenon DEF DueIn
  <2>6. Cat(w, <<>>) = w
    BY <1>0 DEF Cat
  <2> QED
    BY <1>2, <2>5, <2>6, Zenon
<1> QED
  BY <1>1, <1>2

(* Who has joined, of any history q.                                       *)
Joined(q, s) == \E i \in 1 .. Len(q) : q[i] = Message("joined", s)

(* These are the members, in a state and in the next.                      *)
LEMMA MembersAre ==
  ASSUME room \in Seq(Messages)
  PROVE  /\ Room!Members = {s \in Session : Joined(room, s)}
         /\ room' \in Seq(Messages) =>
              Room!Members' = {s \in Session : Joined(room', s)}
<1>1. ASSUME NEW q \in Seq(Messages)
      PROVE  {m.from : m \in {n \in {q[i] : i \in DOMAIN q} : n.kind = "joined"}}
               = {s \in Session : Joined(q, s)}
  <2>1. \A i \in 1 .. Len(q) : q[i] \in Messages
    OBVIOUS
  <2>2. \A m \in Messages : m.from \in Session /\ m = [kind |-> m.kind, from |-> m.from]
    BY DEF Messages
  <2>3. DOMAIN q = 1 .. Len(q)
    OBVIOUS
  <2>4. \A s : Message("joined", s).kind = "joined" /\ Message("joined", s).from = s
    BY DEF Message
  <2>5. \A i \in 1 .. Len(q) : q[i].kind = "joined" =>
          q[i].from \in Session /\ q[i] = Message("joined", q[i].from)
    BY <2>1, <2>2 DEF Message
  <2> DEFINE M == {m.from : m \in {n \in {q[i] : i \in DOMAIN q} : n.kind = "joined"}}
  <2>6. ASSUME NEW s \in M PROVE s \in Session /\ Joined(q, s)
    <3>1. PICK i \in 1 .. Len(q) : q[i].kind = "joined" /\ s = q[i].from
      BY <2>3
    <3> QED
      BY <2>5, <3>1, Zenon DEF Joined
  <2>7. ASSUME NEW s \in Session, Joined(q, s) PROVE s \in M
    <3>1. PICK i \in 1 .. Len(q) : q[i] = Message("joined", s)
      BY <2>7 DEF Joined
    <3>2. q[i].kind = "joined" /\ q[i].from = s
      BY <2>4, <3>1, Zenon
    <3> QED
      BY <2>3, <3>2
  <2> QED
    BY <2>6, <2>7
<1>2. Room!Members = {s \in Session : Joined(room, s)}
  BY <1>1, Zenon DEF Room!Members, Room!ToSet
<1>3. room' \in Seq(Messages) => Room!Members' = {s \in Session : Joined(room', s)}
  BY <1>1, Zenon DEF Room!Members, Room!ToSet
<1> QED
  BY <1>2, <1>3

(* Who joins with one more message is the one it announces.                *)
LEMMA JoinedAppend ==
  ASSUME NEW q \in Seq(Messages), NEW m \in Messages, NEW s \in Session
  PROVE  Joined(Append(q, m), s) <=> Joined(q, s) \/ m = Message("joined", s)
BY DEF Joined

(* broadcast adds to what is queued for a member what the member hears.    *)
LEMMA DueStep ==
  ASSUME Inv, NEW m \in Messages, NEW own \in [Session -> Seq(Messages)],
         broadcast(m, own), UNCHANGED sent, NEW s \in sessions_,
         Cat(<<m>>, own[s]) = Room!Heard(m, s)
  PROVE  sent'[s] \o outgoing_messages_'[s] = Room!Due(s)'
<1>1. s \in Session /\ room \in Seq(Messages) /\ room' = Append(room, m)
  BY DEF Inv, Queues, TypeOK, broadcast
<1>2. Joined(room, s)
  BY <1>1, MembersAre DEF Inv, Registered
<1> DEFINE a == sent[s]
           b == outgoing_messages_[s]
           c == Room!Heard(m, s)
           d == DueIn(room, s)
<1>3. a \in Seq(Messages) /\ b \in Seq(Messages) /\ c \in Seq(Messages)
  BY <1>1, HeardType DEF Inv, Queues, TypeOK
<1>4. Cat(a, b) = d /\ sent'[s] = a
  BY DueIs DEF Inv, EverythingDue, Cat
<1>5. outgoing_messages_'[s] = Cat(b, c)
  <2>1. outgoing_messages_'[s] = b \o (<<m>> \o own[s])
    BY <1>1 DEF broadcast, post, Queued, Audience
  <2> QED
    BY <2>1, Zenon DEF Cat
<1>6. Room!Due(s)' = Cat(d, c)
  BY <1>1, <1>2, DueIs, DueAppend, Zenon DEF Joined
<1> HIDE DEF a, b, c, d
<1>7. Cat(a, Cat(b, c)) = Cat(d, c)
  BY <1>3, <1>4, CatAssoc
<1> QED
  BY <1>4, <1>5, <1>6, <1>7, Zenon DEF Cat

(* Who is not the speaker hears a message once, the speaker with its echo. *)
LEMMA HeardIs ==
  ASSUME NEW m \in Messages, NEW s \in Session
  PROVE  /\ m # Message("said", s) => Cat(<<m>>, <<>>) = Room!Heard(m, s)
         /\ m = Message("said", s) =>
              Cat(<<m>>, <<Message("line", s)>>) = Room!Heard(m, s)
<1>1. \A x, y \in Messages : Cat(<<x>>, <<>>) = <<x>> /\ Cat(<<x>>, <<y>>) = <<x, y>>
  <2>1. \A x, y \in Messages : <<x>> \o <<>> = <<x>>
    OBVIOUS
  <2>2. ASSUME NEW x \in Messages, NEW y \in Messages PROVE <<x>> \o <<y>> = <<x, y>>
    <3> DEFINE p == <<x>> \o <<y>>
    <3>1. p \in Seq(Messages) /\ Len(p) = 2 /\ p[1] = x /\ p[2] = y
      OBVIOUS
    <3>2. <<x, y>> \in Seq(Messages) /\ Len(<<x, y>>) = 2
      OBVIOUS
    <3> HIDE DEF p
    <3>3. p = <<x, y>>
      BY <3>1, <3>2
    <3> QED
      BY <3>3 DEF p
  <2> QED
    BY <2>1, <2>2, Zenon DEF Cat
<1>2. Message("line", s) \in Messages
  BY DEF Message, Messages, Kind
<1> QED
  BY <1>1, <1>2, Zenon DEF Room!Heard, Room!Message, Message

(* A step that leaves the room and the queues alone.                       *)
LEMMA DueStays ==
  ASSUME Inv, UNCHANGED <<sessions_, outgoing_messages_, room, sent>>
  PROVE  Registered' /\ EverythingDue'
<1>1. \A s : Room!Due(s)' = Room!Due(s)
  BY DueIs
<1>2. EverythingDue'
  BY <1>1, Zenon DEF Inv, EverythingDue
<1>3. Room!Members' = Room!Members
  BY MembersAre DEF Inv, Queues, TypeOK
<1> QED
  BY <1>2, <1>3 DEF Inv, Registered

(* on_accept.                                                              *)
LEMMA AcceptKeepsDue ==
  ASSUME Inv, Queues', on_accept
  PROVE  Registered' /\ EverythingDue'
<1>0. /\ new_session \in Session /\ UNCHANGED sent
      /\ sessions_ \subseteq Session
      /\ room \in Seq(Messages) /\ room' \in Seq(Messages)
      /\ sessions_ = {s \in Session : Joined(room, s)}
      /\ Room!Members' = {s \in Session : Joined(room', s)}
      /\ new_session \notin sessions_
  BY MembersAre DEF Inv, Registered, Queues, TypeOK, Outsiders, on_accept
<1>1. CASE accept_error
  <2> DEFINE m == Message("left", new_session)
  <2>1. m \in Messages /\ broadcast(m, Nothing)
        /\ Nothing \in [Session -> Seq(Messages)] /\ UNCHANGED sessions_
        /\ room' = Append(room, m)
    BY <1>0, <1>1, MessageType DEF accept_error, Kind, broadcast
  <2>2. \A s \in Session : m # Message("joined", s) /\ m # Message("said", s)
                           /\ Nothing[s] = <<>>
    BY DEF Message, Nothing
  <2> HIDE DEF m
  <2>3. Registered'
    BY <1>0, <2>1, <2>2, JoinedAppend DEF Inv, Registered
  <2>4. EverythingDue'
    <3>1. \A s \in sessions_ : Cat(<<m>>, Nothing[s]) = Room!Heard(m, s)
      BY <1>0, <2>1, <2>2, HeardIs, Zenon
    <3> QED
      BY <1>0, <2>1, <3>1, DueStep DEF EverythingDue
  <2> QED
    BY <2>3, <2>4
<1>2. CASE accept_client
  <2>0. PICK n \in Session : n = new_session /\ n \notin sessions_
    BY <1>0
  <2> DEFINE m == Message("joined", n)
             w == <<Message("welcome", n)>>
             own == [Nothing EXCEPT ![n] = w]
  <2>1. m \in Messages /\ broadcast(m, own)
        /\ own \in [Session -> Seq(Messages)] /\ sessions_' = sessions_ \cup {n}
        /\ room' = Append(room, m)
    BY <1>0, <1>2, <2>0, MessageType DEF accept_client, Kind, broadcast
  <2>2. \A s \in Session : /\ m # Message("said", s)
                           /\ m = Message("joined", s) <=> s = n
                           /\ s # n => own[s] = <<>>
    BY DEF Message, Nothing
  <2>3. own[n] = w
    BY <1>0 DEF Nothing
  <2>4. w \in Seq(Messages)
    BY <1>0, MessageType DEF Kind
  <2> HIDE DEF m, own
  <2>5. Registered'
    BY <1>0, <2>1, <2>2, JoinedAppend DEF Inv, Registered
  <2>6. \A s \in sessions_ : sent'[s] \o outgoing_messages_'[s] = Room!Due(s)'
    <3> SUFFICES ASSUME NEW s \in sessions_
                 PROVE  sent'[s] \o outgoing_messages_'[s] = Room!Due(s)'
      OBVIOUS
    <3>1. Cat(<<m>>, own[s]) = Room!Heard(m, s)
      BY <1>0, <2>0, <2>1, <2>2, HeardIs, Zenon
    <3> QED
      BY <1>0, <2>1, <3>1, DueStep
  <2>7. sent'[n] \o outgoing_messages_'[n] = Room!Due(n)'
    <3>1. sent[n] = <<>> /\ outgoing_messages_[n] = <<>>
      BY <1>0, <2>0 DEF Inv, Registered, Queues, Outsiders
    <3>2. outgoing_messages_'[n] = <<>> \o (<<>> \o w)
      BY <1>0, <2>0, <2>1, <2>3, <3>1 DEF broadcast, post, Queued, Audience
    <3>3. Room!Due(n)' = w
      <4>1. n \in Session /\ ~Joined(room, n) /\ m = Message("joined", n)
        BY <1>0, <2>0 DEF m
      <4>2. DueIn(Append(room, m), n) = w
        BY <1>0, <2>1, <4>1, DueAppend DEF Joined
      <4>3. Room!Due(n)' = DueIn(room', n)
        BY DueIs
      <4> QED
        BY <2>1, <4>2, <4>3
    <3>4. Cat(<<>>, Cat(<<>>, w)) = w /\ Cat(<<>>, w) = w
      BY <2>4, CatFacts
    <3> HIDE DEF w
    <3> QED
      BY <1>0, <3>1, <3>2, <3>3, <3>4, Zenon DEF Cat
  <2> HIDE DEF w
  <2>8. \A s \in sessions_' : sent'[s] \o outgoing_messages_'[s] = Room!Due(s)'
    <3>1. \A s \in sessions_' : s \in sessions_ \/ s = n
      BY <2>1
    <3> QED
      BY <2>6, <2>7, <3>1, Zenon
  <2>9. EverythingDue'
    BY <2>8, Zenon DEF EverythingDue
  <2> QED
    BY <2>5, <2>9
<1>3. CASE accept_throws
  BY <1>0, <1>3, DueStays DEF accept_throws
<1> QED
  BY <1>1, <1>2, <1>3 DEF on_accept

(* session::on_read.                                                       *)
LEMMA ReadKeepsDue ==
  ASSUME NEW t \in Session, Inv, Queues', on_read(t)
  PROVE  Registered' /\ EverythingDue'
<1>0. /\ UNCHANGED <<sent, sessions_>> /\ sessions_ \subseteq Session
      /\ room \in Seq(Messages) /\ room' \in Seq(Messages)
      /\ sessions_ = {s \in Session : Joined(room, s)}
      /\ Room!Members' = {s \in Session : Joined(room', s)}
  BY MembersAre DEF Inv, Registered, Queues, TypeOK, on_read
<1>1. CASE line_read(t)
  <2> DEFINE m == Message("said", t)
             own == [Nothing EXCEPT ![t] = <<Message("line", t)>>]
  <2>1. m \in Messages /\ broadcast(m, own)
        /\ own \in [Session -> Seq(Messages)]
        /\ room' = Append(room, m)
    BY <1>1, MessageType DEF line_read, Kind, broadcast
  <2>2. \A s \in Session : /\ m # Message("joined", s)
                           /\ m = Message("said", s) <=> s = t
                           /\ s # t => own[s] = <<>>
    BY DEF Message, Nothing
  <2>3. own[t] = <<Message("line", t)>>
    BY DEF Nothing
  <2> HIDE DEF m, own
  <2>4. Registered'
    BY <1>0, <2>1, <2>2, JoinedAppend DEF Inv, Registered
  <2>5. \A s \in sessions_ : Cat(<<m>>, own[s]) = Room!Heard(m, s)
    BY <1>0, <2>1, <2>2, <2>3, HeardIs, Zenon
  <2>6. EverythingDue'
    BY <1>0, <2>1, <2>5, DueStep DEF EverythingDue
  <2> QED
    BY <2>4, <2>6
<1>2. CASE read_error(t)
  BY <1>0, <1>2, DueStays DEF read_error
<1> QED
  BY <1>1, <1>2 DEF on_read

(* session::on_write: what is taken off the queue is the next that is due. *)
LEMMA Written ==
  ASSUME NEW t \in Session, Inv, on_write(t), message_written(t)
  PROVE  /\ t \in sessions_ /\ sent[t] \in Seq(Messages)
         /\ \A s \in sessions_ : sent'[s] \o outgoing_messages_'[s]
                                   = sent[s] \o outgoing_messages_[s]
         /\ Len(sent[t]) < Len(Room!Due(t))
         /\ sent' = [sent EXCEPT ![t] = Append(@, Room!Due(t)[Len(@) + 1])]
<1>1. t \in sessions_ /\ sessions_ \subseteq Session
  BY DEF Inv, Queues, Outsiders, TypeOK, message_written
<1> DEFINE a == sent[t]
           q == outgoing_messages_[t]
<1>2. a \in Seq(Messages) /\ q \in Seq(Messages) /\ q # <<>>
  BY DEF Inv, Queues, TypeOK, NoLostWakeup, message_written
<1>3. a \o q = Room!Due(t)
  BY <1>1 DEF Inv, EverythingDue
<1>4. /\ sent' = [sent EXCEPT ![t] = Append(a, Head(q))]
      /\ outgoing_messages_' = [outgoing_messages_ EXCEPT ![t] = Tail(q)]
      /\ sent \in [Session -> Seq(Messages)]
      /\ outgoing_messages_ \in [Session -> Seq(Messages)]
  BY DEF message_written, Inv, Queues, TypeOK
<1> HIDE DEF a, q
<1>5. Append(a, Head(q)) \o Tail(q) = a \o q
      /\ Len(a) < Len(a \o q) /\ (a \o q)[Len(a) + 1] = Head(q)
  <2>1. Len(q) \in Nat /\ Len(q) > 0 /\ Head(q) \in Messages /\ Tail(q) \in Seq(Messages)
    BY <1>2
  <2>2. q = Cat(<<Head(q)>>, Tail(q))
    BY <1>2, <2>1 DEF Cat
  <2>3. Append(a, Head(q)) = a \o <<Head(q)>> /\ <<Head(q)>> \in Seq(Messages)
    BY <1>2, <2>1
  <2>4. Cat(Cat(a, <<Head(q)>>), Tail(q)) = Cat(a, q)
    <3> DEFINE h == <<Head(q)>>
               r == Tail(q)
    <3>1. h \in Seq(Messages) /\ r \in Seq(Messages) /\ q = Cat(h, r)
      BY <2>1, <2>2, <2>3
    <3> HIDE DEF h, r
    <3>2. Cat(Cat(a, h), r) = Cat(a, q)
      BY <1>2, <3>1, CatAssoc
    <3> QED
      BY <3>2, Zenon DEF h, r
  <2>5. Append(a, Head(q)) \o Tail(q) = a \o q
    BY <2>3, <2>4, Zenon DEF Cat
  <2>6. Len(a) < Len(a \o q) /\ (a \o q)[Len(a) + 1] = Head(q)
    BY <1>2, <2>1
  <2> QED
    BY <2>5, <2>6
<1>6. \A s \in sessions_ : sent'[s] \o outgoing_messages_'[s]
                             = sent[s] \o outgoing_messages_[s]
  <2> SUFFICES ASSUME NEW s \in sessions_
               PROVE  sent'[s] \o outgoing_messages_'[s]
                        = sent[s] \o outgoing_messages_[s]
    OBVIOUS
  <2>1. CASE s = t
    <3>1. sent'[s] = Append(a, Head(q)) /\ outgoing_messages_'[s] = Tail(q)
      BY <1>1, <1>4, <2>1
    <3> QED
      BY <1>5, <2>1, <3>1, Zenon DEF a, q
  <2>2. CASE s # t
    <3>1. sent'[s] = sent[s] /\ outgoing_messages_'[s] = outgoing_messages_[s]
      BY <1>1, <1>4, <2>2
    <3> QED
      BY <3>1, Zenon
  <2> QED
    BY <2>1, <2>2
<1>7. Len(a) < Len(Room!Due(t)) /\ Room!Due(t)[Len(a) + 1] = Head(q)
  BY <1>3, <1>5
<1>8. sent' = [sent EXCEPT ![t] = Append(@, Room!Due(t)[Len(@) + 1])]
  BY <1>4, <1>7, Zenon DEF a
<1> QED
  BY <1>1, <1>2, <1>6, <1>7, <1>8 DEF a

(* session::on_write, with and without an error.                           *)
LEMMA WriteKeepsDue ==
  ASSUME NEW t \in Session, Inv, on_write(t)
  PROVE  Registered' /\ EverythingDue'
<1>0. UNCHANGED <<sessions_, room>>
  BY DEF on_write
<1>1. CASE message_written(t)
  <2>1. \A s \in Session \ sessions_ : sent'[s] = sent[s]
    BY <1>1, Written DEF Inv, Queues, TypeOK
  <2>2. Room!Members' = Room!Members /\ \A s : Room!Due(s)' = Room!Due(s)
    BY <1>0, MembersAre, DueIs DEF Inv, Queues, TypeOK
  <2>3. Registered'
    BY <1>0, <2>1, <2>2 DEF Inv, Registered
  <2>4. EverythingDue'
    BY <1>0, <1>1, <2>2, Written, Zenon DEF Inv, EverythingDue
  <2> QED
    BY <2>3, <2>4
<1>2. CASE write_error(t)
  BY <1>0, <1>2, DueStays DEF write_error
<1> QED
  BY <1>1, <1>2 DEF on_write

(* The state main and the server's constructor leave.                      *)
LEMMA InitInv == Init => Inv
<1> SUFFICES ASSUME Init PROVE Inv
  OBVIOUS
<1>1. room = <<>> /\ sessions_ = {} /\ \A s \in Session : sent[s] = <<>>
  BY DEF Init
<1>2. \A s \in Session : ~Joined(room, s)
  BY <1>1 DEF Joined
<1>3. room \in Seq(Messages)
  BY <1>1
<1> QED
  BY <1>1, <1>2, <1>3, MembersAre, InitQueues DEF Inv, Registered, EverythingDue

(* Every step.                                                             *)
LEMMA NextInv == Inv /\ [Next]_vars => Inv'
<1> SUFFICES ASSUME Inv, [Next]_vars PROVE Inv'
  OBVIOUS
<1>1. Queues'
  BY NextQueues DEF Inv
<1>2. CASE on_accept
  BY <1>1, <1>2, AcceptKeepsDue DEF Inv
<1>3. ASSUME NEW s \in Session, on_read(s) PROVE Inv'
  BY <1>1, <1>3, ReadKeepsDue DEF Inv
<1>4. ASSUME NEW s \in Session, on_write(s) PROVE Inv'
  BY <1>1, <1>4, WriteKeepsDue DEF Inv
<1>5. CASE \/ run_returns \/ server_destroyed \/ AcceptCompletes \/ UNCHANGED vars
           \/ \E s \in Session : ReadCompletes(s) \/ WriteCompletes(s)
  BY <1>1, <1>5, DueStays DEF Inv, vars, run_returns, server_destroyed,
      AcceptCompletes, ReadCompletes, WriteCompletes
<1> QED
  BY <1>2, <1>3, <1>4, <1>5 DEF Next

(* Every step is one of the room, or leaves the room as it is.             *)
LEMMA StepOfRoom == Inv /\ [Next]_vars => [Room!Next]_(Room!roomvars)
<1> SUFFICES ASSUME Inv, [Next]_vars, ~UNCHANGED <<room, sent>>
             PROVE  Room!Next
  BY DEF Room!roomvars
<1>0. sessions_ = Room!Members /\ new_session \in Session
      /\ new_session \notin sessions_
  BY DEF Inv, Registered, Queues, TypeOK, Outsiders
<1>1. CASE on_accept
  <2>1. CASE accept_error
    <3>1. Room!Leave(new_session)
      BY <1>0, <1>1, <2>1 DEF on_accept, accept_error, broadcast, Room!Leave,
          Room!Message, Message
    <3> QED
      BY <1>0, <3>1 DEF Room!Next
  <2>2. CASE accept_client
    <3>1. Room!Join(new_session)
      BY <1>0, <1>1, <2>2 DEF on_accept, accept_client, broadcast, Room!Join,
          Room!Message, Message
    <3> QED
      BY <1>0, <3>1 DEF Room!Next
  <2> QED
    BY <1>1, <2>1, <2>2 DEF on_accept, accept_throws
<1>2. ASSUME NEW t \in Session, on_read(t) PROVE Room!Next
  <2>1. CASE line_read(t)
    <3>1. t \in sessions_
      BY <2>1 DEF Inv, Queues, Outsiders, line_read
    <3>2. Room!Say(t)
      BY <1>0, <1>2, <2>1, <3>1 DEF on_read, line_read, broadcast, Room!Say,
          Room!Message, Message
    <3> QED
      BY <3>2 DEF Room!Next
  <2> QED
    BY <1>2, <2>1 DEF on_read, read_error
<1>3. ASSUME NEW t \in Session, on_write(t) PROVE Room!Next
  <2>1. CASE message_written(t)
    <3>1. Room!Deliver(t)
      BY <1>0, <1>3, <2>1, Written, Zenon DEF on_write, Room!Deliver
    <3> QED
      BY <3>1 DEF Room!Next
  <2> QED
    BY <1>3, <2>1 DEF on_write, write_error
<1> QED
  BY <1>1, <1>2, <1>3 DEF Next, vars, run_returns, server_destroyed,
      AcceptCompletes, ReadCompletes, WriteCompletes

-----------------------------------------------------------------------------
(* The inductive invariant holds of every behaviour.                       *)
THEOREM Invariance == Spec => []Inv
<1> QED
  BY InitInv, NextInv, PTL DEF Spec

(* The state always has its types.                                         *)
THEOREM TypeCorrect == Spec => []TypeOK
<1>1. Inv => TypeOK
  BY DEF Inv, Queues
<1> QED
  BY <1>1, Invariance, PTL

(* A queue on an open socket is being written exactly when it is not empty *)
(* (301.chat_server.cpp:41-47, 84-94).                                     *)
THEOREM QueueIsWritten == Spec => []NoLostWakeup
<1>1. Inv => NoLostWakeup
  BY DEF Inv, Queues
<1> QED
  BY <1>1, Invariance, PTL

(* Every client is heard once at most (301.chat_server.cpp:66-82).         *)
THEOREM HeardOnce == Spec => []SpeaksAtMostOnce
<1>1. Inv => SpeaksAtMostOnce
  BY DEF Inv, Queues
<1> QED
  BY <1>1, Invariance, PTL

(* The bytes a write refers to stay the front of the queue until its       *)
(* handler runs (301.chat_server.cpp:58-64).                               *)
THEOREM FrontUntouched == Spec => FrontStays
<1>1. Inv /\ [Next]_vars => [\A s \in Session : writing[s] = "wait" =>
        /\ outgoing_messages_'[s] # <<>>
        /\ Head(outgoing_messages_'[s]) = Head(outgoing_messages_[s])]_vars
  BY FrontStep DEF Inv
<1> QED
  BY <1>1, Invariance, PTL DEF Spec, FrontStays

(* What is queued on a dead session, and what comes behind it, is never    *)
(* written (301.chat_server.cpp:42-46, 86-88, 96-99).                      *)
THEOREM DeadQueueStays == Spec => DeadQueueOnlyGrows
<1>1. Inv /\ [Next]_vars => [\A s \in Session :
        socket_[s] = "closed" /\ writing[s] = "idle" /\ outgoing_messages_[s] # <<>> =>
          /\ writing'[s] = "idle"
          /\ IsPrefix(outgoing_messages_[s], outgoing_messages_'[s])]_vars
  BY DeadStep DEF Inv
<1> QED
  BY <1>1, Invariance, PTL DEF Spec, DeadQueueOnlyGrows

(* What has been written to a member and what waits for it are together    *)
(* all it is due since it joined (301.chat_server.cpp:131-152).            *)
THEOREM AllThatIsDue == Spec => []EverythingDue
<1>1. Inv => EverythingDue
  BY DEF Inv
<1> QED
  BY <1>1, Invariance, PTL

(* The server implements the room.                                         *)
THEOREM ImplementsRoom == Spec => RoomSpec
<1>1. Init => Room!Init
  BY DEF Init, Room!Init
<1> QED
  BY <1>1, StepOfRoom, Invariance, PTL DEF Spec, RoomSpec, Room!Spec

=============================================================================
