------------------------------ MODULE ChatRoom ------------------------------
(* What the chat server of tutorial/301 promises to those who join: a      *)
(* welcome, then everything said in the room from that moment on, in the   *)
(* order the room has it, nothing twice and nothing left out; and to each  *)
(* speaker an echo of its own line.  How far a member has read is its own  *)
(* affair: nobody waits for it.                                            *)
EXTENDS Naturals, Sequences, SequencesExt

CONSTANT Session

VARIABLES
  room,   \* all announcements, in their order
  seen    \* what each session has been sent

roomvars == <<room, seen>>

Message(kind, s) == [kind |-> kind, from |-> s]
Announcement == [kind : {"joined", "said", "left"}, from : Session]

Members == {m.from : m \in {n \in ToSet(room) : n.kind = "joined"}}

(* What is due to a member: it does not hear of its own arrival, and hears *)
(* its own line twice.                                                     *)
Heard(m, s) == IF m = Message("said", s) THEN <<m, Message("line", s)>> ELSE <<m>>
Since(s) == LET at == SelectInSeq(room, LAMBDA m : m = Message("joined", s))
            IN  SubSeq(room, at + 1, Len(room))
Due(s) == <<Message("welcome", s)>> \o
          FlattenSeq([i \in DOMAIN Since(s) |-> Heard(Since(s)[i], s)])

Init ==
  /\ room = <<>>
  /\ seen = [s \in Session |-> <<>>]

Join(s) ==
  /\ s \notin Members
  /\ room' = Append(room, Message("joined", s))
  /\ UNCHANGED seen

Say(s) ==
  /\ s \in Members
  /\ room' = Append(room, Message("said", s))
  /\ UNCHANGED seen

(* Only those are said to have left who were never there.                  *)
Leave(s) ==
  /\ s \notin Members
  /\ room' = Append(room, Message("left", s))
  /\ UNCHANGED seen

Deliver(s) ==
  /\ s \in Members
  /\ Len(seen[s]) < Len(Due(s))
  /\ seen' = [seen EXCEPT ![s] = Append(@, Due(s)[Len(@) + 1])]
  /\ UNCHANGED room

Next == \E s \in Session : Join(s) \/ Say(s) \/ Leave(s) \/ Deliver(s)

Spec == Init /\ [][Next]_roomvars
=============================================================================
