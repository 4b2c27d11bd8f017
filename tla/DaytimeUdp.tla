----------------------------- MODULE DaytimeUdp -----------------------------
(* Four servers that answer datagrams, and their clients:                  *)
(*   "103"       a loop that any exception ends, on a socket bound to no   *)
(*               port; its client is 104,                                  *)
(*   "daytime5"  a loop; its client, like that of the others, is daytime4, *)
(*   "daytime6"  asynchronous; also answers when a receive has failed,     *)
(*   "daytime7"  the UDP half: not armed again after its first datagram.   *)
(* The network loses, repeats and reorders, and the clients wait without a *)
(* timeout.  Of daytime7's TCP half (AcceptLoop) it shows here only that   *)
(* it may throw.  A send that fails without notice is one the network lost.*)
EXTENDS Naturals

CONSTANTS
  Client,   \* the clients' sockets
  Faults    \* bounds the faults of network and kernel

Program == {"103", "daytime5", "daytime6", "daytime7"}

ASSUME ClientAssumption == Client # {} /\ "nobody" \notin Client
ASSUME BoundsAssumption == Faults \in Nat

VARIABLES
  program,
  process,          \* "running", run() has "returned", main has "caught", or
                    \* "terminated"
  receiving,        \* the receive: "wait", or "ok" or "failed" and not handled
                    \* yet, or "idle"
  remote_endpoint_, \* a client or "nobody"
  client,           \* "idle", "waiting" or "done"
  requests,         \* the datagrams of each under way to the server,
  answers,          \* and those under way to it
  faults,           \* so far
  received,         \* history: the datagrams received from each client, how
  answered,         \* often it was answered, how often with the text of an
  told,             \* error, and whether a datagram of its, or for it, was
  lost              \* lost since it asked

server == <<program, process, receiving, remote_endpoint_>>
network == <<requests, answers, faults>>
history == <<received, answered, told, lost>>
vars == <<server, client, network, history>>

Plus(f, c) == [f EXCEPT ![c] = @ + 1]
Minus(f, c) == [f EXCEPT ![c] = @ - 1]

-----------------------------------------------------------------------------
(* Slips: a plausible mistake in the definition each is named for.         *)

\* start_receive() comes first: the next datagram, if it is there already,
\* is received into the same remote_endpoint_
receive__rearmed_first ==
  /\ receiving = "ok"
  /\ \E c \in Client :
       /\ requests[c] > 0 /\ requests' = Minus(requests, c)
       /\ received' = Plus(received, c)
       /\ remote_endpoint_' = c
       /\ answered' = Plus(answered, c)
       /\ answers' = Plus(answers, c)
  /\ UNCHANGED <<process, receiving, told>>

\* the UDP half of daytime7 is armed again
Rearmed__always == "wait"

\* the endpoint is a local variable nobody has set
error_sent__local ==
  /\ program = "daytime6" /\ receiving = "failed"
  /\ receiving' = "wait"
  /\ \E c \in Client : told' = Plus(told, c) /\ answers' = Plus(answers, c)
  /\ UNCHANGED <<process, remote_endpoint_, requests, received, answered>>

\* daytime6 returns early, like daytime7
error_sent__returns ==
  /\ program = "daytime6" /\ receiving = "failed"
  /\ receiving' = "idle"
  /\ UNCHANGED <<process, remote_endpoint_, requests, answers, received, answered, told>>

-----------------------------------------------------------------------------
Init ==
  /\ program \in Program
  /\ process = "running"
  /\ receiving = "wait" /\ remote_endpoint_ = "nobody"
  /\ client = [c \in Client |-> "idle"]
  /\ requests = [c \in Client |-> 0] /\ answers = [c \in Client |-> 0]
  /\ faults = 0
  /\ received = [c \in Client |-> 0]
  /\ answered = [c \in Client |-> 0] /\ told = [c \in Client |-> 0]
  /\ lost = [c \in Client |-> FALSE]

(* The receive after one that has been handled.                            *)
Rearmed == IF program = "daytime7" THEN "idle" ELSE "wait"

(* A datagram is answered, to the endpoint it came from, and only then is  *)
(* the next one received.                                                  *)
receive ==
  /\ receiving = "ok"
  /\ answered' = Plus(answered, remote_endpoint_)
  /\ answers' = Plus(answers, remote_endpoint_)
  /\ receiving' = Rearmed
  /\ UNCHANGED <<process, remote_endpoint_, requests, received, told>>

(* A receive that failed: receive_from throws (103 has no catch), ...      *)
receive_throws ==
  /\ program \in {"103", "daytime5"} /\ receiving = "failed"
  /\ process' = IF program = "103" THEN "terminated" ELSE "caught"
  /\ UNCHANGED <<receiving, remote_endpoint_, requests, answers, received, answered, told>>

(* ... daytime6 sends the error's text to whom it heard last (to nobody's  *)
(* port 0 nothing is sent), ...                                            *)
error_sent ==
  /\ program = "daytime6" /\ receiving = "failed"
  /\ IF remote_endpoint_ = "nobody" THEN UNCHANGED <<told, answers>>
     ELSE told' = Plus(told, remote_endpoint_) /\ answers' = Plus(answers, remote_endpoint_)
  /\ receiving' = "wait"
  /\ UNCHANGED <<process, remote_endpoint_, requests, received, answered>>

(* ... and daytime7 logs it.                                               *)
error_logged ==
  /\ program = "daytime7" /\ receiving = "failed"
  /\ receiving' = "idle"
  /\ UNCHANGED <<process, remote_endpoint_, requests, answers, received, answered, told>>

handled ==
  /\ process = "running"
  /\ receive \/ receive_throws \/ error_sent \/ error_logged
  /\ UNCHANGED <<program, client, faults, lost>>

(* A signal stops daytime6; daytime7's TCP half throws out of run().       *)
handler ==
  /\ process = "running" /\ program \in {"daytime6", "daytime7"}
  /\ process' = IF program = "daytime6" THEN "returned" ELSE "caught"
  /\ UNCHANGED <<program, receiving, remote_endpoint_, client, network, history>>

-----------------------------------------------------------------------------
(* daytime4 asks once; 104 would ask again once it is answered.            *)
ask(c) ==
  /\ client[c] = "idle"
  /\ client' = [client EXCEPT ![c] = "waiting"]
  /\ requests' = Plus(requests, c)
  /\ UNCHANGED <<server, answers, faults, history>>

answer(c) ==
  /\ client[c] = "waiting" /\ answers[c] > 0
  /\ client' = [client EXCEPT ![c] = "done"]
  /\ answers' = Minus(answers, c)
  /\ UNCHANGED <<server, requests, faults, history>>

-----------------------------------------------------------------------------
(* The network and the kernel.  A datagram for a port no socket is bound   *)
(* to reaches no receive: 103 opens its socket, and never binds it to the  *)
(* endpoint with the port.                                                 *)
Bound == program # "103"

Deliver(c) ==
  /\ Bound
  /\ process = "running" /\ receiving = "wait" /\ requests[c] > 0
  /\ requests' = Minus(requests, c)
  /\ receiving' = "ok"
  /\ remote_endpoint_' = c
  /\ received' = Plus(received, c)
  /\ UNCHANGED <<program, process, client, answers, faults, answered, told, lost>>

ReceiveFails ==
  /\ process = "running" /\ receiving = "wait"
  /\ faults < Faults /\ faults' = faults + 1
  /\ receiving' = "failed"
  /\ UNCHANGED <<program, process, remote_endpoint_, client, requests, answers, history>>

Lose(c) ==
  /\ faults < Faults /\ faults' = faults + 1
  /\ \/ requests[c] > 0 /\ requests' = Minus(requests, c) /\ UNCHANGED answers
     \/ answers[c] > 0 /\ answers' = Minus(answers, c) /\ UNCHANGED requests
  /\ lost' = [lost EXCEPT ![c] = TRUE]
  /\ UNCHANGED <<server, client, received, answered, told>>

Repeat(c) ==
  /\ faults < Faults /\ faults' = faults + 1
  /\ \/ requests[c] > 0 /\ requests' = Plus(requests, c) /\ UNCHANGED answers
     \/ answers[c] > 0 /\ answers' = Plus(answers, c) /\ UNCHANGED requests
  /\ UNCHANGED <<server, client, history>>

Next ==
  \/ handled \/ handler \/ ReceiveFails
  \/ \E c \in Client : ask(c) \/ answer(c) \/ Deliver(c) \/ Lose(c) \/ Repeat(c)

Spec == Init /\ [][Next]_vars

(* The programs run, and what the network does not lose arrives.           *)
FairSpec ==
  /\ Spec
  /\ WF_vars(handled)
  /\ \A c \in Client : WF_vars(Deliver(c)) /\ WF_vars(answer(c))

-----------------------------------------------------------------------------
TypeOK ==
  /\ program \in Program
  /\ process \in {"running", "returned", "caught", "terminated"}
  /\ receiving \in {"idle", "wait", "ok", "failed"}
  /\ remote_endpoint_ \in Client \cup {"nobody"}
  /\ client \in [Client -> {"idle", "waiting", "done"}]
  /\ faults \in Nat
  /\ requests \in [Client -> Nat] /\ answers \in [Client -> Nat]
  /\ received \in [Client -> Nat]
  /\ answered \in [Client -> Nat] /\ told \in [Client -> Nat]
  /\ lost \in [Client -> BOOLEAN]

(* Every datagram received is answered once, to the client it came from,   *)
(* although one remote_endpoint_ serves all of them (daytime6.cpp:47-49).  *)
Unanswered(c) == IF receiving = "ok" /\ remote_endpoint_ = c THEN 1 ELSE 0
OnceEach == \A c \in Client : received[c] = answered[c] + Unanswered(c)

(* The text of an error goes only to a client that has asked before:       *)
(* whatever failed, it is told the one heard last (daytime6.cpp:42-48).    *)
ErrorToKnown ==
  \A c \in Client : told[c] > 0 => program = "daytime6" /\ received[c] > 0

(* The UDP half of daytime7 hears one client, once (daytime7.cpp:92-102).   *)
ServesOne ==
  program = "daytime7" =>
    \A c, d \in Client : /\ received[c] <= 1
                         /\ received[c] = 1 /\ received[d] = 1 => c = d

(* A client of a server with a port gets a datagram, unless one was lost,  *)
(* the server has ended, or it is daytime7 and has heard or failed before: *)
(* daytime5 and daytime6 return to the receive after every answer and, in  *)
(* daytime6, after every failure (daytime6.cpp:26-49).                     *)
Answered ==
  \A c \in Client :
    Bound /\ client[c] = "waiting" ~>
      \/ client[c] = "done" \/ lost[c] \/ process # "running"
      \/ program = "daytime7" /\ receiving = "idle"

(* What 103 says before its loop, "Listening on port" 5678                 *)
(* (103.udp_server.cpp:11): a client that sends its datagram there is      *)
(* heard, unless the network lost the datagram or the server has ended.    *)
Listens ==
  \A c \in Client :
    program = "103" /\ client[c] = "waiting" ~>
      received[c] > 0 \/ lost[c] \/ process # "running"

-----------------------------------------------------------------------------
(* The inductive invariant.                                                *)
HeardLast ==
  /\ \A c \in Client : remote_endpoint_ = c => received[c] > 0
  /\ receiving = "ok" => remote_endpoint_ # "nobody"
  /\ program = "daytime7" /\ receiving = "wait" => \A c \in Client : received[c] = 0

Inv ==
  /\ TypeOK
  /\ OnceEach
  /\ ErrorToKnown
  /\ ServesOne
  /\ HeardLast
=============================================================================
