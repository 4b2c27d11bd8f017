--------------------------- MODULE DaytimeUdpProofs ---------------------------
(* The inductive invariant of the datagram servers, for every set of clients *)
(* and every number of faults.                                               *)
EXTENDS DaytimeUdp, TLAPS

LEMMA InitInv == Init => Inv
  BY ClientAssumption
     DEF Init, Inv, TypeOK, OnceEach, Unanswered, ErrorToKnown, ServesOne, HeardLast

(* Counting one up, and one down where there is one.                         *)
LEMMA Counters ==
  ASSUME NEW f \in [Client -> Nat], NEW c \in Client
  PROVE  /\ Plus(f, c) \in [Client -> Nat]
         /\ f[c] > 0 => Minus(f, c) \in [Client -> Nat]
         /\ \A d \in Client : Plus(f, c)[d] = IF d = c THEN f[d] + 1 ELSE f[d]
  BY DEF Plus, Minus

(* A datagram is answered.                                                   *)
LEMMA ReceiveInv ==
  ASSUME Inv, receive, UNCHANGED <<program, client, faults, lost>>
  PROVE  Inv'
  <1>1. remote_endpoint_ \in Client
    BY DEF Inv, TypeOK, HeardLast, receive
  <1>2. /\ answered' = Plus(answered, remote_endpoint_)
        /\ answers' = Plus(answers, remote_endpoint_)
        /\ receiving = "ok" /\ receiving' = Rearmed
        /\ UNCHANGED <<process, remote_endpoint_, requests, received, told>>
    BY DEF receive
  <1>3. /\ answered' \in [Client -> Nat] /\ answers' \in [Client -> Nat]
        /\ \A d \in Client :
             answered'[d] = IF d = remote_endpoint_ THEN answered[d] + 1 ELSE answered[d]
    BY <1>1, <1>2, Counters DEF Inv, TypeOK
  <1>4. TypeOK'
    BY <1>2, <1>3 DEF Inv, TypeOK, Rearmed
  <1>5. OnceEach'
    BY <1>2, <1>3 DEF Inv, TypeOK, OnceEach, Unanswered, Rearmed
  <1>6. ErrorToKnown' /\ ServesOne' /\ HeardLast'
    BY <1>2 DEF Inv, ErrorToKnown, ServesOne, HeardLast, Rearmed
  <1> QED  BY <1>4, <1>5, <1>6 DEF Inv

(* A failed receive is handled.                                              *)
LEMMA FailedInv ==
  ASSUME Inv, receive_throws \/ error_sent \/ error_logged,
         UNCHANGED <<program, client, faults, lost>>
  PROVE  Inv'
  <1>1. CASE receive_throws
    BY <1>1 DEF receive_throws, Inv, TypeOK, OnceEach, Unanswered,
                ErrorToKnown, ServesOne, HeardLast
  <1>2. CASE error_sent
    <2>1. CASE remote_endpoint_ = "nobody"
      BY <1>2, <2>1 DEF error_sent, Inv, TypeOK, OnceEach, Unanswered,
                        ErrorToKnown, ServesOne, HeardLast
    <2>2. CASE remote_endpoint_ # "nobody"
      <3>1. /\ remote_endpoint_ \in Client /\ received[remote_endpoint_] > 0
            /\ program = "daytime6" /\ receiving = "failed" /\ receiving' = "wait"
            /\ told' = Plus(told, remote_endpoint_)
            /\ answers' = Plus(answers, remote_endpoint_)
            /\ UNCHANGED <<process, remote_endpoint_, requests, received, answered>>
        BY <1>2, <2>2 DEF error_sent, Inv, TypeOK, HeardLast
      <3>2. /\ told' \in [Client -> Nat] /\ answers' \in [Client -> Nat]
            /\ \A d \in Client :
                 told'[d] = IF d = remote_endpoint_ THEN told[d] + 1 ELSE told[d]
        BY <3>1, Counters DEF Inv, TypeOK
      <3>3. TypeOK' /\ OnceEach'
        BY <3>1, <3>2 DEF Inv, TypeOK, OnceEach, Unanswered
      <3>4. ErrorToKnown' /\ ServesOne' /\ HeardLast'
        BY <3>1, <3>2 DEF Inv, ErrorToKnown, ServesOne, HeardLast
      <3> QED  BY <3>3, <3>4 DEF Inv
    <2> QED  BY <2>1, <2>2
  <1>3. CASE error_logged
    BY <1>3 DEF error_logged, Inv, TypeOK, OnceEach, Unanswered,
                ErrorToKnown, ServesOne, HeardLast
  <1> QED  BY <1>1, <1>2, <1>3

(* A datagram is received.                                                   *)
LEMMA DeliverInv ==
  ASSUME Inv, NEW c \in Client, Deliver(c)
  PROVE  Inv'
  <1>1. /\ receiving = "wait" /\ receiving' = "ok" /\ remote_endpoint_' = c
        /\ requests[c] > 0 /\ requests' = Minus(requests, c)
        /\ received' = Plus(received, c)
        /\ UNCHANGED <<program, process, client, answers, faults, answered, told, lost>>
    BY DEF Deliver
  <1>2. /\ requests' \in [Client -> Nat] /\ received' \in [Client -> Nat]
        /\ \A d \in Client : received'[d] = IF d = c THEN received[d] + 1 ELSE received[d]
    BY <1>1, Counters DEF Inv, TypeOK
  <1>3. TypeOK'
    BY <1>1, <1>2 DEF Inv, TypeOK
  <1>4. OnceEach' /\ ErrorToKnown'
    BY <1>1, <1>2 DEF Inv, TypeOK, OnceEach, Unanswered, ErrorToKnown
  <1>5. ServesOne' /\ HeardLast'
    BY <1>1, <1>2, ClientAssumption DEF Inv, TypeOK, ServesOne, HeardLast
  <1> QED  BY <1>3, <1>4, <1>5 DEF Inv

(* The rest changes nothing the invariant relates, only the datagrams under  *)
(* way and the process.                                                      *)
LEMMA OtherInv ==
  ASSUME Inv, NEW c \in Client,
         handler \/ ReceiveFails \/ ask(c) \/ answer(c) \/ Lose(c) \/ Repeat(c)
  PROVE  Inv'
  <1>1. Plus(requests, c) \in [Client -> Nat] /\ Plus(answers, c) \in [Client -> Nat]
        /\ (requests[c] > 0 => Minus(requests, c) \in [Client -> Nat])
        /\ (answers[c] > 0 => Minus(answers, c) \in [Client -> Nat])
    BY Counters DEF Inv, TypeOK
  <1>2. TypeOK'
    <2>1. CASE handler \/ ReceiveFails
      BY <2>1 DEF handler, ReceiveFails, network, history, Inv, TypeOK
    <2>2. CASE ask(c)
      BY <1>1, <2>2 DEF ask, server, history, Inv, TypeOK
    <2>3. CASE answer(c)
      BY <1>1, <2>3 DEF answer, server, history, Inv, TypeOK
    <2>4. CASE Lose(c)
      BY <1>1, <2>4 DEF Lose, server, Inv, TypeOK
    <2>5. CASE Repeat(c)
      BY <1>1, <2>5 DEF Repeat, server, history, Inv, TypeOK
    <2> QED  BY <2>1, <2>2, <2>3, <2>4, <2>5
  <1>3. UNCHANGED <<program, remote_endpoint_, received, answered, told>>
    BY DEF handler, ReceiveFails, ask, answer, Lose, Repeat, server, history
  <1>4. receiving' = receiving \/ (receiving = "wait" /\ receiving' = "failed")
    BY DEF handler, ReceiveFails, ask, answer, Lose, Repeat, server
  <1>5. OnceEach' /\ ErrorToKnown' /\ ServesOne' /\ HeardLast'
    BY <1>3, <1>4 DEF Inv, OnceEach, Unanswered, ErrorToKnown, ServesOne, HeardLast
  <1> QED  BY <1>2, <1>5 DEF Inv

LEMMA NextInv == Inv /\ [Next]_vars => Inv'
  <1> SUFFICES ASSUME Inv, [Next]_vars PROVE Inv'  OBVIOUS
  <1>1. CASE UNCHANGED vars
    BY <1>1 DEF vars, server, network, history, Inv, TypeOK, OnceEach,
                Unanswered, ErrorToKnown, ServesOne, HeardLast
  <1>2. CASE handled
    BY <1>2, ReceiveInv, FailedInv DEF handled
  <1>3. CASE \E c \in Client : Deliver(c)
    BY <1>3, DeliverInv
  <1>4. CASE \E c \in Client : ask(c) \/ answer(c) \/ Lose(c) \/ Repeat(c)
    BY <1>4, OtherInv
  <1>5. CASE handler \/ ReceiveFails
    BY <1>5, OtherInv, ClientAssumption
  <1> QED  BY <1>1, <1>2, <1>3, <1>4, <1>5 DEF Next

-----------------------------------------------------------------------------
(* The inductive invariant of the datagram servers holds in every reachable  *)
(* state.                                                                    *)
THEOREM Invariance == Spec => []Inv
  BY InitInv, NextInv, PTL DEF Spec

(* Every datagram is answered once and to its sender, however many clients   *)
(* share the one remote_endpoint_.                                           *)
THEOREM AnsweredOnce == Spec => []OnceEach
  <1>1. Inv => OnceEach  BY DEF Inv
  <1> QED  BY <1>1, Invariance, PTL

(* An error's text never reaches a client that has not asked.                *)
THEOREM NobodyElseIsTold == Spec => []ErrorToKnown
  <1>1. Inv => ErrorToKnown  BY DEF Inv
  <1> QED  BY <1>1, Invariance, PTL

(* The UDP half of daytime7 hears at most one client.                        *)
THEOREM HeardOnce == Spec => []ServesOne
  <1>1. Inv => ServesOne  BY DEF Inv
  <1> QED  BY <1>1, Invariance, PTL
=============================================================================
