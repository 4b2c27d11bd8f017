------------------------- MODULE HttpExchangeProofs -------------------------
(* A request that arrives as a whole is refused, whatever the lengths are, *)
(* as long as the message does not end where a full buffer does.  Inv is   *)
(* inductive: until the answer is there the bytes read are a multiple of   *)
(* the buffer's size (FullBuffers), so that no later read, of a full       *)
(* buffer or of all the rest, can end at the end of the message.           *)
EXTENDS HttpExchange, TLAPS

(* The constants, and what an operation may assume of them.                *)
LEMMA Lengths ==
  /\ End \in Nat /\ End > 0 /\ Request \in Nat /\ Request > End
  /\ Buffer \in Nat /\ Buffer > 0
BY LengthsAssumption DEF End, Request

(* A product is not smaller than a factor.                                 *)
LEMMA Product == \A k, b \in Nat : b > 0 => k * b \in Nat /\ k <= k * b
OBVIOUS

(* The next full buffer.                                                   *)
LEMMA NextBuffer ==
  ASSUME NEW k \in 0 .. End, k * Buffer + Buffer <= End
  PROVE  k + 1 \in 0 .. End /\ (k + 1) * Buffer = k * Buffer + Buffer
<1>1. (k + 1) * Buffer = k * Buffer + Buffer /\ k + 1 \in Nat
  BY Lengths
<1>2. k + 1 <= (k + 1) * Buffer
  BY <1>1, Lengths, Product
<1>3. k * Buffer \in Nat
  BY Lengths, Product
<1> QED
  BY <1>1, <1>2, <1>3, Lengths

(* What is read: something, and no more than has arrived.                  *)
LEMMA Reads ==
  ASSUME sent \in Nat, received \in 0 .. sent, received < sent
  PROVE  /\ Taken \in 1 .. sent - received
         /\ Taken = Buffer \/ received + Taken = sent
BY Lengths DEF Taken

(* The state main() and the server start in.                               *)
LEMMA InitInv == Init => Inv
BY Lengths, LengthsAssumption DEF Init, Inv, TypeOK, InOrder, EndsOnlyIfCut,
    WholeIsRefused

(* handle_read: the step all is about.                                     *)
LEMMA ReadKeepsInv ==
  ASSUME Inv, handle_read
  PROVE  Inv'
<1> USE DEF Inv
<1>1. /\ connection = "reading" /\ received < sent /\ FullBuffers
      /\ received' = received + Taken
      /\ at_once' = IF received = 0 THEN sent ELSE at_once
      /\ answer = 0 /\ received < End
      /\ UNCHANGED <<client_vars, server, written>>
  BY DEF handle_read, InOrder
<1>2. sent \in 0 .. Request /\ received \in 0 .. sent /\ at_once \in 0 .. Request
  BY DEF TypeOK
<1>3. received' \in 0 .. sent /\ (Taken = Buffer \/ received' = sent)
  BY <1>1, <1>2, Reads, Lengths
<1>4. \/ received' < End /\ connection' = "reading" /\ answer' = 0
      \/ received' = End /\ connection' = "answering" /\ answer' = 200
      \/ received' > End /\ connection' = "answering" /\ answer' = 400
  BY <1>1, <1>2, <1>3, Lengths DEF handle_read, reply, Verdict
<1>5. TypeOK'
  BY <1>1, <1>2, <1>3, <1>4 DEF TypeOK, client_vars
<1>6. ASSUME at_once' = Request
      PROVE  /\ sent = Request
             /\ \E k \in 0 .. End : received = k * Buffer
  <2>1. CASE received = 0
    <3>1. 0 * Buffer = 0
      BY Lengths
    <3> QED
      BY <1>1, <1>6, <2>1, <3>1, Lengths
  <2>2. CASE received # 0
    BY <1>1, <1>6, <2>2 DEF FullBuffers
  <2> QED
    BY <2>1, <2>2
<1>7. ASSUME at_once' = Request, received' <= End
      PROVE  received' < End /\ \E k \in 0 .. End : received' = k * Buffer
  <2>1. Taken = Buffer
    BY <1>3, <1>6, <1>7, Lengths
  <2>2. PICK k \in 0 .. End : received = k * Buffer
    BY <1>6, <1>7
  <2>3. received' = k * Buffer + Buffer
    BY <1>1, <2>1, <2>2
  <2>4. k + 1 \in 0 .. End /\ received' = (k + 1) * Buffer
    BY <1>7, <2>3, NextBuffer
  <2>5. received' # End
    BY <2>4, BoundaryAssumption
  <2> QED
    BY <1>3, <1>7, <2>4, <2>5, <1>2, Lengths
<1>8. connection' = "reading" => FullBuffers'
  BY <1>1, <1>4, <1>6, <1>7, <1>2, <1>3, Lengths DEF FullBuffers, client_vars
<1>9. WholeIsRefused'
  BY <1>2, <1>3, <1>4, <1>7, Lengths DEF WholeIsRefused
<1>10. /\ InOrder'
       /\ client' = "terminated" =>
            connection' \notin {"backlog", "reading", "answering", "written"}
       /\ EndsOnlyIfCut'
  BY <1>1, <1>2, <1>3, <1>4, Lengths DEF InOrder, EndsOnlyIfCut, client_vars
<1> QED
  BY <1>5, <1>8, <1>9, <1>10

(* The client's steps.                                                     *)
LEMMA ClientKeepsInv ==
  ASSUME Inv, Client
  PROVE  Inv'
<1> USE DEF Inv
<1>1. CASE connect
  BY <1>1, Lengths, LengthsAssumption DEF connect, TypeOK, InOrder, EndsOnlyIfCut,
      WholeIsRefused
<1>2. ASSUME NEW n \in 1 .. Request, write(n)
      PROVE  Inv'
  <2>1. /\ sent \in 0 .. Request /\ n \in 1 .. Request - sent
        /\ sent' = sent + n /\ received \in 0 .. sent
        /\ client' \in {"status", "write"}
        /\ UNCHANGED <<rounds, status_code, server_vars>>
    BY <1>2 DEF write, TypeOK
  <2>2. sent' \in 0 .. Request /\ received \in 0 .. sent' /\ sent # Request
    BY <2>1, Lengths
  <2>3. TypeOK'
    BY <2>1, <2>2 DEF TypeOK, server_vars
  <2> QED
    BY <2>1, <2>2, <2>3 DEF InOrder, EndsOnlyIfCut, FullBuffers,
        WholeIsRefused, server_vars
<1>3. CASE read_status \/ read_headers
  BY <1>3, LengthsAssumption DEF read_status, read_headers, TypeOK, InOrder,
      EndsOnlyIfCut, FullBuffers, WholeIsRefused, server_vars
<1>4. CASE throws
  <2>1. /\ UNCHANGED <<rounds, sent, status_code, server_vars>>
        /\ client' = "terminated"
        /\ \/ server = "stopped" /\ client = "connect"
           \/ connection = "closed"
           \/ connection = "shut" /\ written < Headers
    BY <1>4, LengthsAssumption DEF throws, Wanted, TypeOK
  <2>2. TypeOK' /\ InOrder' /\ (connection' = "reading" => FullBuffers') /\ WholeIsRefused'
    BY <2>1 DEF TypeOK, InOrder, FullBuffers, WholeIsRefused, server_vars
  <2>3. EndsOnlyIfCut'
    BY <2>1 DEF EndsOnlyIfCut, InOrder, TypeOK, server_vars
  <2>4. connection \notin {"backlog", "reading", "answering", "written"}
    BY <2>1 DEF InOrder, TypeOK
  <2> QED
    BY <2>1, <2>2, <2>3, <2>4 DEF server_vars
<1> QED
  BY <1>1, <1>2, <1>3, <1>4 DEF Client

(* What the server does besides reading.                                   *)
LEMMA ServerKeepsInv ==
  ASSUME Inv,
         \/ hanlde_accept \/ handle_write \/ hanlde_stop
         \/ \E n \in 1 .. Reply : write_some(n)
  PROVE  Inv'
<1> USE DEF Inv
<1>1. CASE hanlde_accept
  BY <1>1, Lengths DEF hanlde_accept, TypeOK, InOrder, EndsOnlyIfCut,
      FullBuffers, WholeIsRefused, client_vars
<1>2. CASE handle_write \/ hanlde_stop
  BY <1>2 DEF handle_write, hanlde_stop, TypeOK, InOrder, EndsOnlyIfCut,
      WholeIsRefused, client_vars
<1>3. ASSUME NEW n \in 1 .. Reply, write_some(n)
      PROVE  Inv'
  BY <1>3, LengthsAssumption DEF write_some, TypeOK, InOrder, EndsOnlyIfCut,
      WholeIsRefused, client_vars
<1> QED
  BY <1>1, <1>2, <1>3

(* Every step.                                                             *)
LEMMA NextInv == Inv /\ [Next]_vars => Inv'
<1> SUFFICES ASSUME Inv, [Next]_vars PROVE Inv'
  OBVIOUS
<1>1. CASE UNCHANGED vars
  BY <1>1 DEF vars, client_vars, server_vars, Inv, TypeOK, InOrder,
      EndsOnlyIfCut, FullBuffers, WholeIsRefused
<1>2. CASE Next
  BY <1>2, ReadKeepsInv, ClientKeepsInv, ServerKeepsInv DEF Next, Server
<1> QED
  BY <1>1, <1>2

-----------------------------------------------------------------------------
(* The inductive invariant holds of every behaviour.                       *)
THEOREM Invariance == Spec => []Inv
<1> QED
  BY InitInv, NextInv, PTL DEF Spec

(* The state always has its types: the server never reads what has not     *)
(* arrived (connection.cpp:61).                                            *)
THEOREM TypeCorrect == Spec => []TypeOK
<1>1. Inv => TypeOK
  BY DEF Inv
<1> QED
  BY <1>1, Invariance, PTL

(* A request that arrives as a whole is never answered 200 (main.cpp:46-49 *)
(* of the client against connection.cpp:61-75).                            *)
THEOREM WholeRefused == Spec => []WholeIsRefused
<1>1. Inv => WholeIsRefused
  BY DEF Inv
<1> QED
  BY <1>1, Invariance, PTL

(* The client takes a reply for an "ok" only if a read of the server's     *)
(* ended at the end of the message (connection.cpp:61-75).                 *)
THEOREM OkOnlyIfExact == Spec => []OkMeansExact
<1>1. Inv => OkMeansExact
  BY DEF Inv, InOrder, OkMeansExact
<1> QED
  BY <1>1, Invariance, PTL

(* What ends the client is the end of the server or a reply cut short      *)
(* (connection.cpp:73-84).                                                 *)
THEOREM CutOrStopped == Spec => []EndsOnlyIfCut
<1>1. Inv => EndsOnlyIfCut
  BY DEF Inv
<1> QED
  BY <1>1, Invariance, PTL

=============================================================================
