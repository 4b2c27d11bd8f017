-------------------------- MODULE HttpServerProofs --------------------------
(* The safety of HttpServer for any number of connections.  Inv is         *)
(* inductive: one lemma for each handler and for what the network and the  *)
(* operator do, then the invariant, then the properties it implies.        *)
(*                                                                         *)
(* Why Inv is more than the properties: that a write belongs to a          *)
(* registered connection (WriterRegistered) needs that its read did, hence *)
(* OperationsOwned; that a second operation is never started on it needs   *)
(* that a connection just accepted has none, hence NewUntouched, and that  *)
(* the next one to accept has none either, hence FreshUntouched.           *)
EXTENDS HttpServer, TLAPS

(* The state main() hands to run().                                        *)
LEMMA InitInv == Init => Inv
<1> SUFFICES ASSUME Init PROVE Inv
  OBVIOUS
<1>1. TypeOK
  BY DEF Init, TypeOK, Operation, WantMore
<1>2. OneOperation /\ ParsedReadsNoMore
  BY DEF Init, OneOperation, ParsedReadsNoMore
<1>3. OpenSocketOwned /\ OperationsOwned
  BY DEF Init, OpenSocketOwned, OperationsOwned
<1>4. StopLeavesNothingWaiting /\ AcceptorAlwaysArmed
  BY DEF Init, StopLeavesNothingWaiting, AcceptorAlwaysArmed
<1>5. FreshUntouched /\ NewUntouched
  BY DEF Init, Fresh, FreshUntouched, NewUntouched
<1> QED
  BY <1>1, <1>2, <1>3, <1>4, <1>5 DEF Inv

(* hanlde_accept, in each of the ways it goes.                             *)
LEMMA AcceptKeepsInv ==
  ASSUME Inv, hanlde_accept
  PROVE  Inv'
<1>1. CASE accept_closed
  <2>1. TypeOK'
    BY <1>1 DEF hanlde_accept, accept_closed, Inv, TypeOK, Operation
  <2>2. OneOperation' /\ ParsedReadsNoMore'
    BY <1>1 DEF hanlde_accept, accept_closed, Inv, OneOperation,
        ParsedReadsNoMore
  <2>3. OpenSocketOwned' /\ OperationsOwned'
    BY <1>1 DEF hanlde_accept, accept_closed, Inv, OpenSocketOwned,
        OperationsOwned
  <2>4. StopLeavesNothingWaiting' /\ AcceptorAlwaysArmed'
    BY <1>1 DEF hanlde_accept, accept_closed, Inv, StopLeavesNothingWaiting,
        AcceptorAlwaysArmed
  <2>5. FreshUntouched' /\ NewUntouched'
    BY <1>1 DEF hanlde_accept, accept_closed, Inv, FreshUntouched,
        NewUntouched, Fresh
  <2> QED
    BY <2>1, <2>2, <2>3, <2>4, <2>5 DEF Inv
<1>2. CASE accept_error
  <2>1. TypeOK'
    BY <1>2 DEF hanlde_accept, accept_error, start_accept, Fresh, Inv,
        TypeOK, Operation
  <2>2. OneOperation' /\ ParsedReadsNoMore'
    BY <1>2 DEF hanlde_accept, accept_error, Inv, OneOperation,
        ParsedReadsNoMore
  <2>3. OpenSocketOwned' /\ OperationsOwned'
    BY <1>2 DEF hanlde_accept, accept_error, Inv, OpenSocketOwned,
        OperationsOwned, NewUntouched
  <2>4. StopLeavesNothingWaiting' /\ AcceptorAlwaysArmed'
    BY <1>2 DEF hanlde_accept, accept_error, start_accept,
        StopLeavesNothingWaiting, AcceptorAlwaysArmed
  <2>5. FreshUntouched' /\ NewUntouched'
    BY <1>2 DEF hanlde_accept, accept_error, start_accept, Fresh, Inv,
        FreshUntouched, NewUntouched
  <2> QED
    BY <2>1, <2>2, <2>3, <2>4, <2>5 DEF Inv
<1>3. CASE accept_client
  <2>1. TypeOK'
    BY <1>3 DEF hanlde_accept, accept_client, manager_start, Started,
        start_accept, Fresh, Inv, TypeOK, Outcome, Operation
  <2>2. OneOperation' /\ ParsedReadsNoMore'
    BY <1>3 DEF hanlde_accept, accept_client, manager_start, Inv,
        OneOperation, ParsedReadsNoMore, Parsed, NewUntouched
  <2>3. OpenSocketOwned' /\ OperationsOwned'
    BY <1>3 DEF hanlde_accept, accept_client, manager_start, Inv,
        OpenSocketOwned, OperationsOwned
  <2>4. StopLeavesNothingWaiting' /\ AcceptorAlwaysArmed'
    BY <1>3 DEF hanlde_accept, accept_client, start_accept,
        StopLeavesNothingWaiting, AcceptorAlwaysArmed
  <2>5. FreshUntouched' /\ NewUntouched'
    BY <1>3 DEF hanlde_accept, accept_client, manager_start, start_accept,
        Fresh, Inv, FreshUntouched, NewUntouched
  <2> QED
    BY <2>1, <2>2, <2>3, <2>4, <2>5 DEF Inv
<1>4. CASE accept_throws
  <2>1. TypeOK'
    BY <1>4 DEF hanlde_accept, accept_throws, Inv, TypeOK
  <2>2. OneOperation' /\ ParsedReadsNoMore'
    BY <1>4 DEF hanlde_accept, accept_throws, Inv, OneOperation,
        ParsedReadsNoMore
  <2>3. OpenSocketOwned' /\ OperationsOwned'
    BY <1>4 DEF hanlde_accept, accept_throws, Inv, OpenSocketOwned,
        OperationsOwned
  <2>4. StopLeavesNothingWaiting' /\ AcceptorAlwaysArmed'
    BY <1>4 DEF hanlde_accept, accept_throws, StopLeavesNothingWaiting,
        AcceptorAlwaysArmed
  <2>5. FreshUntouched' /\ NewUntouched'
    BY <1>4 DEF hanlde_accept, accept_throws, Inv, FreshUntouched,
        NewUntouched, Fresh
  <2> QED
    BY <2>1, <2>2, <2>3, <2>4, <2>5 DEF Inv
<1> QED
  BY <1>1, <1>2, <1>3, <1>4 DEF hanlde_accept

(* hanlde_stop closes every socket an operation belongs to.                *)
LEMMA StopKeepsInv ==
  ASSUME Inv, hanlde_stop
  PROVE  Inv'
<1>1. TypeOK'
  BY DEF hanlde_stop, stop_all, Cancelled, Inv, TypeOK, Outcome, Operation
<1>2. OneOperation' /\ ParsedReadsNoMore'
  BY DEF hanlde_stop, stop_all, Cancelled, Inv, OneOperation,
      ParsedReadsNoMore
<1>3. OpenSocketOwned' /\ OperationsOwned'
  BY DEF hanlde_stop, stop_all, Inv, OpenSocketOwned, OperationsOwned
<1>4. StopLeavesNothingWaiting' /\ AcceptorAlwaysArmed'
  BY DEF hanlde_stop, stop_all, Cancelled, Inv, StopLeavesNothingWaiting,
      AcceptorAlwaysArmed, OperationsOwned
<1>5. FreshUntouched' /\ NewUntouched'
  BY DEF hanlde_stop, stop_all, Inv, TypeOK, FreshUntouched, NewUntouched,
      Fresh
<1> QED
  BY <1>1, <1>2, <1>3, <1>4, <1>5 DEF Inv

(* handle_read: what it touches belongs to a connection already accepted.  *)
LEMMA ReadKeepsInv ==
  ASSUME NEW c \in Conn, Inv, handle_read(c)
  PROVE  Inv'
<1>1. /\ reading[c] # "idle" /\ c # new_connection /\ c \notin Fresh
      /\ IF is_open THEN c \in connections ELSE socket[c] = "closed"
  BY DEF handle_read, Outcome, Inv, OperationsOwned, NewUntouched,
      FreshUntouched
<1>2. CASE read_failed(c)
  <2>1. TypeOK'
    BY <1>1, <1>2 DEF handle_read, read_failed, manager_stop, ofServer, Inv,
        TypeOK, Operation
  <2>2. OneOperation' /\ ParsedReadsNoMore'
    BY <1>1, <1>2 DEF read_failed, Inv, OneOperation, ParsedReadsNoMore
  <2>3. OpenSocketOwned' /\ OperationsOwned'
    BY <1>1, <1>2 DEF handle_read, read_failed, manager_stop, ofServer, Inv,
        TypeOK, OneOperation, OpenSocketOwned, OperationsOwned
  <2>4. StopLeavesNothingWaiting' /\ AcceptorAlwaysArmed'
    BY <1>1, <1>2 DEF handle_read, read_failed, manager_stop, ofServer, Inv,
        StopLeavesNothingWaiting, AcceptorAlwaysArmed
  <2>5. FreshUntouched' /\ NewUntouched'
    BY <1>1, <1>2 DEF handle_read, read_failed, manager_stop, ofServer, Inv,
        FreshUntouched, NewUntouched, Fresh
  <2> QED
    BY <2>1, <2>2, <2>3, <2>4, <2>5 DEF Inv
<1>3. CASE read_on(c)
  <2>1. TypeOK'
    BY <1>1, <1>3 DEF handle_read, read_on, Started, ofServer, Inv, TypeOK,
        Outcome, Operation
  <2>2. OneOperation' /\ ParsedReadsNoMore'
    BY <1>1, <1>3 DEF read_on, Inv, OneOperation, ParsedReadsNoMore,
        WantMore, Parsed
  <2>3. OpenSocketOwned' /\ OperationsOwned'
    BY <1>1, <1>3 DEF handle_read, read_on, ofServer, Inv, OpenSocketOwned,
        OperationsOwned
  <2>4. StopLeavesNothingWaiting' /\ AcceptorAlwaysArmed'
    BY <1>1, <1>3 DEF handle_read, read_on, Started, ofServer, Inv,
        StopLeavesNothingWaiting, AcceptorAlwaysArmed
  <2>5. FreshUntouched' /\ NewUntouched'
    BY <1>1, <1>3 DEF handle_read, read_on, ofServer, Inv, FreshUntouched,
        NewUntouched, Fresh
  <2> QED
    BY <2>1, <2>2, <2>3, <2>4, <2>5 DEF Inv
<1>4. CASE read_parsed(c)
  <2>1. TypeOK'
    BY <1>1, <1>4 DEF handle_read, read_parsed, reply, Started, ofServer,
        Inv, TypeOK, Outcome, Operation
  <2>2. OneOperation' /\ ParsedReadsNoMore'
    BY <1>1, <1>4 DEF read_parsed, reply, Inv, TypeOK, OneOperation,
        ParsedReadsNoMore
  <2>3. OpenSocketOwned' /\ OperationsOwned'
    BY <1>1, <1>4 DEF handle_read, read_parsed, reply, ofServer, Inv,
        OpenSocketOwned, OperationsOwned
  <2>4. StopLeavesNothingWaiting' /\ AcceptorAlwaysArmed'
    BY <1>1, <1>4 DEF handle_read, read_parsed, reply, Started, ofServer,
        Inv, StopLeavesNothingWaiting, AcceptorAlwaysArmed
  <2>5. FreshUntouched' /\ NewUntouched'
    BY <1>1, <1>4 DEF handle_read, read_parsed, reply, ofServer, Inv,
        FreshUntouched, NewUntouched, Fresh
  <2> QED
    BY <2>1, <2>2, <2>3, <2>4, <2>5 DEF Inv
<1> QED
  BY <1>2, <1>3, <1>4 DEF handle_read

(* handle_write on a connection that is alive.                             *)
LEMMA WriteKeepsInv ==
  ASSUME NEW c \in Conn, Inv, handle_write(c)
  PROVE  Inv'
<1>1. /\ writing[c] # "idle" /\ c # new_connection /\ c \notin Fresh
      /\ IF is_open THEN c \in connections ELSE socket[c] = "closed"
  BY DEF handle_write, Outcome, Inv, OperationsOwned, NewUntouched,
      FreshUntouched
<1>2. CASE writing[c] = "failed" /\ write_failed(c)
  <2>1. TypeOK'
    BY <1>1, <1>2 DEF handle_write, write_failed, manager_stop, ofServer,
        Inv, TypeOK, Operation
  <2>2. OneOperation' /\ ParsedReadsNoMore'
    BY <1>1, <1>2 DEF handle_write, write_failed, Inv, OneOperation,
        ParsedReadsNoMore
  <2>3. OpenSocketOwned' /\ OperationsOwned'
    BY <1>1, <1>2 DEF handle_write, write_failed, manager_stop, ofServer,
        Inv, TypeOK, OneOperation, OpenSocketOwned, OperationsOwned
  <2>4. StopLeavesNothingWaiting' /\ AcceptorAlwaysArmed'
    BY <1>1, <1>2 DEF handle_write, write_failed, manager_stop, ofServer,
        Inv, StopLeavesNothingWaiting, AcceptorAlwaysArmed
  <2>5. FreshUntouched' /\ NewUntouched'
    BY <1>1, <1>2 DEF handle_write, write_failed, manager_stop, ofServer,
        Inv, FreshUntouched, NewUntouched, Fresh
  <2> QED
    BY <2>1, <2>2, <2>3, <2>4, <2>5 DEF Inv
<1>3. CASE writing[c] # "failed" /\ written(c)
  <2>1. TypeOK'
    BY <1>1, <1>3 DEF handle_write, written, ofServer, Inv, TypeOK,
        Operation
  <2>2. OneOperation' /\ ParsedReadsNoMore'
    BY <1>1, <1>3 DEF handle_write, written, Inv, OneOperation,
        ParsedReadsNoMore
  <2>3. OpenSocketOwned' /\ OperationsOwned'
    BY <1>1, <1>3 DEF handle_write, written, ofServer, Inv, OpenSocketOwned,
        OperationsOwned
  <2>4. StopLeavesNothingWaiting' /\ AcceptorAlwaysArmed'
    BY <1>1, <1>3 DEF handle_write, written, ofServer, Inv,
        StopLeavesNothingWaiting, AcceptorAlwaysArmed
  <2>5. FreshUntouched' /\ NewUntouched'
    BY <1>1, <1>3 DEF handle_write, written, ofServer, Inv, FreshUntouched,
        NewUntouched, Fresh
  <2> QED
    BY <2>1, <2>2, <2>3, <2>4, <2>5 DEF Inv
<1> QED
  BY <1>2, <1>3 DEF handle_write

(* handle_write on one that is not.                                        *)
LEMMA DanglingKeepsInv ==
  ASSUME NEW c \in Conn, Inv, handle_write_dangling(c)
  PROVE  Inv'
<1>1. TypeOK'
  BY DEF handle_write_dangling, Inv, TypeOK, Operation
<1>2. OneOperation' /\ ParsedReadsNoMore'
  BY DEF handle_write_dangling, Inv, OneOperation, ParsedReadsNoMore
<1>3. OpenSocketOwned' /\ OperationsOwned'
  BY DEF handle_write_dangling, Inv, OpenSocketOwned, OperationsOwned
<1>4. StopLeavesNothingWaiting' /\ AcceptorAlwaysArmed'
  BY DEF handle_write_dangling, Inv, StopLeavesNothingWaiting,
      AcceptorAlwaysArmed
<1>5. FreshUntouched' /\ NewUntouched'
  BY DEF handle_write_dangling, Inv, FreshUntouched, NewUntouched, Fresh
<1> QED
  BY <1>1, <1>2, <1>3, <1>4, <1>5 DEF Inv

(* The network completes a read or a write.                                *)
LEMMA ClientKeepsInv ==
  ASSUME NEW c \in Conn, Inv, ReadCompletes(c) \/ WriteCompletes(c)
  PROVE  Inv'
<1>1. CASE ReadCompletes(c)
  <2>1. TypeOK'
    BY <1>1 DEF ReadCompletes, ofServer, Inv, TypeOK, Outcome, Operation
  <2>2. OneOperation' /\ ParsedReadsNoMore'
    BY <1>1 DEF ReadCompletes, Inv, OneOperation, ParsedReadsNoMore
  <2>3. OpenSocketOwned' /\ OperationsOwned'
    BY <1>1 DEF ReadCompletes, ofServer, Inv, OpenSocketOwned,
        OperationsOwned
  <2>4. StopLeavesNothingWaiting' /\ AcceptorAlwaysArmed'
    BY <1>1 DEF ReadCompletes, ofServer, Inv, StopLeavesNothingWaiting,
        AcceptorAlwaysArmed
  <2>5. FreshUntouched' /\ NewUntouched'
    BY <1>1 DEF ReadCompletes, ofServer, Inv, FreshUntouched, NewUntouched,
        Fresh
  <2> QED
    BY <2>1, <2>2, <2>3, <2>4, <2>5 DEF Inv
<1>2. CASE WriteCompletes(c)
  <2>1. TypeOK'
    BY <1>2 DEF WriteCompletes, ofServer, Inv, TypeOK, Outcome, Operation
  <2>2. OneOperation' /\ ParsedReadsNoMore'
    BY <1>2 DEF WriteCompletes, Inv, OneOperation, ParsedReadsNoMore
  <2>3. OpenSocketOwned' /\ OperationsOwned'
    BY <1>2 DEF WriteCompletes, ofServer, Inv, OpenSocketOwned,
        OperationsOwned
  <2>4. StopLeavesNothingWaiting' /\ AcceptorAlwaysArmed'
    BY <1>2 DEF WriteCompletes, ofServer, Inv, StopLeavesNothingWaiting,
        AcceptorAlwaysArmed
  <2>5. FreshUntouched' /\ NewUntouched'
    BY <1>2 DEF WriteCompletes, ofServer, Inv, FreshUntouched, NewUntouched,
        Fresh
  <2> QED
    BY <2>1, <2>2, <2>3, <2>4, <2>5 DEF Inv
<1> QED
  BY <1>1, <1>2

(* A client connects, a signal arrives, run() returns.                     *)
LEMMA LoopKeepsInv ==
  ASSUME Inv, AcceptCompletes \/ SignalArrives \/ run_returns
  PROVE  Inv'
<1>1. CASE AcceptCompletes
  <2>1. TypeOK'
    BY <1>1 DEF AcceptCompletes, Inv, TypeOK, Outcome, Operation
  <2>2. OneOperation' /\ ParsedReadsNoMore'
    BY <1>1 DEF AcceptCompletes, Inv, OneOperation, ParsedReadsNoMore
  <2>3. OpenSocketOwned' /\ OperationsOwned'
    BY <1>1 DEF AcceptCompletes, Inv, TypeOK, OpenSocketOwned,
        OperationsOwned, StopLeavesNothingWaiting
  <2>4. StopLeavesNothingWaiting' /\ AcceptorAlwaysArmed'
    BY <1>1 DEF AcceptCompletes, Inv, StopLeavesNothingWaiting,
        AcceptorAlwaysArmed
  <2>5. FreshUntouched' /\ NewUntouched'
    BY <1>1 DEF AcceptCompletes, Inv, TypeOK, FreshUntouched, NewUntouched,
        Fresh
  <2> QED
    BY <2>1, <2>2, <2>3, <2>4, <2>5 DEF Inv
<1>2. CASE SignalArrives
  <2>1. TypeOK'
    BY <1>2 DEF SignalArrives, Inv, TypeOK
  <2>2. OneOperation' /\ ParsedReadsNoMore'
    BY <1>2 DEF SignalArrives, Inv, OneOperation, ParsedReadsNoMore
  <2>3. OpenSocketOwned' /\ OperationsOwned'
    BY <1>2 DEF SignalArrives, Inv, OpenSocketOwned, OperationsOwned
  <2>4. StopLeavesNothingWaiting' /\ AcceptorAlwaysArmed'
    BY <1>2 DEF SignalArrives, Inv, StopLeavesNothingWaiting,
        AcceptorAlwaysArmed
  <2>5. FreshUntouched' /\ NewUntouched'
    BY <1>2 DEF SignalArrives, Inv, FreshUntouched, NewUntouched, Fresh
  <2> QED
    BY <2>1, <2>2, <2>3, <2>4, <2>5 DEF Inv
<1>3. CASE run_returns
  <2>1. TypeOK'
    BY <1>3 DEF run_returns, Inv, TypeOK
  <2>2. OneOperation' /\ ParsedReadsNoMore'
    BY <1>3 DEF run_returns, OneOperation, ParsedReadsNoMore
  <2>3. OpenSocketOwned' /\ OperationsOwned'
    BY <1>3 DEF run_returns, Inv, OpenSocketOwned, OperationsOwned
  <2>4. StopLeavesNothingWaiting' /\ AcceptorAlwaysArmed'
    BY <1>3 DEF run_returns, Inv, StopLeavesNothingWaiting,
        AcceptorAlwaysArmed
  <2>5. FreshUntouched' /\ NewUntouched'
    BY <1>3 DEF run_returns, Inv, FreshUntouched, NewUntouched, Fresh
  <2> QED
    BY <2>1, <2>2, <2>3, <2>4, <2>5 DEF Inv
<1> QED
  BY <1>1, <1>2, <1>3
-----------------------------------------------------------------------------
(* Every step, the stuttering one included.                                *)
LEMMA NextInv == Inv /\ [Next]_vars => Inv'
<1> SUFFICES ASSUME Inv, [Next]_vars PROVE Inv'
  OBVIOUS
<1>1. CASE hanlde_accept
  BY <1>1, AcceptKeepsInv <1>2. CASE hanlde_stop BY <1>2, StopKeepsInv <1>3.
      ASSUME NEW c \in Conn, Handler(c) PROVE Inv' BY <1>3, ReadKeepsInv,
      WriteKeepsInv, DanglingKeepsInv DEF Handler
<1>4. ASSUME NEW c \in Conn, ReadCompletes(c) \/ WriteCompletes(c) PROVE Inv'
  BY <1>4, ClientKeepsInv <1>5. CASE AcceptCompletes \/ SignalArrives \/
      run_returns BY <1>5, LoopKeepsInv <1>6. CASE UNCHANGED vars BY <1>6
      DEF vars, Inv, TypeOK, OneOperation, OpenSocketOwned,
      StopLeavesNothingWaiting, AcceptorAlwaysArmed, FreshUntouched, Fresh,
      NewUntouched, OperationsOwned, ParsedReadsNoMore
<1> QED
  BY <1>1, <1>2, <1>3, <1>4, <1>5, <1>6 DEF Next

(* The inductive invariant holds of every behaviour of the server,         *)
(* whatever the number of clients (server.cpp, connection_manager.cpp and  *)
(* connection.cpp as a whole).                                             *)
THEOREM Invariance == Spec => []Inv
<1> QED
  BY InitInv, NextInv, PTL DEF Spec

(* The state always has its types.                                         *)
THEOREM TypeCorrect == Spec => []TypeOK
<1>1. Inv => TypeOK
  BY DEF Inv
<1> QED
  BY <1>1, Invariance, PTL

(* A connection never has a read and a write outstanding: request_,        *)
(* response_ and buffer_ need no lock (connection.cpp:55-75).              *)
THEOREM ImplicitStrand == Spec => []OneOperation
<1>1. Inv => OneOperation
  BY DEF Inv
<1> QED
  BY <1>1, Invariance, PTL

(* While the server is open the raw this of handle_write is registered,    *)
(* hence alive (connection.cpp:68,74).                                     *)
THEOREM WriterSafe == Spec => []WriterRegistered
<1>1. Inv => WriterRegistered
  BY DEF Inv, OperationsOwned, WriterRegistered
<1> QED
  BY <1>1, Invariance, PTL

(* No open descriptor is out of the reach of stop_all and of the server's  *)
(* destructor (connection_manager.cpp:6-20).                               *)
THEOREM NoDescriptorLost == Spec => []OpenSocketOwned
<1>1. Inv => OpenSocketOwned
  BY DEF Inv
<1> QED
  BY <1>1, Invariance, PTL

(* After hanlde_stop nothing waits for the network and nothing becomes     *)
(* registered (server.cpp:50-66).                                          *)
THEOREM StopIsFinal == Spec => []StopLeavesNothingWaiting
<1>1. Inv => StopLeavesNothingWaiting
  BY DEF Inv
<1> QED
  BY <1>1, Invariance, PTL

(* An open server never stops accepting (server.cpp:37-45).                *)
THEOREM KeepsAccepting == Spec => []AcceptorAlwaysArmed
<1>1. Inv => AcceptorAlwaysArmed
  BY DEF Inv
<1> QED
  BY <1>1, Invariance, PTL

(* A request is answered once and not touched after that: handle_read is   *)
(* the only writer of message and the only one to start a write, and by    *)
(* ParsedReadsNoMore it does not run again (connection.cpp:61-74).         *)
THEOREM AnswersOnce == Spec => AnswerOnce
<1> DEFINE Answered(c) == /\ message'[c] = message[c]
                          /\ writing[c] = "idle" => writing'[c] = "idle"
<1>1. ASSUME Inv, [Next]_vars, NEW c \in Conn, message[c] \in Parsed
      PROVE  Answered(c)
  <2>1. reading[c] = "idle" /\ message \in [Conn -> WantMore \cup Parsed]
                            /\ writing \in [Conn -> Operation]
    BY <1>1 DEF Inv, TypeOK, ParsedReadsNoMore
  <2>2. CASE hanlde_stop
    BY <2>1, <2>2 DEF hanlde_stop, stop_all, Cancelled
  <2>3. ASSUME NEW d \in Conn, Handler(d) PROVE Answered(c)
    <3>1. CASE handle_read(d)
      BY <2>1, <3>1 DEF handle_read, read_failed, read_on, read_parsed,
          reply, Outcome
    <3>2. CASE handle_write(d) \/ handle_write_dangling(d)
      BY <2>1, <3>2 DEF handle_write, handle_write_dangling
    <3> QED
      BY <2>3, <3>1, <3>2 DEF Handler
  <2>4. ASSUME NEW d \in Conn, ReadCompletes(d) \/ WriteCompletes(d)
        PROVE  Answered(c)
    BY <2>1, <2>4 DEF ReadCompletes, WriteCompletes
  <2>5. CASE hanlde_accept \/ AcceptCompletes \/ SignalArrives \/ run_returns
    BY <2>5 DEF hanlde_accept, AcceptCompletes, SignalArrives, run_returns
  <2>6. CASE UNCHANGED vars
    BY <2>6 DEF vars
  <2> QED
    BY <1>1, <2>2, <2>3, <2>4, <2>5, <2>6 DEF Next
<1>2. Inv /\ [Next]_vars =>
        [\A c \in Conn : message[c] \in Parsed => Answered(c)]_vars
  BY <1>1 <1> QED BY <1>2, Invariance, PTL DEF Spec, AnswerOnce

(* A registration is dropped only after an error of that connection or by  *)
(* stop_all: the success path of handle_write keeps it (connection.cpp:    *)
(* 83-87), so a served client is released when the server stops at last.   *)
THEOREM ServedStaysRegistered == Spec => ReleasedOnlyOnErrorOrStop
<1> DEFINE Excused(c) ==
      reading[c] = "failed" \/ writing[c] = "failed" \/ ~is_open'
<1>1. ASSUME [Next]_vars, NEW c \in connections \ connections'
      PROVE  Excused(c)
  <2>1. CASE hanlde_accept
    BY <2>1 DEF hanlde_accept, accept_closed, accept_error, accept_client,
        accept_throws, manager_start
  <2>2. CASE hanlde_stop
    BY <2>2 DEF hanlde_stop
  <2>3. ASSUME NEW d \in Conn, Handler(d) PROVE Excused(c)
    BY <2>3 DEF Handler, handle_read, handle_write, handle_write_dangling,
        read_failed, read_on, read_parsed, write_failed, written,
        manager_stop
  <2>4. ASSUME NEW d \in Conn, ReadCompletes(d) \/ WriteCompletes(d)
        PROVE  Excused(c)
    BY <2>4 DEF ReadCompletes, WriteCompletes
  <2>5. CASE AcceptCompletes \/ SignalArrives \/ run_returns
    BY <2>5 DEF AcceptCompletes, SignalArrives, run_returns
  <2>6. CASE UNCHANGED vars
    BY <2>6 DEF vars
  <2> QED
    BY <1>1, <2>1, <2>2, <2>3, <2>4, <2>5, <2>6 DEF Next
<1>2. [Next]_vars => [\A c \in connections \ connections' : Excused(c)]_vars
  BY <1>1 <1> QED BY <1>2, PTL DEF Spec, ReleasedOnlyOnErrorOrStop

=============================================================================
