--------------------------- MODULE AcceptLoopProofs ---------------------------
(* The inductive invariant of the four servers, for every set of clients.    *)
EXTENDS AcceptLoop, TLAPS

LEMMA InitInv == Init => Inv
  BY SessionAssumption
     DEF Init, Inv, TypeOK, Owned, Pending, OnlyFaultsEnd, CatchNotReached, Operation

(* The object that waits to be accepted into is alive, and what a failed     *)
(* accept leaves unopened, or an accepted client has reset, throws.          *)
LEMMA WaitingThrows ==
  ASSUME Inv, Runs, program = "daytime3",
         \/ accepting = "failed"
         \/ accepting = "ok" /\ StartThrows(new_session)
         \/ \E s \in Session : op[s] = "failed"
  PROVE  \E s \in Session : Alive(s) /\ DestructorThrows(s)
  <1>1. CASE accepting = "failed"
    BY <1>1 DEF Inv, TypeOK, Pending, Alive, DestructorThrows, RemoteEndpointThrows
  <1>2. CASE accepting = "ok" /\ StartThrows(new_session)
    BY <1>2 DEF Inv, TypeOK, Alive, StartThrows, DestructorThrows
  <1>3. CASE \E s \in Session : op[s] = "failed"
    <2>1. PICK s \in Session : op[s] = "failed"  BY <1>3
    <2>2. peer[s] = "reset"  BY <2>1 DEF Inv, Owned, Daytime
    <2> QED  BY <2>1, <2>2 DEF Alive, DestructorThrows, RemoteEndpointThrows
  <1> QED  BY <1>1, <1>2, <1>3

(* An exception for which a fault is to blame keeps the invariant.           *)
LEMMA ThrowsInv ==
  ASSUME Inv, process = "running", Throws, UNCHANGED program,
         sleeping' = sleeping \/ sleeping' = "none",
         \/ \E s \in Session : peer[s] = "reset"
         \/ program \in Daytime /\ accepting = "failed",
         program = "daytime3" => \E s \in Session : Alive(s) /\ DestructorThrows(s)
  PROVE  Inv'
  <1>1. TypeOK'  BY DEF Inv, TypeOK, Throws
  <1>2. Owned' /\ Pending'  BY DEF Inv, TypeOK, Owned, Pending, Throws
  <1>3. OnlyFaultsEnd'  BY DEF OnlyFaultsEnd, Throws
  <1>4. CatchNotReached'  BY DEF CatchNotReached, Throws
  <1> QED  BY <1>1, <1>2, <1>3, <1>4 DEF Inv

LEMMA AcceptInv ==
  ASSUME Inv, on_accept
  PROVE  Inv'
  <1>1. process = "running" /\ Runs /\ UNCHANGED program  BY DEF on_accept, Runs
  <1>2. CASE accept_error
    <2>1. CASE program \in Daytime
      <3>1. Throws /\ accepting = "failed"  BY <1>2, <2>1 DEF accept_error
      <3>2. program = "daytime3" => \E s \in Session : Alive(s) /\ DestructorThrows(s)
        BY <1>1, <3>1, WaitingThrows
      <3> QED  BY <1>1, <2>1, <3>1, <3>2, ThrowsInv DEF Throws
    <2>2. CASE program \notin Daytime
      BY <1>1, <1>2, <2>2
         DEF accept_error, Inv, TypeOK, Owned, Pending, OnlyFaultsEnd, CatchNotReached, Operation
    <2> QED  BY <2>1, <2>2
  <1>3. CASE accept_client
    <2>1. CASE StartThrows(new_session)
      <3>1. Throws /\ accepting = "ok"  BY <1>3, <2>1 DEF accept_client
      <3>2. new_session \in Session /\ peer[new_session] = "reset"
        BY <2>1, <3>1 DEF Inv, TypeOK, Pending, StartThrows, RemoteEndpointThrows
      <3>3. program = "daytime3" => \E s \in Session : Alive(s) /\ DestructorThrows(s)
        BY <1>1, <2>1, <3>1, WaitingThrows
      <3> QED  BY <1>1, <3>1, <3>2, <3>3, ThrowsInv DEF Throws
    <2>2. CASE ~StartThrows(new_session)
      BY <1>1, <1>3, <2>2
         DEF accept_client, Fresh, Inv, TypeOK, Owned, Pending, OnlyFaultsEnd,
             CatchNotReached, Operation
    <2> QED  BY <2>1, <2>2
  <1> QED  BY <1>2, <1>3 DEF on_accept

(* The handler that ends an operation as Released says.                      *)
LEMMA ReleasedInv ==
  ASSUME Inv, process = "running", NEW s \in Session, Released(s),
         op[s] \in {"ok", "failed"}, UNCHANGED program,
         (sleeping' = sleeping /\ sleeping # s) \/ sleeping' = "none"
  PROVE  Inv'
  BY SessionAssumption
     DEF Released, Inv, TypeOK, Owned, Pending, OnlyFaultsEnd, CatchNotReached, Operation

LEMMA DoneInv ==
  ASSUME Inv, NEW s \in Session, on_done(s)
  PROVE  Inv'
  <1>1. process = "running" /\ Runs /\ UNCHANGED program /\ (sleeping = "none")
    BY DEF on_done, Runs
  <1>2. CASE worker_read(s)
    BY <1>1, <1>2, ReleasedInv DEF worker_read
  <1>3. CASE session_read(s)
    <2>1. CASE NameThrows(s) /\ Throws
      BY <1>1, <1>3, <2>1, ThrowsInv DEF session_read, NameThrows, Throws
    <2>2. CASE /\ op[s] = "ok"
               /\ op' = [op EXCEPT ![s] = "wait"]
               /\ UNCHANGED <<process, accepting, new_session, socket_, peer, sleeping>>
      BY <1>1, <2>2, SessionAssumption
         DEF Inv, TypeOK, Owned, Pending, OnlyFaultsEnd, CatchNotReached, Operation
    <2>3. CASE op[s] = "failed" /\ Released(s) /\ UNCHANGED sleeping
      BY <1>1, <2>3, ReleasedInv
    <2> QED  BY <1>3, <2>1, <2>2, <2>3 DEF session_read
  <1>4. CASE write_sleeps(s)
    BY <1>1, <1>4
       DEF write_sleeps, Inv, TypeOK, Owned, Pending, OnlyFaultsEnd, CatchNotReached
  <1>5. CASE write_done(s)
    <2>1. CASE op[s] = "failed" /\ Throws
      <3>1. peer[s] = "reset" /\ program # "daytime3"
        BY <1>5, <2>1 DEF write_done, Inv, Owned, Daytime
      <3> QED  BY <1>1, <2>1, <3>1, ThrowsInv DEF Throws
    <2>2. CASE op[s] = "ok" /\ Released(s) /\ UNCHANGED sleeping
      BY <1>1, <2>2, ReleasedInv
    <2> QED  BY <1>5, <2>1, <2>2 DEF write_done
  <1> QED  BY <1>2, <1>3, <1>4, <1>5 DEF on_done

LEMMA WakesInv ==
  ASSUME Inv, NEW s \in Session, write_wakes(s)
  PROVE  Inv'
  <1>1. /\ process = "running" /\ sleeping = s /\ UNCHANGED program
        /\ op[s] \in {"ok", "failed"} /\ socket_[s] = "open"
    BY DEF write_wakes, Inv, Owned
  <1>2. CASE op[s] = "failed"
    <2>1. Throws  BY <1>2 DEF write_wakes
    <2>2. program = "daytime3" /\ peer[s] = "reset"
      BY <1>1, <1>2 DEF Inv, Owned, Daytime
    <2>3. Alive(s) /\ DestructorThrows(s)
      BY <1>2, <2>2 DEF Alive, DestructorThrows, RemoteEndpointThrows
    <2> QED  BY <1>1, <2>1, <2>2, <2>3, ThrowsInv DEF Throws
  <1>3. CASE op[s] # "failed" /\ DestructorThrows(s)
    <2>1. peer[s] = "reset"  BY <1>1, <1>3 DEF DestructorThrows, RemoteEndpointThrows
    <2>2. /\ process' = "terminated"
          /\ UNCHANGED <<program, accepting, new_session, socket_, peer, op, sleeping>>
      BY <1>3 DEF write_wakes
    <2> QED
      BY <2>1, <2>2 DEF Inv, TypeOK, Owned, Pending, OnlyFaultsEnd, CatchNotReached
  <1>4. CASE op[s] # "failed" /\ ~DestructorThrows(s)
    <2>1. Released(s) /\ sleeping' = "none"  BY <1>4 DEF write_wakes
    <2> QED  BY <1>1, <2>1, ReleasedInv
  <1> QED  BY <1>2, <1>3, <1>4

LEMMA EnvironmentInv ==
  ASSUME Inv, NEW s \in Session,
         AcceptCompletes \/ run_returns \/ OpCompletes(s) \/ PeerLeaves(s)
  PROVE  Inv'
  <1>1. CASE AcceptCompletes
    BY <1>1 DEF AcceptCompletes, Inv, TypeOK, Owned, Pending, OnlyFaultsEnd,
                CatchNotReached, Operation
  <1>2. CASE run_returns
    BY <1>2 DEF run_returns, Inv, TypeOK, Owned, Pending, OnlyFaultsEnd, CatchNotReached
  <1>3. CASE OpCompletes(s)
    BY <1>3 DEF OpCompletes, Outcome, Inv, TypeOK, Owned, Pending, OnlyFaultsEnd,
                CatchNotReached, Operation
  <1>4. CASE PeerLeaves(s)
    BY <1>4 DEF PeerLeaves, Inv, TypeOK, Owned, Pending, OnlyFaultsEnd, CatchNotReached
  <1> QED  BY <1>1, <1>2, <1>3, <1>4

LEMMA NextInv == Inv /\ [Next]_vars => Inv'
  <1> SUFFICES ASSUME Inv, [Next]_vars PROVE Inv'  OBVIOUS
  <1>1. CASE UNCHANGED vars
    BY <1>1 DEF vars, Inv, TypeOK, Owned, Pending, OnlyFaultsEnd, CatchNotReached
  <1>2. CASE Next
    BY <1>2, SessionAssumption, AcceptInv, DoneInv, WakesInv, EnvironmentInv DEF Next
  <1> QED  BY <1>1, <1>2

-----------------------------------------------------------------------------
(* The inductive invariant of the accept loops holds in every reachable      *)
(* state of the four servers.                                                *)
THEOREM Invariance == Spec => []Inv
  BY InitInv, NextInv, PTL DEF Spec

(* None of the four servers ends before a connection has been reset or, with *)
(* the daytime servers, an accept has failed.                                *)
THEOREM EndsAfterFault == Spec => []OnlyFaultsEnd
  <1>1. Inv => OnlyFaultsEnd  BY DEF Inv
  <1> QED  BY <1>1, Invariance, PTL

(* The catch of daytime3's main is not reached from run().                   *)
THEOREM CatchIsDead == Spec => []CatchNotReached
  <1>1. Inv => CatchNotReached  BY DEF Inv
  <1> QED  BY <1>1, Invariance, PTL
=============================================================================
