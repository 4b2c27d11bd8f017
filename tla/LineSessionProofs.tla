------------------------- MODULE LineSessionProofs -------------------------
(* The session of the line server, for any number of bytes.  Inv is        *)
(* inductive.  Where buffer_ begins (Behind) is what orders the lines and  *)
(* bounds what is lost between them, hence the refinement of LineEcho;     *)
(* that a patient client's buffer_ ends with the line it is at             *)
(* (OneLineAhead) is what leaves consume nothing to take.                  *)
EXTENDS LineSession, TLAPS

P == [from : 1 .. Total, to : 0 .. Total]

(* What push_back does to the lines.                                       *)
LEMMA Pushed ==
  ASSUME NEW t \in Seq(P), NEW p \in P
  PROVE  /\ Append(t, p) \in Seq(P)
         /\ Len(Append(t, p)) = Len(t) + 1
         /\ Append(t, p)[Len(t) + 1] = p
         /\ \A k \in 1 .. Len(t) : Append(t, p)[k] = t[k]
         /\ Append(t, p) # <<>>
         /\ Len(t) \in Nat
         /\ t = <<>> <=> Len(t) = 0
  OBVIOUS

(* The last of the lines.                                                  *)
LEMMA LastLine ==
  ASSUME NEW t \in Seq(P), t # <<>>
  PROVE  t[Len(t)] \in P /\ t[Len(t)].from \in Nat /\ t[Len(t)].to \in Nat
<1>1. Len(t) \in 1 .. Len(t)
  OBVIOUS
<1>2. t[Len(t)] \in P
  BY <1>1
<1> QED
  BY <1>2, TotalAssumption DEF P

(* The state in which start() leaves the session.                          *)
LEMMA InitInv == Init => Inv
<1> SUFFICES ASSUME Init PROVE Inv
  OBVIOUS
<1> <<>> \in Seq(P) /\ Len(<<>>) = 0
  OBVIOUS
<1>1. TypeOK
  BY TotalAssumption DEF Init, TypeOK, P
<1>2. Behind /\ OneLineAhead /\ PatientIsEchoed
  BY DEF Init, Behind, OneLineAhead, PatientIsEchoed
<1>3. OperationsOfOpen /\ OnlyResetEnds /\ DestroyedClosed
  BY DEF Init, OperationsOfOpen, QueueIsWritten, messages_empty, OnlyResetEnds,
      DestroyedClosed
<1> QED
  BY <1>1, <1>2, <1>3 DEF Inv

(* on_read with a line.                                                    *)
LEMMA LineReadKeepsInv ==
  ASSUME Inv, process = "running", line_read, UNCHANGED client_vars
  PROVE  Inv'
<1> USE TotalAssumption
<1>1. PICK n \in newlines :
        /\ pos < n /\ n <= got
        /\ \A i \in newlines : i <= pos \/ n <= i
        /\ pos' = Consumed(n)
        /\ taken' = Append(taken, Line(n))
        /\ writing' = IF messages_empty THEN WriteStarted(Line(n)) ELSE writing
        /\ reading' = ReadStarted(Consumed(n))
  BY DEF line_read
<1> DEFINE l == Line(n)
<1>2. /\ n \in 1 .. Total /\ got \in 0 .. Total /\ pos \in 0 .. Total
      /\ taken \in Seq(P) /\ popped \in 0 .. Len(taken)
  BY <1>1 DEF Inv, TypeOK, P
<1>3. l \in P /\ l.from = pos + 1 /\ l.to = n - 1
  BY <1>1, <1>2 DEF Line, P
<1>4. /\ taken' \in Seq(P) /\ Len(taken') = Len(taken) + 1
      /\ taken'[Len(taken) + 1] = l
      /\ \A k \in 1 .. Len(taken) : taken'[k] = taken[k]
      /\ taken' # <<>> /\ Len(taken) \in Nat
      /\ taken = <<>> <=> Len(taken) = 0
  BY <1>1, <1>2, <1>3, Pushed
<1>5. pos' \in n .. got /\ pos' - n <= n - pos /\ (n = got => pos' = n)
  BY <1>1, <1>2 DEF Consumed
<1> HIDE DEF l
<1>6. reading' \in {"ok", "wait", "failed"}
      /\ writing' \in {"idle", "ok", "wait", "failed"}
  BY <1>1 DEF Inv, TypeOK, ReadStarted, WriteStarted
<1>7. TypeOK'
  BY <1>2, <1>4, <1>5, <1>6 DEF Inv, TypeOK, P, line_read, client_vars
<1>8. Behind'
  <2>1. taken'[Len(taken')] = l /\ taken' # <<>>
    BY <1>4
  <2>2. /\ l.from <= l.to + 1
        /\ l.to + 1 <= pos'
        /\ pos' - (l.to + 1) <= l.to + 2 - l.from
    BY <1>1, <1>2, <1>3, <1>5
  <2> QED
    BY <2>1, <2>2 DEF Behind
<1>9. patient => n = got
  BY <1>1 DEF Inv, OneLineAhead
<1>10. OneLineAhead'
  BY <1>2, <1>3, <1>4, <1>5, <1>9 DEF Inv, OneLineAhead, client_vars, line_read
<1>11. PatientIsEchoed'
  <2> SUFFICES ASSUME patient, NEW k \in 1 .. Len(taken) + 1 PROVE WholeLine(k)'
    BY <1>4 DEF PatientIsEchoed, client_vars
  <2>1. CASE k \in 1 .. Len(taken)
    <3>1. WholeLine(k)
      BY <2>1 DEF Inv, PatientIsEchoed
    <3>2. taken'[k] = taken[k] /\ (k # 1 => taken'[k - 1] = taken[k - 1])
      BY <1>4, <2>1
    <3> QED
      BY <3>1, <3>2 DEF WholeLine, client_vars
  <2>2. CASE k = Len(taken) + 1
    <3>1. l.from = IF k = 1 THEN 1 ELSE taken[k - 1].to + 2
      <4>1. CASE taken = <<>>
        BY <1>3, <1>4, <2>2, <4>1 DEF Inv, Behind
      <4>2. CASE taken # <<>>
        <5>1. taken[Len(taken)].to \in Nat /\ Len(taken) # 0
          BY <1>2, <1>4, <4>2, LastLine
        <5>2. pos = taken[Len(taken)].to + 1 /\ k - 1 = Len(taken) /\ k # 1
          BY <1>4, <2>2, <4>2, <5>1 DEF Inv, OneLineAhead
        <5> QED
          BY <1>3, <5>1, <5>2
      <4> QED
        BY <4>1, <4>2
    <3>2. \A i \in newlines : i < l.from \/ l.to < i
      BY <1>1, <1>2, <1>3 DEF Inv, TypeOK
    <3>3. taken'[k] = l /\ (k # 1 => taken'[k - 1] = taken[k - 1])
      BY <1>4, <2>2
    <3>4. l.to + 1 \in newlines
      BY <1>1, <1>2, <1>3
    <3> QED
      BY <3>1, <3>2, <3>3, <3>4 DEF WholeLine, client_vars
  <2> QED
    BY <1>2, <1>4, <2>1, <2>2
<1>12. OperationsOfOpen'
  BY <1>1, <1>2, <1>4, <1>5 DEF Inv, OperationsOfOpen, QueueIsWritten,
      messages_empty, ReadStarted, WriteStarted, line_read, client_vars
<1>13. OnlyResetEnds' /\ DestroyedClosed'
  BY <1>6 DEF Inv, OnlyResetEnds, DestroyedClosed, line_read, client_vars
<1> QED
  BY <1>7, <1>8, <1>10, <1>11, <1>12, <1>13 DEF Inv

(* A step that pushes no line and takes nothing out of buffer_ leaves what *)
(* is said of the lines as it is.                                          *)
LEMMA LinesUntouched ==
  ASSUME Inv, UNCHANGED <<newlines, patient, got, pos, taken>>
  PROVE  Behind' /\ OneLineAhead' /\ PatientIsEchoed'
  BY DEF Inv, Behind, OneLineAhead, PatientIsEchoed, WholeLine

(* on_error, of a read or of a write.                                      *)
LEMMA ErrorKeepsInv ==
  ASSUME Inv, read_error \/ write_error, process = "running",
         UNCHANGED client_vars
  PROVE  Inv'
<1>1. TypeOK'
  BY DEF Inv, TypeOK, read_error, write_error, Closed, AfterError, client_vars
<1>2. Behind' /\ OneLineAhead' /\ PatientIsEchoed'
  BY LinesUntouched DEF read_error, write_error, client_vars
<1>3. OperationsOfOpen'
  BY DEF Inv, OperationsOfOpen, QueueIsWritten, messages_empty, read_error,
      write_error, Closed, AfterError, client_vars
<1>4. OnlyResetEnds' /\ DestroyedClosed'
  BY DEF Inv, OnlyResetEnds, DestroyedClosed, read_error, write_error,
      client_vars
<1> QED
  BY <1>1, <1>2, <1>3, <1>4 DEF Inv

(* on_write.                                                               *)
LEMMA LineWrittenKeepsInv ==
  ASSUME Inv, line_written, process = "running", UNCHANGED client_vars
  PROVE  Inv'
<1>1. popped < Len(taken) /\ Len(taken) \in Nat /\ popped \in Nat
  BY DEF Inv, TypeOK, OperationsOfOpen, messages_empty, line_written
<1>2. writing' \in {"idle", "ok", "wait", "failed"}
      /\ (writing' = "idle" <=> popped + 1 = Len(taken))
      /\ (writing' = "wait" => socket_ = "open")
  BY <1>1 DEF line_written, AfterWrite, WriteStarted
<1>3. TypeOK'
  BY <1>1, <1>2 DEF Inv, TypeOK, line_written, client_vars
<1>4. Behind' /\ OneLineAhead' /\ PatientIsEchoed'
  BY LinesUntouched DEF line_written, client_vars
<1>5. OperationsOfOpen'
  BY <1>1, <1>2 DEF Inv, OperationsOfOpen, QueueIsWritten, messages_empty,
      line_written, client_vars
<1>6. OnlyResetEnds' /\ DestroyedClosed'
  BY DEF Inv, OnlyResetEnds, DestroyedClosed, line_written, client_vars
<1> QED
  BY <1>3, <1>4, <1>5, <1>6 DEF Inv

(* name() throws.                                                          *)
LEMMA ThrowKeepsInv ==
  ASSUME Inv, throws, UNCHANGED client_vars
  PROVE  Inv'
<1>1. TypeOK'
  BY DEF Inv, TypeOK, throws, client_vars
<1>2. Behind' /\ OneLineAhead' /\ PatientIsEchoed'
  BY LinesUntouched DEF throws, client_vars
<1>3. OperationsOfOpen' /\ OnlyResetEnds' /\ DestroyedClosed'
  BY DEF Inv, OperationsOfOpen, QueueIsWritten, messages_empty, OnlyResetEnds,
      DestroyedClosed, throws, NameThrows, client_vars
<1> QED
  BY <1>1, <1>2, <1>3 DEF Inv

(* More bytes arrive.                                                      *)
LEMMA ReadKeepsInv ==
  ASSUME Inv, NEW n \in 1 .. Total, ReadCompletes(n)
  PROVE  Inv'
<1>1. TypeOK'
  BY TotalAssumption DEF Inv, TypeOK, ReadCompletes, client_vars
<1>2. Behind' /\ PatientIsEchoed'
  BY DEF Inv, Behind, PatientIsEchoed, WholeLine, ReadCompletes, client_vars
<1>3. OneLineAhead'
  BY TotalAssumption DEF Inv, TypeOK, OneLineAhead, OperationsOfOpen,
      ReadCompletes, MaySend, client_vars
<1>4. OperationsOfOpen'
  BY TotalAssumption DEF Inv, TypeOK, OperationsOfOpen, QueueIsWritten,
      messages_empty, ReadCompletes, client_vars
<1>5. OnlyResetEnds' /\ DestroyedClosed'
  BY DEF Inv, OnlyResetEnds, DestroyedClosed, ReadCompletes, client_vars
<1> QED
  BY <1>1, <1>2, <1>3, <1>4, <1>5 DEF Inv

(* An error is reported, a write done, or the client leaves.               *)
LEMMA OutsideKeepsInv ==
  ASSUME Inv, ReadFails \/ WriteCompletes \/ PeerLeaves
  PROVE  Inv'
<1>1. TypeOK'
  BY DEF Inv, TypeOK, ReadFails, WriteCompletes, PeerLeaves, client_vars
<1>2. Behind' /\ OneLineAhead' /\ PatientIsEchoed'
  BY LinesUntouched DEF ReadFails, WriteCompletes, PeerLeaves, client_vars
<1>3. OperationsOfOpen'
  BY DEF Inv, OperationsOfOpen, QueueIsWritten, messages_empty, ReadFails,
      WriteCompletes, PeerLeaves, client_vars
<1>4. OnlyResetEnds' /\ DestroyedClosed'
  BY DEF Inv, TypeOK, OnlyResetEnds, DestroyedClosed, ReadFails, WriteCompletes,
      PeerLeaves, client_vars
<1> QED
  BY <1>1, <1>2, <1>3, <1>4 DEF Inv

(* Every step.                                                             *)
LEMMA NextInv == Inv /\ [Next]_vars => Inv'
<1> SUFFICES ASSUME Inv, [Next]_vars PROVE Inv'
  OBVIOUS
<1>1. CASE UNCHANGED vars
  BY <1>1 DEF vars, client_vars, Inv, TypeOK, Behind, OneLineAhead,
      PatientIsEchoed, WholeLine, OperationsOfOpen, QueueIsWritten,
      messages_empty, OnlyResetEnds, DestroyedClosed
<1>2. CASE on_read
  BY <1>2, LineReadKeepsInv, ErrorKeepsInv, ThrowKeepsInv DEF on_read
<1>3. CASE on_write
  BY <1>3, LineWrittenKeepsInv, ErrorKeepsInv, ThrowKeepsInv DEF on_write
<1>4. CASE Kernel
  BY <1>4, ReadKeepsInv, OutsideKeepsInv DEF Kernel
<1>5. CASE PeerLeaves
  BY <1>5, OutsideKeepsInv
<1> QED
  BY <1>1, <1>2, <1>3, <1>4, <1>5 DEF Next

-----------------------------------------------------------------------------
(* The inductive invariant holds of every behaviour: no line is stuck,     *)
(* only a reset ends the server, a session is destroyed with its socket    *)
(* closed (202...cpp:42-86).                                               *)
THEOREM Invariance == Spec => []Inv
<1> QED
  BY InitInv, NextInv, PTL DEF Spec

(* A patient client is echoed its lines, each as a whole and none left out *)
(* (202...cpp:47-51).                                                      *)
THEOREM PatientEchoed == Spec => []PatientIsEchoed
<1>1. Inv => PatientIsEchoed
  BY DEF Inv
<1> QED
  BY <1>1, Invariance, PTL

-----------------------------------------------------------------------------
(* on_read with a line is what LineEcho hears, on_write what it returns,   *)
(* every other step is a stutter.                                          *)
LEMMA StepEchoes == Inv /\ [Next]_vars => [Echo!Next]_Echo!echo_vars
<1> SUFFICES ASSUME Inv, [Next]_vars PROVE [Echo!Next]_Echo!echo_vars
  OBVIOUS
<1>1. ASSUME line_read, UNCHANGED client_vars PROVE Echo!Hear
  <2>1. PICK n \in newlines :
          /\ pos < n /\ n <= got
          /\ \A i \in newlines : i <= pos \/ n <= i
          /\ taken' = Append(taken, Line(n))
    BY <1>1 DEF line_read
  <2>2. n \in 1 .. Total /\ pos \in 0 .. Total
    BY <2>1, TotalAssumption DEF Inv, TypeOK
  <2>3. Line(n) \in Echo!Piece /\ Line(n).from = pos + 1 /\ Line(n).to = n - 1
    BY <2>1, <2>2, TotalAssumption DEF Echo!Piece, Line
  <2>4. Echo!IsLineEnd(Line(n))
    BY <2>1, <2>2, <2>3, TotalAssumption DEF Inv, TypeOK, Echo!IsLineEnd
  <2>5. Echo!Follows(Line(n))
    <3>1. CASE taken = <<>>
      BY <2>2, <2>3, <3>1 DEF Inv, Behind, Echo!Follows, Echo!End
    <3>2. CASE taken # <<>>
      <4>1. taken[Len(taken)].to \in Nat /\ taken[Len(taken)].from \in Nat
        BY <3>2, LastLine DEF Inv, TypeOK, P
      <4> QED
        BY <2>2, <2>3, <3>2, <4>1 DEF Inv, Behind, Echo!Follows, Echo!End,
            Echo!Size
    <3> QED
      BY <3>1, <3>2
  <2> QED
    BY <1>1, <2>1, <2>3, <2>4, <2>5 DEF Echo!Hear, line_read, client_vars
<1>2. ASSUME line_written, UNCHANGED client_vars PROVE Echo!Return
  BY <1>2 DEF Inv, TypeOK, OperationsOfOpen, messages_empty, line_written,
      client_vars, Echo!Return
<1>3. ASSUME UNCHANGED <<newlines, taken, popped>>
      PROVE  UNCHANGED Echo!echo_vars
  BY <1>3 DEF Echo!echo_vars
<1>4. CASE on_read
  BY <1>1, <1>3, <1>4 DEF on_read, read_error, throws, client_vars, Echo!Next
<1>5. CASE on_write
  BY <1>2, <1>3, <1>5 DEF on_write, write_error, throws, client_vars, Echo!Next
<1>6. CASE Kernel \/ PeerLeaves \/ UNCHANGED vars
  BY <1>3, <1>6 DEF Kernel, ReadCompletes, ReadFails, WriteCompletes, PeerLeaves,
      client_vars, vars
<1> QED
  BY <1>4, <1>5, <1>6 DEF Next

(* The session implements LineEcho: pieces that end where lines do, in     *)
(* their order, none twice, and not more lost in front of one than the one *)
(* before was long (202...cpp:42-72).                                      *)
THEOREM Refines == Spec => EchoSpec
<1>1. Init => Echo!Init
  BY DEF Init, Echo!Init
<1> QED
  BY <1>1, StepEchoes, Invariance, PTL DEF Spec, EchoSpec, Echo!Spec
=============================================================================
