------------------------ MODULE StrandCounterProofs ------------------------
(* The final count of timer5, for every limit.  Inv is inductive.  That    *)
(* the count never passes kCount by more than one (in TypeOK) needs to     *)
(* know what the other handler can be at when one is about to reach or to  *)
(* pass it (LastOne); that nothing is lost in the strand, that a value     *)
(* loaded is still true when it is stored (InStrand).                      *)
EXTENDS StrandCounter, TLAPS

(* The state the constructor leaves.                                       *)
LEMMA InitInv == Init => Inv
<1> SUFFICES ASSUME Init PROVE Inv
  OBVIOUS
<1>1. TypeOK
  BY kCountAssumption DEF Init, TypeOK, Handler
<1>2. CountsOn /\ LastOne /\ InStrand
  BY kCountAssumption DEF Init, CountsOn, LastOne, InStrand, Counting, Handler
<1> QED
  BY <1>1, <1>2 DEF Inv

(* The check, passed.                                                      *)
LEMMA CheckKeepsInv ==
  ASSUME Inv, NEW h \in Handler, check(h)
  PROVE  Inv'
<1>1. TypeOK'
  BY kCountAssumption DEF Inv, TypeOK, check, Enters, Handler
<1>2. CountsOn' /\ LastOne'
  BY kCountAssumption DEF Inv, TypeOK, CountsOn, LastOne, Counting, check, Below
<1>3. InStrand'
  BY kCountAssumption DEF Inv, TypeOK, InStrand, Counting, check, Below, Enters,
      Handler
<1> QED
  BY <1>1, <1>2, <1>3 DEF Inv

(* The check, not passed.                                                  *)
LEMMA DoneKeepsInv ==
  ASSUME Inv, NEW h \in Handler, done(h)
  PROVE  Inv'
<1>1. TypeOK'
  BY DEF Inv, TypeOK, done, Over
<1>2. CountsOn' /\ LastOne'
  BY kCountAssumption DEF Inv, TypeOK, CountsOn, LastOne, Counting, done, Below,
      Over
<1>3. InStrand'
  BY DEF Inv, TypeOK, InStrand, Counting, done, Over
<1> QED
  BY <1>1, <1>2, <1>3 DEF Inv

(* cnt_ is loaded to be printed and counted up.                            *)
LEMMA LoadKeepsInv ==
  ASSUME Inv, NEW h \in Handler, load(h)
  PROVE  Inv'
<1>1. cnt_ \in 0 .. kCount
  BY kCountAssumption DEF Inv, TypeOK, LastOne, load
<1>2. TypeOK'
  BY <1>1 DEF Inv, TypeOK, load
<1>3. CountsOn' /\ LastOne'
  BY <1>1, kCountAssumption DEF Inv, TypeOK, CountsOn, LastOne, Counting, load
<1>4. InStrand'
  BY <1>1 DEF Inv, TypeOK, InStrand, Counting, load, Handler
<1> QED
  BY <1>2, <1>3, <1>4 DEF Inv

(* cnt_ is stored and the timer armed again.                               *)
LEMMA StoreKeepsInv ==
  ASSUME Inv, NEW h \in Handler, store(h)
  PROVE  Inv'
<1>1. loaded[h] \in 0 .. kCount /\ cnt_' = loaded[h] + 1
  BY DEF Inv, TypeOK, store
<1>2. TypeOK'
  BY <1>1, kCountAssumption DEF Inv, TypeOK, store, Rearmed, Leaves
<1>3. CountsOn'
  BY DEF Inv, TypeOK, CountsOn, store, Rearmed
<1>4. LastOne'
  BY <1>1, kCountAssumption DEF Inv, TypeOK, LastOne, Counting, store, Rearmed,
      Handler
<1>5. InStrand'
  BY <1>1, kCountAssumption DEF Inv, TypeOK, InStrand, Counting, store, Rearmed,
      Leaves, Handler
<1> QED
  BY <1>2, <1>3, <1>4, <1>5 DEF Inv

(* Every step.                                                             *)
LEMMA NextInv == Inv /\ [Next]_vars => Inv'
<1> SUFFICES ASSUME Inv, [Next]_vars PROVE Inv'
  OBVIOUS
<1>1. CASE UNCHANGED vars
  BY <1>1 DEF vars, Inv, TypeOK, CountsOn, LastOne, InStrand, Counting
<1>2. CASE Next
  BY <1>2, CheckKeepsInv, DoneKeepsInv, LoadKeepsInv, StoreKeepsInv DEF Next, Step
<1> QED
  BY <1>1, <1>2

-----------------------------------------------------------------------------
(* The inductive invariant holds of every behaviour.                       *)
THEOREM Invariance == Spec => []Inv
<1> QED
  BY InitInv, NextInv, PTL DEF Spec

(* cnt_ never passes the limit by more than one, raced for or not          *)
(* (timer5.cpp:34, 46).                                                    *)
THEOREM TypeCorrect == Spec => []TypeOK
<1>1. Inv => TypeOK
  BY DEF Inv
<1> QED
  BY <1>1, Invariance, PTL

(* In the strand the final count is the limit, and as many numbers were     *)
(* printed (timer5.cpp:33-56).                                             *)
THEOREM CountsExactly == Spec => []StrandExact
<1>1. Inv => StrandExact
  BY kCountAssumption DEF Inv, TypeOK, CountsOn, InStrand, StrandExact, Finished
<1> QED
  BY <1>1, Invariance, PTL

(* Without the strand the final count is one of two (timer5.cpp:34, 46).   *)
THEOREM CountsToTheLimit == Spec => []FinalCount
<1>1. Inv => FinalCount
  BY kCountAssumption DEF Inv, TypeOK, CountsOn, FinalCount, Finished
<1> QED
  BY <1>1, Invariance, PTL

=============================================================================
