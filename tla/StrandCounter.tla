--------------------------- MODULE StrandCounter ---------------------------
(* basics/timer5.cpp: two timers whose handlers, print1 and print2, count  *)
(* up one cnt_ until it is kCount, with eleven threads in run(); in a      *)
(* strand, or not.  Without it the two run at once and race for cnt_.      *)
(* Which accesses a racing handler makes is what the build does: one load  *)
(* for the check, one for the increment, one store; output goes out        *)
(* between the first and the second, so that they are not made one.        *)
EXTENDS Naturals

CONSTANT kCount   \* where to stop

ASSUME kCountAssumption == kCount \in Nat

Handler == {"print1", "print2"}

VARIABLES
  need_sync_,  \* the handlers are bound to the strand
  cnt_,
  at,       \* where each handler is: "waiting" for its timer to be done and
            \* a thread to run it, about to "load" and to "store" cnt_, or
            \* "over", its timer not armed again
  loaded,   \* the value each has in a register
  strand,   \* the handler that runs in the strand, or "free"
  prints    \* history: the numbers printed

vars == <<need_sync_, cnt_, at, loaded, strand, prints>>

-----------------------------------------------------------------------------
(* Slips: a plausible mistake in the definition each is named for.         *)

\* print2 is not bound to the strand
Enters__print2_unbound(h) ==
  IF need_sync_ /\ h = "print1" THEN strand = "free" /\ strand' = h ELSE UNCHANGED strand

\* the timer is set again but not waited for
Rearmed__not_waited == "over"

\* the timer is set again at the limit, too
Over__rearms == "waiting"

-----------------------------------------------------------------------------
Init ==
  /\ need_sync_ \in BOOLEAN
  /\ cnt_ = 0
  /\ at = [h \in Handler |-> "waiting"]
  /\ loaded = [h \in Handler |-> 0]
  /\ strand = "free"
  /\ prints = 0

(* A handler bound to the strand runs when no other does, and has it until *)
(* it returns.                                                             *)
Enters(h) ==
  IF need_sync_ THEN strand = "free" /\ strand' = h ELSE UNCHANGED strand
Leaves == strand' = "free"

Below(n) == n < kCount

(* print1 and print2.                                                      *)
check(h) ==
  /\ at[h] = "waiting"
  /\ Below(cnt_)
  /\ Enters(h)
  /\ at' = [at EXCEPT ![h] = "load"]
  /\ UNCHANGED <<need_sync_, cnt_, loaded, prints>>

Over == "over"
done(h) ==
  /\ at[h] = "waiting"
  /\ ~Below(cnt_)
  /\ need_sync_ => strand = "free"
  /\ at' = [at EXCEPT ![h] = Over]
  /\ UNCHANGED <<need_sync_, cnt_, loaded, strand, prints>>

load(h) ==
  /\ at[h] = "load"
  /\ loaded' = [loaded EXCEPT ![h] = cnt_]
  /\ prints' = prints + 1
  /\ at' = [at EXCEPT ![h] = "store"]
  /\ UNCHANGED <<need_sync_, cnt_, strand>>

Rearmed == "waiting"
store(h) ==
  /\ at[h] = "store"
  /\ cnt_' = loaded[h] + 1
  /\ at' = [at EXCEPT ![h] = Rearmed]
  /\ Leaves
  /\ UNCHANGED <<need_sync_, loaded, prints>>

Step(h) == check(h) \/ done(h) \/ load(h) \/ store(h)
Next == \E h \in Handler : Step(h)

Spec == Init /\ [][Next]_vars

(* Timers are done after their microsecond, and threads run.               *)
FairSpec == Spec /\ \A h \in Handler : WF_vars(Step(h))

-----------------------------------------------------------------------------
(* run() returns when neither timer is armed any more.                     *)
Finished == \A h \in Handler : at[h] = "over"

(* The types of the state.                                                 *)
TypeOK ==
  /\ need_sync_ \in BOOLEAN
  /\ cnt_ \in 0 .. kCount + 1
  /\ at \in [Handler -> {"waiting", "load", "store", "over"}]
  /\ loaded \in [Handler -> 0 .. kCount]
  /\ strand \in Handler \cup {"free"}
  /\ prints \in Nat

(* In the strand nothing is lost and nothing counted twice: the final      *)
(* count is kCount, and as many numbers have been printed                  *)
(* (timer5.cpp:33-56).                                                     *)
StrandExact == need_sync_ /\ Finished => cnt_ = kCount /\ prints = kCount

(* Without it updates are lost, but both handlers go on until they see the *)
(* limit: the final count is kCount or, when both passed the check for the *)
(* last one, one more (timer5.cpp:34, 46).                                 *)
FinalCount == Finished => cnt_ \in {kCount, kCount + 1}

(* Lost updates, which may set cnt_ back, do not go on for ever.           *)
CountEnds == <>Finished

-----------------------------------------------------------------------------
(* The inductive invariant.                                                *)

(* While cnt_ is below the limit somebody will count on.                   *)
CountsOn == cnt_ < kCount => \E h \in Handler : at[h] # "over"

(* One that is to take cnt_ past the limit passed the check before the     *)
(* other reached the limit, and the other cannot pass it any more.         *)
Counting(h) == at[h] \in {"load", "store"}
LastOne ==
  \A h, g \in Handler :
    /\ at[h] = "load" /\ cnt_ >= kCount => cnt_ = kCount /\ (g # h => ~Counting(g))
    /\ at[h] = "store" /\ loaded[h] >= kCount => cnt_ = kCount /\ (g # h => ~Counting(g))

(* The strand: who counts has it, and what it has loaded is still true.    *)
InStrand ==
  need_sync_ =>
    /\ \A h \in Handler : Counting(h) <=> strand = h
    /\ \A h \in Handler : at[h] = "store" => loaded[h] = cnt_ /\ prints = cnt_ + 1
    /\ \A h \in Handler : Counting(h) => cnt_ < kCount
    /\ (\A h \in Handler : at[h] # "store") => prints = cnt_
    /\ cnt_ <= kCount

Inv == TypeOK /\ CountsOn /\ LastOne /\ InStrand

=============================================================================
