--------------------------- MODULE StudyLifecycle ---------------------------
(***************************************************************************)
(* What the study promises about a session, with no handlers, locks or     *)
(* log: it starts active on step 0, moves between steps only while it is   *)
(* active, and ends once, as completed or as abandoned.  A session counts  *)
(* as completed, and so as having used up its task set, only if it has     *)
(* stood on the last step.                                                 *)
(***************************************************************************)
EXTENDS Naturals

CONSTANTS Sessions, LastStep

VARIABLES status, step, reached

lvars == <<status, step, reached>>

LInit ==
    /\ status = [s \in Sessions |-> "none"]
    /\ step = [s \in Sessions |-> 0]
    /\ reached = [s \in Sessions |-> FALSE]

Start(s) ==
    /\ status[s] = "none"
    /\ status' = [status EXCEPT ![s] = "active"]
    /\ reached' = [reached EXCEPT ![s] = step[s] = LastStep]
    /\ UNCHANGED step

Move(s) ==
    /\ status[s] = "active"
    /\ \E i \in (0..LastStep) \ {step[s]} :
         /\ step' = [step EXCEPT ![s] = i]
         /\ reached' = [reached EXCEPT ![s] = @ \/ i = LastStep]
    /\ UNCHANGED status

End(s) ==
    /\ status[s] = "active"
    /\ \/ status' = [status EXCEPT ![s] = "abandoned"]
       \/ reached[s] /\ status' = [status EXCEPT ![s] = "completed"]
    /\ UNCHANGED <<step, reached>>

LNext == \E s \in Sessions : Start(s) \/ Move(s) \/ End(s)

LSpec == LInit /\ [][LNext]_lvars
=============================================================================
