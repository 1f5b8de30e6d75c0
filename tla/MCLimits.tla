------------------------------- MODULE MCLimits -----------------------------
(***************************************************************************)
(* What is limited, on instances larger than the others bear: the runs a   *)
(* loop begins and what they cost, day after day, and the walk of          *)
(* add_lineage through a table that may have got a cycle.  The two share   *)
(* no variable, so each behaviour is of one of them, whichever it is.      *)
(***************************************************************************)
EXTENDS LoopDaemon, Lineage

VARIABLE subject   \* the one that acts

vars == <<subject, loopVars, lineageVars>>

\* Where one that does not act could start in several states, one of them is enough.
Init ==
  /\ subject \in {"loop", "lineage"}
  /\ LoopInit
  /\ LineageInit

\* A step of s: the others stay where they start.
Only(s) ==
  /\ subject = s /\ UNCHANGED subject
  /\ IF s = "loop" THEN TRUE ELSE UNCHANGED loopVars
  /\ IF s = "lineage" THEN TRUE ELSE UNCHANGED lineageVars

LoopActs == Only("loop") /\ LoopNext
LineageActs == Only("lineage") /\ LineageNext

Next ==
  \/ LoopActs
  \/ LineageActs

\* A call that walks goes on; of the loop nothing is asked but safety.
Spec ==
  /\ Init /\ [][Next]_vars
  /\ \A p \in Process : WF_lineageVars(subject = "lineage" /\ AddStep(p))

\* The bound.  What it cuts off stays excused for ever: neither of the two is ever
\* taken back.  A lineage is not affected.
Unexcused == ~overlapped /\ ~lossy
=============================================================================
