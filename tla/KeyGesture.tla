----------------------------- MODULE KeyGesture -----------------------------
(***************************************************************************)
(* What the user of one button may rely on, without clocks: a press is     *)
(* answered once, by a tap report when the button is let go early or by a  *)
(* hold report while it is still down; only a hold repeats; and the button *)
(* is idle again only after its press was answered, unless the device was  *)
(* reset.  KeypadDevice implements this for each of its keys.              *)
(***************************************************************************)
CONSTANTS TapReports, HoldReports, RepeatReports,
          Silent,    \* a step that reports nothing
          Cancelled  \* a reset

VARIABLES down,   \* the button is physically down
          phase,  \* "idle", "held", "holding" or "answered"
          report  \* what the last step reported

gestureVars == <<down, phase, report>>

GestureInit == ~down /\ phase = "idle" /\ report = Silent

User == down' = ~down /\ UNCHANGED phase /\ report' = Silent

Poll(from, to, reports) ==
    phase = from /\ phase' = to /\ report' \in reports /\ UNCHANGED down

Press  == down  /\ Poll("idle", "held", {Silent})
Tap    == ~down /\ Poll("held", "answered", TapReports)
Hold   == down  /\ Poll("held", "holding", HoldReports)
Repeat == down  /\ Poll("holding", "holding", RepeatReports)
LetGo  == ~down /\ Poll("holding", "idle", {Silent})
Settle == Poll("answered", "idle", {Silent})
Wait   == Poll(phase, phase, {Silent})
Cancel == Poll(phase, "idle", {Cancelled})

GestureNext ==
    User \/ Press \/ Tap \/ Hold \/ Repeat \/ LetGo \/ Settle \/ Wait \/ Cancel

GestureSpec == GestureInit /\ [][GestureNext]_gestureVars
=============================================================================
