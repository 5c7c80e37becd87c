----------------------------- MODULE MCDllStreak ----------------------------
(***************************************************************************)
(* Dll with a history variable: how many frames in a row were refused.     *)
(***************************************************************************)
EXTENDS Dll

VARIABLE streak   \* refused frames (bad or overdue) since the last good one

StreakInit == Init /\ streak = 0

StreakNext ==
  /\ Next
  /\ streak' = CASE out'.frame = "good" -> 0
                 [] out'.frame = "bad"  -> IF streak < Threshold THEN streak + 1 ELSE streak
                 [] OTHER -> streak

StreakSpec == StreakInit /\ [][StreakNext]_<<vars, streak>>

FairStreakSpec == StreakSpec /\ Fairness

(* Every valid frame of cyclic exchange clears the count of fallbacks, so  *)
(* a device leaves OPERATE for SIO mode on refused frames only after       *)
(* Threshold of them in a row.                                             *)
OperateFallbacksAreConsecutive ==
  [][state = "OPERATE" /\ state' # "OPERATE" /\ out'.frame = "bad"
       => streak' = Threshold]_<<vars, streak>>

=============================================================================
