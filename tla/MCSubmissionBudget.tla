------------------------ MODULE MCSubmissionBudget -------------------------
(***************************************************************************)
(* Windows of two, three and five seconds and limits that every window     *)
(* reaches on its own: two short requests fill the minute, a long and a    *)
(* short one the hour, and the day outlasts the hour.                      *)
(***************************************************************************)
EXTENDS SubmissionBudget
=============================================================================
