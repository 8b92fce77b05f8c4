---------------------------- MODULE MCReminders ----------------------------
(* The instance of Reminders that TLC checks: the values of the constants   *)
(* are in the configuration, and every property is one of Reminders.        *)
EXTENDS Reminders
=============================================================================
