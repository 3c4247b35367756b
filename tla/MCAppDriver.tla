----------------------------- MODULE MCAppDriver -----------------------------
(***************************************************************************)
(* A small instance of the application driver.                             *)
(***************************************************************************)
EXTENDS AppDriver

CONSTANTS ruslan, ivan

TwoUsers == <<ruslan, ivan>>

\* A value that means to stop, one that does not, and none.
AllStopValues == {"true", "false", None}
=============================================================================
