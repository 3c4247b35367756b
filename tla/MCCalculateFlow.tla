-------------------------- MODULE MCCalculateFlow --------------------------
(***************************************************************************)
(* Small instances of the request flow for TLC.                            *)
(***************************************************************************)
EXTENDS CalculateFlow, TLC

CONSTANTS tom, r1, r2

Ask(op, amount, type) ==
  [op |-> op, user |-> tom, amount |-> amount, type |-> type]

Calculations == {Ask("calculate2", 1, "prime"), Ask("calculate2", 2, "add")}

\* Every way into the control center and every way out of calculate2.
AllBodies ==
  {Ask("createAccount", Malformed, "none"), Ask("deleteAccount", Malformed, "none"),
   Ask("depositAccount", 1, "none"),
   Ask("chargeAccount", 1, "none"), Ask("calculate2", 1, "prime"),
   Ask("calculate2", 1, "sqrt"), Ask("calculate2", Fractional, "add"),
   Ask("calculate2", Malformed, "add"), Ask("calculate2", 0, "add")}

\* The accounts at the start.
TomHas1 == tom :> 1
TomHas2 == tom :> 2
=============================================================================
