----------------------------- MODULE MCBilling -----------------------------
(***************************************************************************)
(* Small instances of the billing service for TLC.                         *)
(***************************************************************************)
EXTENDS Billing, TLC

CONSTANTS tom, h1, h2

\* Every kind of amount the query parameter can hold: valid ones, a
\* negative one, something that is no number, and none at all.
AllAmounts == {-1, 1, 2, NotANumber, Missing}

\* Valid amounts and one that is no number.
FewAmounts == {1, 2, NotANumber}

\* The threads are interchangeable.
HandlerSymmetry == Permutations(Handlers)
=============================================================================
