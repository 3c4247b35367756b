------------------------ MODULE MCCalculationService ------------------------
(***************************************************************************)
(* An instance of CalculationService.                                      *)
(***************************************************************************)
EXTENDS CalculationService

\* A negative index, and the last element that is not computed.
FirstElements == {[type |-> "FIBONACCI", n |-> k] : k \in {-1, 6}}

Statuses == {200, 500, 502}
=============================================================================
