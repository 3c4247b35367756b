--------------------------- MODULE MCPrimeWorkers ---------------------------
(***************************************************************************)
(* Small instances of the prime calculation for TLC.                       *)
(***************************************************************************)
EXTENDS PrimeWorkers

\* Every remainder modulo the number of threads occurs more than once, and
\* so do the limits that no @Min refuses.
SmallLimits == -4..11
=============================================================================
