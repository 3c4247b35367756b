----------------------------- MODULE MCAnalytics -----------------------------
(***************************************************************************)
(* An instance of the analytics service before the calculation service.    *)
(***************************************************************************)
EXTENDS Analytics, TLC

\* A function that exists, with calculations under way, and one that does not.
Asked == {"ADD", "SQRT"}

\* A call that looks at the settings first, one that calculates first, as prime
\* does, too, for a number of fibonacci that may be lost and for one of the first
\* elements, and the calls of the analytics service.
MixedJobs == {[type |-> "ADD", n |-> 0], [type |-> "FIBONACCI", n |-> 13],
              [type |-> "FIBONACCI", n |-> 6]}
             \cup {[type |-> "WORKLOAD", of |-> t] : t \in Asked}

Setting(code, freq, calculate) ==
  [responseCode |-> code, frequency |-> freq, shouldCalculate |-> calculate]

\* Bound: two calculations overlap, and the query with them, as long as no setting
\* changes; one overlaps with the query and with changes that overlap themselves.
TwoOrChanges ==
  \/ Cardinality({c \in Calls \ Requests : ~At(c, "new")}) <= 1
  \/ \A f \in Faults : fault[f].at = "new"

\* A status that does not exist, for half of the calls, with calculations switched
\* off, and one that does, for all calls, with calculations switched on.
AllSettings == {Setting(999, 2, FALSE), Setting(502, 0, TRUE)}

Statuses == {200, 500, 502}
Extremes == {0, 20}
CallSymmetry == Permutations(Calls \ Requests) \cup Permutations(Faults)
                \cup Permutations(Versions)
=============================================================================
