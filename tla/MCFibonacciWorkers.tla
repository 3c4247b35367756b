------------------------- MODULE MCFibonacciWorkers -------------------------
(***************************************************************************)
(* Instances of FibonacciWorkers.                                          *)
(***************************************************************************)
EXTENDS FibonacciWorkers

\* The k-th Fibonacci number and the one after it.
Pair[k \in Nat] ==
  IF k = 0 THEN <<0, 1>>
  ELSE LET before == Pair[k - 1] IN <<before[2], before[1] + before[2]>>

FibonacciNumbers == [k \in 0..(MaxElement + 9) |-> Pair[k][1]]

\* A negative argument, a first element, the last element without loss, and one
\* that needs all rounds.
SomeElements == {-1, 3, 12, MaxElement}
=============================================================================
