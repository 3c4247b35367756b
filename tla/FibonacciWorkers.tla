-------------------------- MODULE FibonacciWorkers --------------------------
(***************************************************************************)
(* One call of calculateFibonacci (Controller.java): in every round three  *)
(* threads (Fibonacci.java) compute the next three numbers and put them    *)
(* into one HashMap without a lock; then the map is cut down to its last   *)
(* seven entries, if it says that it has more than fourteen.               *)
(*                                                                         *)
(* The entries that puts can lose depend on the steps of HashMap.put: the  *)
(* node goes into the table that was read before, the size is incremented  *)
(* by a read and a write, and the table doubles when the size exceeds      *)
(* three quarters of its capacity.  The keys of a round are consecutive,   *)
(* so that their nodes never meet in one bin.                              *)
(***************************************************************************)
EXTENDS Integers, FiniteSets

CONSTANTS
  Elements,    \* the arguments of the calls
  MaxElement,  \* bound: the largest of them
  Fib,         \* the Fibonacci numbers
  Null

ASSUME FibonacciAssumption ==
  /\ MaxElement \in Nat /\ MaxElement >= 4
  /\ Elements \subseteq Int /\ \A e \in Elements : e <= MaxElement
  /\ Fib \in [0..(MaxElement + 9) -> Nat]
  /\ Fib[0] = 0 /\ Fib[1] = 1
  /\ \A k \in 2..(MaxElement + 9) : Fib[k] = Fib[k - 1] + Fib[k - 2]
  /\ Null \notin Nat

VARIABLES
  n, i,        \* the argument and the index that the round begins with
  pc,          \* where calculateFibonacci is
  result,      \* what it returns
  fibMap,      \* the entries that can be found
  size,        \* the field of that name of fibMap
  capacity,    \* the length of the table of fibMap
  table,       \* the number of tables that fibMap has got in this round
  at,          \* at[w]: where thread w is
  par,         \* par[w]: its parameters n-3 and n-6
  tab,         \* tab[w]: the table it uses
  count,       \* count[w]: the size or the capacity that it has read
  lost         \* history: the keys whose entries a resize has lost

vars == <<n, i, pc, result, fibMap, size, capacity, table, at, par, tab, count, lost>>

Workers == 0..2
Idle == [w \in Workers |-> "done"]
Zeros == [w \in Workers |-> 0]

fillFirstElements == <<0, 1, 1, 2, 3, 5, 8>>

Init ==
  /\ n \in Elements /\ i = 7
  /\ pc = "begin" /\ result = Null
  /\ fibMap = [k \in 0..6 |-> fillFirstElements[k + 1]]
  /\ size = 7 /\ capacity = 16 /\ table = 0
  /\ at = Idle /\ par = [w \in Workers |-> <<Null, Null>>]
  /\ tab = Zeros /\ count = Zeros
  /\ lost = {}

get(k) == IF k \in DOMAIN fibMap THEN fibMap[k] ELSE Null

-----------------------------------------------------------------------------
(* calculateFibonacci.                                                     *)

Return ==
  /\ pc' = "done"
  /\ result' = get(n)
  /\ UNCHANGED <<n, i, fibMap, size, capacity, table, at, par, tab, count, lost>>

\* The first elements, and null for a negative n.
Begin ==
  /\ pc = "begin"
  /\ \/ n < 7 /\ Return
     \/ /\ n >= 7
        /\ pc' = "round"
        /\ UNCHANGED <<n, i, result, fibMap, size, capacity, table, at, par,
                       tab, count, lost>>

\* All parameters are read before the first thread starts.
Spawn ==
  /\ pc = "round"
  /\ i <= n
  /\ pc' = "join"
  /\ at' = [w \in Workers |-> "ready"]
  /\ par' = [w \in Workers |-> <<get(i + w - 3), get(i + w - 6)>>]
  /\ UNCHANGED <<n, i, result, fibMap, size, capacity, table, tab, count, lost>>

Finish == pc = "round" /\ i > n /\ Return

\* A mutant of Joined: the third join is forgotten.
JoinedTwo == at[0] = "done" /\ at[1] = "done"

Joined == \A w \in Workers : at[w] = "done"

\* A mutant of Trim: the map is not cleared.
TrimUncleared(last) ==
  /\ fibMap' = [k \in DOMAIN fibMap \cup (last - 6)..last |-> get(k)]
  /\ size' = size

\* The last seven elements replace the map, those that are missing as null.
Trim(last) ==
  /\ fibMap' = [k \in (last - 6)..last |-> get(k)]
  /\ size' = 7

\* A mutant of Step: the loop variable is incremented in the head only.
StepTwo == 2

\* i += 2 in the body of the loop and i += 1 in its head.
Step == 3

Join ==
  /\ pc = "join"
  /\ Joined
  /\ pc' = "round"
  /\ i' = i + Step
  /\ IF size > 14 THEN Trim(i + 2) ELSE UNCHANGED <<fibMap, size>>
  /\ table' = 0 /\ tab' = Zeros /\ count' = Zeros
  /\ at' = Idle /\ par' = [w \in Workers |-> <<Null, Null>>]
  /\ UNCHANGED <<n, result, capacity, lost>>

-----------------------------------------------------------------------------
(* The threads: run, and what it does inside of HashMap.put.               *)

Goto(w, place) == at' = [at EXCEPT ![w] = place]

\* A mutant of run: the thread spins until its parameters are there.
RunSpins(w) ==
  /\ at[w] = "ready"
  /\ Goto(w, IF Null \in {par[w][1], par[w][2]} THEN "ready" ELSE "place")
  /\ tab' = [tab EXCEPT ![w] = table]
  /\ UNCHANGED <<n, i, pc, result, fibMap, size, capacity, table, par, count, lost>>

\* A missing parameter is a NullPointerException, which ends the thread.
run(w) ==
  /\ at[w] = "ready"
  /\ Goto(w, IF Null \in {par[w][1], par[w][2]} THEN "done" ELSE "place")
  /\ tab' = [tab EXCEPT ![w] = table]
  /\ UNCHANGED <<n, i, pc, result, fibMap, size, capacity, table, par, count, lost>>

Value(w) == 4 * par[w][1] + par[w][2]

\* A node that goes into a table that is being replaced may be left behind.
Place(w) ==
  /\ at[w] = "place"
  /\ \/ /\ fibMap' = [k \in DOMAIN fibMap \cup {i + w} |->
                        IF k = i + w THEN Value(w) ELSE fibMap[k]]
        /\ UNCHANGED lost
     \/ /\ tab[w] # table
        /\ lost' = lost \cup {i + w}
        /\ UNCHANGED fibMap
  /\ Goto(w, "read")
  /\ UNCHANGED <<n, i, pc, result, size, capacity, table, par, tab, count>>

ReadSize(w) ==
  /\ at[w] = "read"
  /\ count' = [count EXCEPT ![w] = size]
  /\ Goto(w, "write")
  /\ UNCHANGED <<n, i, pc, result, fibMap, size, capacity, table, par, tab, lost>>

WriteSize(w) ==
  /\ at[w] = "write"
  /\ size' = count[w] + 1
  /\ Goto(w, "test")
  /\ UNCHANGED <<n, i, pc, result, fibMap, capacity, table, par, tab, count, lost>>

Threshold == (capacity * 3) \div 4

\* resize begins with the capacity of the table that it is to replace.
TestSize(w) ==
  /\ at[w] = "test"
  /\ \/ /\ count[w] + 1 <= Threshold
        /\ Goto(w, "done")
        /\ UNCHANGED count
     \/ /\ count[w] + 1 > Threshold
        /\ Goto(w, "resize")
        /\ count' = [count EXCEPT ![w] = capacity]
  /\ UNCHANGED <<n, i, pc, result, fibMap, size, capacity, table, par, tab, lost>>

\* The new table is published before the nodes are moved into it.
Publish(w) ==
  /\ at[w] = "resize"
  /\ capacity' = 2 * count[w]
  /\ table' = table + 1
  /\ Goto(w, "move")
  /\ UNCHANGED <<n, i, pc, result, fibMap, size, par, tab, count, lost>>

\* The elements that later rounds, or the caller, may still ask for.
Needed == DOMAIN fibMap \cap ((i - 3)..(i + 2))

\* Two threads that move the nodes of one table can lose any of them.
Move(w) ==
  /\ at[w] = "move"
  /\ \E gone \in SUBSET Needed :
       /\ gone # {} => \E u \in Workers \ {w} : at[u] \in {"resize", "move"}
       /\ fibMap' = [k \in DOMAIN fibMap \ gone |-> fibMap[k]]
       /\ lost' = lost \cup gone
  /\ Goto(w, "done")
  /\ UNCHANGED <<n, i, pc, result, size, capacity, table, par, tab, count>>

-----------------------------------------------------------------------------

put(w) ==
  Place(w) \/ ReadSize(w) \/ WriteSize(w) \/ TestSize(w) \/ Publish(w) \/ Move(w)

calculateFibonacci == Begin \/ Spawn \/ Join \/ Finish

Done == pc = "done" /\ UNCHANGED vars

Next == calculateFibonacci \/ (\E w \in Workers : run(w) \/ put(w)) \/ Done

\* The threads are scheduled.
Fairness ==
  /\ WF_vars(calculateFibonacci)
  /\ \A w \in Workers : WF_vars(run(w) \/ put(w))

Spec == Init /\ [][Next]_vars /\ Fairness

-----------------------------------------------------------------------------

\* The variables keep their types, and every round begins three elements after
\* the one before.
TypeOK ==
  /\ n \in Elements
  /\ i \in {k \in 7..(MaxElement + 3) : k % 3 = 1}
  /\ pc \in {"begin", "round", "join", "done"}
  /\ result \in Nat \cup {Null}
  /\ DOMAIN fibMap \subseteq 0..(i + 2)
  /\ \A k \in DOMAIN fibMap : fibMap[k] \in Nat \cup {Null}
  /\ size \in Nat /\ capacity \in Nat /\ table \in Nat
  /\ at \in [Workers -> {"ready", "place", "read", "write", "test", "resize",
                         "move", "done"}]
  /\ par \in [Workers -> (Nat \cup {Null}) \X (Nat \cup {Null})]
  /\ tab \in [Workers -> Nat] /\ count \in [Workers -> Nat]
  /\ lost \subseteq 0..(i + 2)

\* calculateFibonacci never returns a wrong number, however its threads race
\* in the map: the n-th Fibonacci number, or null for a negative n, or null
\* because a resize lost an entry, which no n below 13 allows.
RightUnlessLost ==
  pc = "done" =>
    \/ n < 0 /\ result = Null
    \/ n >= 0 /\ result = Fib[n]
    \/ n > 12 /\ lost # {} /\ result = Null

\* The map stays small although increments of its size get lost: every round
\* that adds entries is counted at least once, so that the map has at most
\* three times as many new ones as it knows of when it is cut down.
MapStaysSmall ==
  pc = "round" =>
    /\ size <= 14
    /\ Cardinality(DOMAIN fibMap) - 7 <= 3 * (size - 7)

\* The call returns although threads die of missing parameters.
FibReturns == <>(pc = "done")
=============================================================================
