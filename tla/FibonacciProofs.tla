--------------------------- MODULE FibonacciProofs ---------------------------
(***************************************************************************)
(* Theorems about calculateFibonacci, for every argument: what its racing  *)
(* threads can return, and how large the map can grow.                     *)
(***************************************************************************)
EXTENDS FibonacciWorkers, FiniteSetTheorems, TLAPS

-----------------------------------------------------------------------------
(* Type correctness.                                                       *)

\* The argument is one of those allowed, and bounds the rounds.
LEMMA ElementBound == n \in Elements => n \in Int /\ n <= MaxElement
BY FibonacciAssumption

\* The types, and where the threads, the rounds and the argument stand.
TypeInv ==
  /\ TypeOK
  /\ pc = "begin" => i = 7 /\ fibMap = [k \in 0..6 |-> fillFirstElements[k + 1]]
  /\ pc = "round" => 7 <= n /\ i - 3 <= n
  /\ pc = "join" => i <= n
  /\ pc # "join" => at = Idle
  /\ \A w \in Workers : at[w] = "place" => par[w] \in Nat \X Nat

\* TypeInv holds at the start.
LEMMA TypeInit == Init => TypeInv
<1> SUFFICES ASSUME Init
             PROVE  TypeInv
  OBVIOUS
<1>1. \A k \in 0..6 : fillFirstElements[k + 1] \in Nat
  BY DEF fillFirstElements
<1>2. 7 % 3 = 1 /\ MaxElement \in Nat /\ MaxElement >= 4
  BY FibonacciAssumption
<1>3. /\ DOMAIN fibMap \subseteq 0..(i + 2)
      /\ \A k \in DOMAIN fibMap : fibMap[k] \in Nat \cup {Null}
  BY <1>1 DEF Init
<1>4. i \in {k \in 7..(MaxElement + 3) : k % 3 = 1}
  BY <1>2 DEF Init
<1>5. par \in [Workers -> (Nat \cup {Null}) \X (Nat \cup {Null})]
  BY DEF Init
<1>6. TypeOK
  BY <1>3, <1>4, <1>5 DEF Init, TypeOK, Idle, Zeros
<1> QED
  BY <1>6 DEF Init, TypeInv, Idle

\* What get returns is a number or null.
LEMMA GetType == ASSUME TypeOK, NEW k PROVE get(k) \in Nat \cup {Null}
BY DEF TypeOK, get

\* The calling thread keeps the types.
LEMMA MainType ==
  ASSUME TypeInv, calculateFibonacci
  PROVE  TypeInv'
<1> USE DEF TypeInv
<1>1. CASE Begin
  <2>1. CASE Return
    BY <1>1, <2>1, GetType DEF Begin, Return, TypeOK
  <2>2. CASE n >= 7 /\ pc' = "round" /\
             UNCHANGED <<n, i, result, fibMap, size, capacity, table, at, par,
                         tab, count, lost>>
    BY <1>1, <2>2, ElementBound DEF Begin, TypeOK
  <2> QED
    BY <1>1, <2>1, <2>2 DEF Begin
<1>2. CASE Spawn
  <2>1. par' \in [Workers -> (Nat \cup {Null}) \X (Nat \cup {Null})]
    BY <1>2, GetType DEF Spawn
  <2> QED
    BY <1>2, <2>1 DEF Spawn, TypeOK, Workers
<1>3. CASE Join
  <2>1. i + 3 \in {k \in 7..(MaxElement + 3) : k % 3 = 1}
    <3>1. i \in Nat /\ i >= 7 /\ i <= n /\ i % 3 = 1 /\ pc = "join"
      BY <1>3 DEF Join, TypeOK
    <3>2. (i + 3) % 3 = 1
      BY <3>1
    <3> QED
      BY <3>1, <3>2, ElementBound, FibonacciAssumption DEF TypeOK
  <2>2. /\ DOMAIN fibMap' \subseteq 0..(i + 2)
        /\ \A k \in DOMAIN fibMap' : fibMap'[k] \in Nat \cup {Null}
        /\ size' \in Nat
    <3>1. CASE UNCHANGED <<fibMap, size>>
      BY <3>1 DEF TypeOK
    <3>2. CASE Trim(i + 2)
      BY <3>2, GetType DEF TypeOK, Trim
    <3> QED
      BY <1>3, <3>1, <3>2 DEF Join
  <2>3. DOMAIN fibMap' \subseteq 0..(i + 3 + 2) /\ lost \subseteq 0..(i + 3 + 2)
    BY <2>2 DEF TypeOK
  <2>4. /\ n \in Int /\ i <= n /\ 7 <= n /\ i' = i + 3
    BY <1>3, ElementBound DEF Join, Step, TypeOK
  <2> QED
    BY <1>3, <2>1, <2>2, <2>3, <2>4 DEF Join, TypeOK, Workers, Zeros, Idle
<1>4. CASE Finish
  BY <1>4, GetType DEF Finish, Return, TypeOK
<1> QED
  BY <1>1, <1>2, <1>3, <1>4 DEF calculateFibonacci

\* The threads keep the types.
LEMMA WorkerType ==
  ASSUME TypeInv, NEW w \in Workers, run(w) \/ put(w)
  PROVE  TypeInv'
<1> USE DEF TypeInv, Goto
<1>1. pc = "join"
  BY DEF Idle, run, put, Place, ReadSize, WriteSize, TestSize, Publish, Move
<1>2. CASE run(w)
  <2>1. Null \notin {par[w][1], par[w][2]} => par[w] \in Nat \X Nat
    BY DEF TypeOK
  <2>2. at' \in [Workers -> {"place", "done"} \cup
                   {"ready", "read", "write", "test", "resize", "move"}]
    BY <1>2 DEF run, TypeOK
  <2> QED
    BY <1>1, <1>2, <2>1, <2>2 DEF run, TypeOK
<1>3. CASE Place(w)
  <2>1. Value(w) \in Nat
    BY <1>3 DEF Place, Value
  <2>2. /\ DOMAIN fibMap' \subseteq 0..(i + 2)
        /\ \A k \in DOMAIN fibMap' : fibMap'[k] \in Nat \cup {Null}
        /\ lost' \subseteq 0..(i + 2)
    <3>1. i + w \in 0..(i + 2)
      BY DEF TypeOK, Workers
    <3> QED
      BY <1>3, <2>1, <3>1 DEF Place, TypeOK
  <2> QED
    BY <1>1, <1>3, <2>2 DEF Place, TypeOK
<1>4. CASE ReadSize(w)
  BY <1>1, <1>4 DEF ReadSize, TypeOK
<1>5. CASE WriteSize(w)
  BY <1>1, <1>5 DEF WriteSize, TypeOK
<1>6. CASE TestSize(w)
  BY <1>1, <1>6, SMTT(20) DEF TestSize, TypeOK
<1>7. CASE Publish(w)
  BY <1>1, <1>7 DEF Publish, TypeOK
<1>8. CASE Move(w)
  <2>1. PICK gone \in SUBSET Needed :
          /\ fibMap' = [k \in DOMAIN fibMap \ gone |-> fibMap[k]]
          /\ lost' = lost \cup gone
    BY <1>8 DEF Move
  <2>2. gone \subseteq 0..(i + 2)
    BY DEF Needed, TypeOK
  <2> QED
    BY <1>1, <1>8, <2>1, <2>2 DEF Move, TypeOK
<1> QED
  BY <1>2, <1>3, <1>4, <1>5, <1>6, <1>7, <1>8 DEF put

\* The inductive step of type correctness.
LEMMA TypeStep == TypeInv /\ [Next]_vars => TypeInv'
<1> SUFFICES ASSUME TypeInv, [Next]_vars
             PROVE  TypeInv'
  OBVIOUS
<1>1. CASE UNCHANGED vars
  BY <1>1 DEF TypeInv, TypeOK, vars
<1> QED
  BY <1>1, MainType, WorkerType DEF Next, Done

\* Every reachable state of a call is well-typed; its rounds begin at every
\* third element and do not go past the argument.
THEOREM FibTypeCorrect == Spec => []TypeOK
<1>1. TypeInv => TypeOK
  BY DEF TypeInv
<1> QED
  BY <1>1, TypeInit, TypeStep, PTL DEF Spec

\* The parts of the assumption on the numbers.
LEMMA Numbers ==
  /\ MaxElement \in Nat
  /\ \A k \in 0..(MaxElement + 9) : Fib[k] \in Nat
  /\ \A k \in 2..(MaxElement + 9) : Fib[k] = Fib[k - 1] + Fib[k - 2]
  /\ Fib[0] = 0 /\ Fib[1] = 1
BY FibonacciAssumption

-----------------------------------------------------------------------------
(* Right numbers.                                                          *)

\* The formula of Fibonacci.java.
LEMMA Formula ==
  ASSUME NEW k \in 6..(MaxElement + 9)
  PROVE  Fib[k] = 4 * Fib[k - 3] + Fib[k - 6]
<1>1. ASSUME NEW j \in 0..4
      PROVE  Fib[k - j] = Fib[k - (j + 1)] + Fib[k - (j + 2)]
  <2>1. k - j \in 2..(MaxElement + 9)
    BY Numbers
  <2>2. (k - j) - 1 = k - (j + 1) /\ (k - j) - 2 = k - (j + 2)
    OBVIOUS
  <2>3. Fib[k - j] = Fib[(k - j) - 1] + Fib[(k - j) - 2]
    BY <2>1, Numbers
  <2> QED
    BY <2>2, <2>3
<1>2. ASSUME NEW j \in 0..6
      PROVE  Fib[k - j] \in Nat
  <2>1. k - j \in 0..(MaxElement + 9)
    BY Numbers
  <2> QED
    BY <2>1, Numbers
<1>3. Fib[k - 0] = Fib[k - 1] + Fib[k - 2]
  BY <1>1
<1>4. Fib[k - 1] = Fib[k - 2] + Fib[k - 3]
  BY <1>1
<1>5. Fib[k - 2] = Fib[k - 3] + Fib[k - 4]
  BY <1>1
<1>6. Fib[k - 3] = Fib[k - 4] + Fib[k - 5]
  BY <1>1
<1>7. Fib[k - 4] = Fib[k - 5] + Fib[k - 6]
  BY <1>1
<1>8. /\ Fib[k - 1] \in Nat /\ Fib[k - 2] \in Nat /\ Fib[k - 3] \in Nat
      /\ Fib[k - 4] \in Nat /\ Fib[k - 5] \in Nat /\ Fib[k - 6] \in Nat
  BY <1>2
<1>9. k - 0 = k
  OBVIOUS
<1> QED
  BY <1>3, <1>4, <1>5, <1>6, <1>7, <1>8, <1>9

\* v is the k-th number, or null after a loss.
Right(k, v) == v = Fib[k] \/ (v = Null /\ lost # {})

\* The k-th number is in the map, unless entries have been lost.
Kept(k) == k \in DOMAIN fibMap \/ lost # {}

\* What thread w was given, and what it leaves behind.
WorkerRight(w) ==
  /\ at[w] \in {"ready", "place"} =>
       Right(i + w - 3, par[w][1]) /\ Right(i + w - 6, par[w][2])
  /\ at[w] \notin {"ready", "place"} => Kept(i + w)

\* The invariant behind RightUnlessLost: all entries are right, and without a
\* loss none that is still asked for is missing.
RightInv ==
  /\ \A k \in DOMAIN fibMap : Right(k, fibMap[k])
  /\ \A k \in (i - 6)..(i - 1) : Kept(k)
  /\ pc = "join" => \A w \in Workers : WorkerRight(w)
  /\ pc = "done" => (n < 0 /\ result = Null) \/ (n >= 0 /\ Right(n, result))

\* RightInv holds at the start.
LEMMA RightInit == Init => RightInv
<1> SUFFICES ASSUME Init
             PROVE  RightInv
  OBVIOUS
<1>1. /\ Fib[0] = 0 /\ Fib[1] = 1 /\ Fib[2] = 1 /\ Fib[3] = 2 /\ Fib[4] = 3
      /\ Fib[5] = 5 /\ Fib[6] = 8
  <2>1. \A k \in 2..6 : Fib[k] = Fib[k - 1] + Fib[k - 2]
    <3>1. \A k \in 2..6 : k \in 2..(MaxElement + 9)
      BY Numbers
    <3> QED
      BY <3>1, Numbers
  <2>2. Fib[2] = Fib[1] + Fib[0]
    BY <2>1
  <2>3. Fib[3] = Fib[2] + Fib[1]
    BY <2>1
  <2>4. Fib[4] = Fib[3] + Fib[2]
    BY <2>1
  <2>5. Fib[5] = Fib[4] + Fib[3]
    BY <2>1
  <2>6. Fib[6] = Fib[5] + Fib[4]
    BY <2>1
  <2> QED
    BY <2>2, <2>3, <2>4, <2>5, <2>6, Numbers
<1>2. \A k \in 0..6 : fillFirstElements[k + 1] = Fib[k]
  <2>1. \A k \in 0..6 : k \in {0, 1, 2, 3, 4, 5, 6}
    OBVIOUS
  <2> QED
    BY <1>1, <2>1 DEF fillFirstElements
<1> QED
  BY <1>2 DEF Init, RightInv, Right, Kept

\* A number that is in the map or has been lost is read as it should be.
LEMMA GetRight ==
  ASSUME RightInv, NEW k, Kept(k)
  PROVE  Right(k, get(k))
BY DEF RightInv, Right, Kept, get

\* The calling thread returns what is right, and hands out what is right.
LEMMA MainRight ==
  ASSUME TypeInv, RightInv, calculateFibonacci
  PROVE  RightInv'
<1>1. UNCHANGED lost
  BY DEF calculateFibonacci, Begin, Return, Spawn, Join, Finish
<1>2. i \in Int /\ i >= 7 /\ n \in Int
  BY ElementBound DEF TypeInv, TypeOK
<1>3. ASSUME Return, n < 0 \/ Kept(n), n < 0 => n \notin DOMAIN fibMap
      PROVE  RightInv'
  <2>1. CASE n < 0
    BY <1>3, <2>1 DEF Return, RightInv, Right, Kept, get
  <2>2. CASE n >= 0
    <3>1. Right(n, get(n))
      BY <1>2, <1>3, <2>2, GetRight
    <3> QED
      BY <1>2, <1>3, <2>2, <3>1 DEF Return, RightInv, Right, Kept
  <2> QED
    BY <1>2, <2>1, <2>2
<1>4. CASE Begin
  <2>1. CASE n < 7 /\ Return
    <3>1. DOMAIN fibMap = 0..6
      BY <1>4 DEF Begin, TypeInv
    <3> QED
      BY <1>2, <1>3, <2>1, <3>1 DEF Kept
  <2>2. CASE UNCHANGED <<n, i, result, fibMap>> /\ pc' = "round"
    BY <1>1, <2>2 DEF RightInv, Right, Kept
  <2> QED
    BY <1>4, <2>1, <2>2 DEF Begin
<1>5. CASE Finish
  <2>1. n \in (i - 6)..(i - 1) /\ n >= 0
    BY <1>2, <1>5 DEF Finish, TypeInv
  <2> QED
    BY <1>3, <1>5, <2>1 DEF Finish, RightInv
<1>6. CASE Spawn
  <2>1. ASSUME NEW w \in Workers
        PROVE  Right(i + w - 3, get(i + w - 3)) /\ Right(i + w - 6, get(i + w - 6))
    <3>1. i + w - 3 \in (i - 6)..(i - 1) /\ i + w - 6 \in (i - 6)..(i - 1)
      BY <1>2 DEF Workers
    <3> QED
      BY <3>1, GetRight DEF RightInv
  <2>2. \A w \in Workers :
          /\ at'[w] = "ready"
          /\ par'[w][1] = get(i + w - 3) /\ par'[w][2] = get(i + w - 6)
    BY <1>6 DEF Spawn
  <2> QED
    BY <1>1, <1>6, <2>1, <2>2 DEF Spawn, RightInv, WorkerRight, Right, Kept
<1>7. CASE Join
  <2>1. \A k \in (i - 6)..(i + 2) : Kept(k)
    <3>1. \A w \in Workers : Kept(i + w)
      BY <1>7 DEF Join, Joined, RightInv, WorkerRight
    <3>2. ASSUME NEW k \in i..(i + 2)
          PROVE  Kept(k)
      <4>1. k - i \in Workers /\ i + (k - i) = k
        BY <1>2 DEF Workers
      <4> QED
        BY <3>1, <4>1
    <3> QED
      BY <1>2, <3>2 DEF RightInv
  <2>2. /\ \A k \in DOMAIN fibMap' : Right(k, fibMap'[k])
        /\ \A k \in (i - 3)..(i + 2) : k \in DOMAIN fibMap' \/ lost # {}
    <3>1. CASE UNCHANGED fibMap
      BY <1>2, <2>1, <3>1 DEF RightInv, Kept
    <3>2. CASE Trim(i + 2)
      <4>1. fibMap' = [k \in (i - 4)..(i + 2) |-> get(k)]
        BY <1>2, <3>2 DEF Trim
      <4>2. \A k \in (i - 4)..(i + 2) : Right(k, get(k))
        BY <1>2, <2>1, GetRight
      <4> QED
        BY <1>2, <4>1, <4>2
    <3> QED
      BY <1>7, <3>1, <3>2 DEF Join
  <2>3. i' = i + 3 /\ pc' = "round"
    BY <1>7 DEF Join, Step
  <2> QED
    BY <1>1, <1>2, <2>2, <2>3 DEF RightInv, Right, Kept
<1> QED
  BY <1>4, <1>5, <1>6, <1>7 DEF calculateFibonacci

\* A step of a thread that leaves the map and its own parameters alone.
LEMMA InnerRight ==
  ASSUME TypeInv, RightInv, NEW w \in Workers,
         UNCHANGED <<n, i, pc, result, fibMap, par, lost>>,
         \A u \in Workers \ {w} : at'[u] = at[u],
         \/ at[w] = "ready" /\ at'[w] = "place"
         \/ at[w] \notin {"ready", "place"} /\ at'[w] \notin {"ready", "place"}
  PROVE  RightInv'
BY DEF RightInv, WorkerRight, Right, Kept

\* A thread puts the right number, or none if it was given none.
LEMMA WorkerKeepsRight ==
  ASSUME TypeInv, RightInv, NEW w \in Workers, run(w) \/ put(w)
  PROVE  RightInv'
<1>1. pc = "join"
  BY DEF TypeInv, Idle, run, put, Place, ReadSize, WriteSize, TestSize, Publish, Move
<1>2. /\ i \in Int /\ i >= 7 /\ i <= MaxElement + 3
      /\ MaxElement \in Nat /\ w \in 0..2
  BY FibonacciAssumption DEF TypeInv, TypeOK, Workers
<1>3. CASE run(w)
  <2>1. CASE Null \in {par[w][1], par[w][2]}
    <3>1. i + w - 3 \in 0..(MaxElement + 9) /\ i + w - 6 \in 0..(MaxElement + 9)
      BY <1>2
    <3>2. Fib[i + w - 3] # Null /\ Fib[i + w - 6] # Null
      BY <3>1, FibonacciAssumption
    <3>3. lost # {}
      BY <1>1, <1>3, <2>1, <3>2 DEF run, RightInv, WorkerRight, Right
    <3>4. /\ at'[w] = "done" /\ \A u \in Workers \ {w} : at'[u] = at[u]
          /\ UNCHANGED <<n, i, pc, result, fibMap, par, lost>>
      BY <1>3, <2>1 DEF run, Goto, TypeInv, TypeOK
    <3> QED
      BY <3>3, <3>4 DEF RightInv, WorkerRight, Right, Kept
  <2>2. CASE Null \notin {par[w][1], par[w][2]}
    BY <1>3, <2>2, InnerRight DEF run, Goto, TypeInv, TypeOK
  <2> QED
    BY <2>1, <2>2
<1>4. CASE Place(w)
  <2>1. /\ at'[w] = "read" /\ at[w] = "place"
        /\ \A u \in Workers \ {w} : at'[u] = at[u]
        /\ UNCHANGED <<n, i, pc, result, par>>
    BY <1>4 DEF Place, Goto, TypeInv, TypeOK
  <2>2. CASE lost' = lost \cup {i + w} /\ UNCHANGED fibMap
    BY <2>1, <2>2 DEF RightInv, WorkerRight, Right, Kept
  <2>3. CASE /\ fibMap' = [k \in DOMAIN fibMap \cup {i + w} |->
                             IF k = i + w THEN Value(w) ELSE fibMap[k]]
             /\ UNCHANGED lost
    <3>1. Value(w) = Fib[i + w]
      <4>1. par[w][1] = Fib[i + w - 3] /\ par[w][2] = Fib[i + w - 6]
        <5>1. par[w] \in Nat \X Nat
          BY <2>1 DEF TypeInv
        <5>2. par[w][1] # Null /\ par[w][2] # Null
          BY <5>1, FibonacciAssumption
        <5> QED
          BY <1>1, <2>1, <5>2 DEF RightInv, WorkerRight, Right
      <4>2. i + w \in 6..(MaxElement + 9)
        BY <1>2
      <4>3. Fib[i + w] = 4 * Fib[i + w - 3] + Fib[i + w - 6]
        <5>1. (i + w) - 3 = i + w - 3 /\ (i + w) - 6 = i + w - 6
          BY <1>2
        <5> QED
          BY <4>2, <5>1, Formula
      <4> QED
        BY <4>1, <4>3 DEF Value
    <3>2. \A k \in DOMAIN fibMap' : Right(k, fibMap'[k])
      BY <2>3, <3>1 DEF RightInv, Right
    <3>3. i + w \in DOMAIN fibMap' /\ DOMAIN fibMap \subseteq DOMAIN fibMap'
      BY <2>3
    <3> QED
      BY <1>1, <2>1, <2>3, <3>2, <3>3 DEF RightInv, WorkerRight, Right, Kept
  <2> QED
    BY <1>4, <2>2, <2>3 DEF Place
<1>5. CASE ReadSize(w)
  BY <1>5, InnerRight DEF ReadSize, Goto, TypeInv, TypeOK
<1>6. CASE WriteSize(w)
  BY <1>6, InnerRight DEF WriteSize, Goto, TypeInv, TypeOK
<1>7. CASE TestSize(w)
  BY <1>7, InnerRight DEF TestSize, Goto, TypeInv, TypeOK
<1>8. CASE Publish(w)
  BY <1>8, InnerRight DEF Publish, Goto, TypeInv, TypeOK
<1>9. CASE Move(w)
  <2>1. PICK gone \in SUBSET Needed :
          /\ fibMap' = [k \in DOMAIN fibMap \ gone |-> fibMap[k]]
          /\ lost' = lost \cup gone
    BY <1>9 DEF Move
  <2>2. /\ at'[w] = "done" /\ at[w] = "move"
        /\ \A u \in Workers \ {w} : at'[u] = at[u]
        /\ UNCHANGED <<n, i, pc, result, par>>
    BY <1>9 DEF Move, Goto, TypeInv, TypeOK
  <2>3. lost # {} => lost' # {}
    BY <2>1
  <2>4. \A k \in DOMAIN fibMap : k \in DOMAIN fibMap' \/ lost' # {}
    BY <2>1
  <2>5. (\A k \in DOMAIN fibMap : Right(k, fibMap[k]))'
    BY <2>1, <2>3 DEF RightInv, Right
  <2>6. ASSUME NEW u \in Workers
        PROVE  WorkerRight(u)'
    BY <1>1, <2>2, <2>3, <2>4 DEF RightInv, WorkerRight, Right, Kept
  <2>7. (\A k \in (i - 6)..(i - 1) : Kept(k))'
    BY <2>2, <2>3, <2>4 DEF RightInv, Kept
  <2> QED
    BY <1>1, <2>2, <2>5, <2>6, <2>7 DEF RightInv
<1> QED
  BY <1>3, <1>4, <1>5, <1>6, <1>7, <1>8, <1>9 DEF put

\* The inductive step of RightInv.
LEMMA RightStep == TypeInv /\ RightInv /\ [Next]_vars => RightInv'
<1> SUFFICES ASSUME TypeInv, RightInv, [Next]_vars
             PROVE  RightInv'
  OBVIOUS
<1>1. CASE UNCHANGED vars
  BY <1>1 DEF vars, RightInv, WorkerRight, Right, Kept
<1> QED
  BY <1>1, MainRight, WorkerKeepsRight DEF Next, Done

-----------------------------------------------------------------------------
(* No loss in the first two rounds: the table does not double before the   *)
(* thirteenth entry, and then only one thread is left to use it.           *)

\* Thread w may have counted its entry.
Wrote(w) == IF at[w] \in {"test", "resize", "move", "done"} THEN 1 ELSE 0
Writes == Wrote(0) + Wrote(1) + Wrote(2)

\* Thread w doubles the table, or is going to.
Big(w) ==
  \/ at[w] \in {"resize", "move"}
  \/ at[w] \in {"write", "test"} /\ count[w] >= 12

\* What thread w has read is no more than what has been counted, and there is
\* one table as long as some thread has not put its entry.
EarlyWorker(w) ==
  /\ at[w] \in {"write", "test"} => count[w] + Wrote(w) <= i + Writes
  /\ Big(w) => i = 10 /\ \A u \in Workers \ {w} : at[u] \in {"test", "done"} /\ ~Big(u)
  /\ at[w] \in {"ready", "place"} => table = 0
  /\ at[w] = "place" => tab[w] = 0

EarlyRound ==
  /\ lost = {}
  /\ size <= i + Writes
  /\ \A w \in Workers : EarlyWorker(w)

\* The invariant that relates losses to the argument.
EarlyInv ==
  /\ capacity >= 16
  /\ \A w \in Workers : at[w] = "resize" => count[w] >= 16
  /\ lost # {} => n > 12
  /\ pc # "join" => table = 0
  /\ i <= 10 /\ pc # "join" => lost = {} /\ size <= i
  /\ i <= 10 /\ pc = "join" => EarlyRound

\* EarlyInv holds at the start.
LEMMA EarlyInit == Init => EarlyInv
BY DEF Init, EarlyInv, Idle

\* When one thread moves, the others count as before.
LEMMA WritesMove ==
  ASSUME NEW w \in Workers, \A u \in Workers \ {w} : at'[u] = at[u]
  PROVE  /\ Writes' + Wrote(w) = Writes + Wrote(w)'
         /\ Wrote(w)' = Wrote(w) => Writes' = Writes
         /\ Wrote(w) = 0 /\ Wrote(w)' = 1 => Writes' = Writes + 1
<1>1. \A u \in Workers \ {w} : Wrote(u)' = Wrote(u)
  BY DEF Wrote
<1>2. \A u \in Workers : Wrote(u) \in {0, 1} /\ Wrote(u)' \in {0, 1}
  BY DEF Wrote
<1>3. 0 \in Workers /\ 1 \in Workers /\ 2 \in Workers /\ w \in {0, 1, 2}
  BY DEF Workers
<1>4. CASE w = 0
  <2>1. Wrote(1)' = Wrote(1) /\ Wrote(2)' = Wrote(2)
    BY <1>1, <1>3, <1>4
  <2> QED
    BY <1>1, <1>2, <1>3, <1>4, <2>1 DEF Writes
<1>5. CASE w = 1
  <2>1. Wrote(0)' = Wrote(0) /\ Wrote(2)' = Wrote(2)
    BY <1>1, <1>3, <1>5
  <2> QED
    BY <1>1, <1>2, <1>3, <1>5, <2>1 DEF Writes
<1>6. CASE w = 2
  <2>1. Wrote(0)' = Wrote(0) /\ Wrote(1)' = Wrote(1)
    BY <1>1, <1>3, <1>6
  <2> QED
    BY <1>1, <1>2, <1>3, <1>6, <2>1 DEF Writes
<1> QED
  BY <1>3, <1>4, <1>5, <1>6

\* All others have counted when the sum says so.
LEMMA WritesFull ==
  ASSUME NEW w \in Workers, Wrote(w) = 0
  PROVE  /\ Writes \in 0..2
         /\ Writes = 2 => \A u \in Workers \ {w} : Wrote(u) = 1
<1>1. \A u \in Workers : Wrote(u) \in {0, 1}
  BY DEF Wrote
<1>2. /\ Wrote(0) \in {0, 1} /\ Wrote(1) \in {0, 1} /\ Wrote(2) \in {0, 1}
      /\ w \in {0, 1, 2} /\ \A u \in Workers : u \in {0, 1, 2}
  BY <1>1 DEF Workers
<1> QED
  BY <1>2 DEF Writes

\* A step of thread w that leaves size and count alone, as far as the others
\* are concerned.
LEMMA EarlyOthers ==
  ASSUME TypeInv, EarlyRound, NEW w \in Workers, i' = i,
         \A u \in Workers \ {w} :
           at'[u] = at[u] /\ tab'[u] = tab[u] /\ count'[u] = count[u],
         Wrote(w) <= Wrote(w)',
         Big(w) \/ ~Big(w)',
         at[w] \in {"test", "done"} => at'[w] \in {"test", "done"} \/ Big(w),
         table' = table \/ at[w] = "resize",
         NEW u \in Workers \ {w}
  PROVE  EarlyWorker(u)'
<1>1. EarlyWorker(u) /\ EarlyWorker(w)
  BY DEF EarlyRound
<1>2. /\ at'[u] = at[u] /\ tab'[u] = tab[u] /\ count'[u] = count[u] /\ u \in Workers
      /\ \A v \in Workers \ {u, w} : at'[v] = at[v] /\ (Big(v) <=> Big(v)')
  BY DEF TypeInv, TypeOK, Big
<1>3. Big(u)' <=> Big(u)
  BY <1>2 DEF Big
<1>4. (at[u] \in {"write", "test"} => count[u] + Wrote(u) <= i + Writes)'
  <2>1. /\ Writes' + Wrote(w) = Writes + Wrote(w)' /\ Wrote(u)' = Wrote(u)
    BY WritesMove, <1>2 DEF Wrote
  <2>2. /\ Writes \in Nat /\ Writes' \in Nat
        /\ Wrote(u) \in {0, 1} /\ Wrote(w) \in {0, 1} /\ Wrote(w)' \in {0, 1}
    BY DEF Writes, Wrote
  <2>3. i \in Nat /\ count[u] \in Nat
    BY DEF TypeInv, TypeOK
  <2> QED
    BY <1>1, <1>2, <2>1, <2>2, <2>3 DEF EarlyWorker
<1>5. ASSUME Big(u)
      PROVE  i = 10 /\ \A v \in Workers \ {u} : at'[v] \in {"test", "done"} /\ ~Big(v)'
  <2>1. i = 10 /\ \A v \in Workers \ {u} : at[v] \in {"test", "done"} /\ ~Big(v)
    BY <1>1, <1>5 DEF EarlyWorker
  <2>2. at'[w] \in {"test", "done"} /\ ~Big(w)'
    BY <1>2, <2>1
  <2> QED
    BY <1>2, <2>1, <2>2
<1>6. at[u] \in {"ready", "place"} => table' = table
  <2>1. at[w] = "resize" => Big(w)
    BY DEF Big
  <2> QED
    BY <1>1, <2>1 DEF EarlyWorker
<1> QED
  BY <1>1, <1>2, <1>3, <1>4, <1>5, <1>6 DEF EarlyWorker

\* A step of a thread in the first two rounds.
LEMMA WorkerEarly ==
  ASSUME TypeInv, EarlyInv, pc = "join", i <= 10, NEW w \in Workers, run(w) \/ put(w)
  PROVE  EarlyRound'
<1> USE DEF Goto
<1>1. /\ EarlyRound /\ EarlyWorker(w) /\ TypeOK
      /\ capacity >= 16 /\ capacity \in Nat /\ size \in Nat
      /\ at[w] = "resize" => count[w] >= 16
  BY DEF EarlyInv, EarlyRound, TypeInv, TypeOK
<1>2. i' = i /\ i \in {7, 10}
  <2>1. i \in 7..10 /\ i % 3 = 1
    BY DEF TypeInv, TypeOK
  <2> QED
    BY <2>1 DEF run, put, Place, ReadSize, WriteSize, TestSize, Publish, Move
<1>3. \A u \in Workers \ {w} : at'[u] = at[u]
  BY DEF TypeInv, TypeOK, run, put, Place, ReadSize, WriteSize, TestSize, Publish, Move
<1>4. /\ Writes \in Nat /\ Wrote(w) \in {0, 1} /\ Writes' \in Nat /\ Wrote(w)' \in {0, 1}
      /\ Writes - Wrote(w) >= 0
  <2>1. w \in {0, 1, 2}
    BY DEF Workers
  <2> QED
    BY <2>1 DEF Writes, Wrote
<1>5. CASE run(w)
  <2>1. PICK p \in {"done", "place"} : at' = [at EXCEPT ![w] = p]
    BY <1>5 DEF run
  <2>2. at[w] = "ready" /\ at'[w] = p /\ tab'[w] = 0 /\ table = 0
    BY <1>1, <1>5, <2>1 DEF run, TypeOK, EarlyWorker
  <2>3. \A u \in Workers \ {w} : EarlyWorker(u)'
    <3>1. Wrote(w) <= Wrote(w)' /\ ~Big(w)'
      BY <2>1, <2>2 DEF Wrote, Big
    <3> QED
      BY <1>1, <1>2, <1>3, <1>5, <2>1, <2>2, <3>1, EarlyOthers DEF run, TypeOK
  <2>4. EarlyWorker(w)'
    BY <1>4, <1>5, <2>1, <2>2 DEF run, EarlyWorker, Big
  <2>5. Writes' = Writes \/ Writes' = Writes + 1
    <3>1. Wrote(w) = 0 /\ Wrote(w)' \in {0, 1}
      BY <2>2 DEF Wrote
    <3> QED
      BY <1>3, <3>1, WritesMove
  <2>6. /\ size' = size /\ i' = i /\ lost' = lost /\ size <= i + Writes
        /\ i \in Nat /\ Writes \in Nat /\ size \in Nat
    BY <1>1, <1>2, <1>4, <1>5 DEF run, EarlyRound
  <2>7. size' <= i' + Writes'
    BY <2>5, <2>6
  <2> QED
    BY <1>1, <2>3, <2>4, <2>6, <2>7 DEF EarlyRound
<1>6. CASE Place(w)
  <2>1. /\ at' = [at EXCEPT ![w] = "read"] /\ at[w] = "place" /\ at'[w] = "read"
        /\ tab[w] = table /\ lost' = lost /\ UNCHANGED <<size, table, tab, count>>
    BY <1>1, <1>6 DEF Place, EarlyWorker, TypeOK
  <2>2. Wrote(w) = 0 /\ Wrote(w)' = 0 /\ ~Big(w)'
    BY <2>1 DEF Wrote, Big
  <2>3. \A u \in Workers \ {w} : EarlyWorker(u)'
    BY <1>1, <1>2, <1>3, <2>1, <2>2, EarlyOthers
  <2>4. EarlyWorker(w)' /\ Writes' = Writes
    <3>1. Writes' + Wrote(w) = Writes + Wrote(w)'
      BY <1>3, WritesMove
    <3> QED
      BY <1>4, <2>1, <2>2, <3>1 DEF EarlyWorker
  <2> QED
    BY <1>1, <1>2, <2>1, <2>3, <2>4 DEF EarlyRound
<1>7. CASE ReadSize(w)
  <2>1. /\ at' = [at EXCEPT ![w] = "write"] /\ at[w] = "read" /\ at'[w] = "write"
        /\ count'[w] = size /\ \A u \in Workers \ {w} : count'[u] = count[u]
        /\ UNCHANGED <<size, table, tab, lost>>
    BY <1>1, <1>7 DEF ReadSize, TypeOK
  <2>2. Wrote(w) = 0 /\ Wrote(w)' = 0 /\ Writes' = Writes
    <3>1. Wrote(w) = 0 /\ Wrote(w)' = 0
      BY <2>1 DEF Wrote
    <3> QED
      BY <1>3, <3>1, WritesMove
  <2>3. ~Big(w)
    BY <2>1 DEF Big
  <2>4. Big(w)' => /\ i = 10
                   /\ \A u \in Workers \ {w} : at[u] \in {"test", "done"} /\ ~Big(u)
    <3>1. SUFFICES ASSUME size >= 12
                   PROVE  /\ i = 10
                          /\ \A u \in Workers \ {w} : at[u] \in {"test", "done"} /\ ~Big(u)
      BY <2>1 DEF Big
    <3>2. Writes = 2 /\ i = 10
      BY <1>1, <1>2, <2>2, <3>1, WritesFull DEF EarlyRound
    <3>3. ASSUME NEW u \in Workers \ {w}
          PROVE  at[u] \in {"test", "done"} /\ ~Big(u)
      <4>1. Wrote(u) = 1
        BY <2>2, <3>2, WritesFull
      <4>2. at[u] \in {"test", "resize", "move", "done"}
        BY <4>1 DEF Wrote
      <4>3. EarlyWorker(u) /\ count[u] \in Nat
        BY <1>1 DEF EarlyRound, TypeOK
      <4>4. ~Big(u)
        BY <2>1, <4>3 DEF EarlyWorker
      <4> QED
        BY <4>2, <4>4 DEF Big
    <3> QED
      BY <3>2, <3>3
  <2>5. ASSUME NEW u \in Workers \ {w}
        PROVE  EarlyWorker(u)' /\ at'[u] = at[u] /\ (Big(u)' <=> Big(u))
    <3>1. at'[u] = at[u] /\ count'[u] = count[u]
      BY <2>1
    <3>2. Big(u)' <=> Big(u)
      BY <3>1 DEF Big
    <3>3. EarlyWorker(u) /\ ~Big(u) /\ (Wrote(u)' = Wrote(u))
      BY <1>1, <2>1, <3>1 DEF EarlyRound, EarlyWorker, Wrote
    <3> QED
      BY <1>2, <2>1, <2>2, <3>1, <3>2, <3>3 DEF EarlyWorker
  <2>6. EarlyWorker(w)'
    <3>1. Big(w)' => /\ i' = 10
                     /\ \A u \in Workers \ {w} : at'[u] \in {"test", "done"} /\ ~Big(u)'
      BY <1>2, <2>4, <2>5
    <3> QED
      BY <1>1, <1>2, <1>4, <2>1, <2>2, <3>1 DEF EarlyWorker, EarlyRound
  <2> QED
    BY <1>1, <1>2, <2>1, <2>2, <2>5, <2>6 DEF EarlyRound
<1>8. CASE WriteSize(w)
  <2>1. /\ at' = [at EXCEPT ![w] = "test"] /\ at[w] = "write" /\ at'[w] = "test"
        /\ size' = count[w] + 1 /\ count[w] \in Nat
        /\ UNCHANGED <<table, tab, count, lost>>
    BY <1>1, <1>8 DEF WriteSize, TypeOK
  <2>2. Wrote(w) = 0 /\ Wrote(w)' = 1 /\ Writes' = Writes + 1 /\ (Big(w)' <=> Big(w))
    <3>1. Wrote(w) = 0 /\ Wrote(w)' = 1 /\ (Big(w)' <=> Big(w))
      BY <2>1 DEF Wrote, Big
    <3> QED
      BY <1>3, <3>1, WritesMove
  <2>3. \A u \in Workers \ {w} : EarlyWorker(u)'
    BY <1>1, <1>2, <1>3, <2>1, <2>2, EarlyOthers
  <2>4. count[w] + 1 <= i + Writes'
    BY <1>1, <1>2, <1>4, <2>1, <2>2 DEF EarlyWorker
  <2>5. EarlyWorker(w)'
    <3>1. ASSUME Big(w)
          PROVE  i' = 10 /\ \A u \in Workers \ {w} : at'[u] \in {"test", "done"} /\ ~Big(u)'
      <4>1. i = 10 /\ \A u \in Workers \ {w} : at[u] \in {"test", "done"} /\ ~Big(u)
        BY <1>1, <3>1 DEF EarlyWorker
      <4> QED
        BY <1>2, <2>1, <4>1 DEF Big
    <3> QED
      BY <1>2, <2>1, <2>2, <2>4, <3>1 DEF EarlyWorker
  <2> QED
    BY <1>1, <1>2, <2>1, <2>3, <2>4, <2>5 DEF EarlyRound
<1>9. CASE TestSize(w)
  <2>1. /\ at[w] = "test" /\ count[w] \in Nat /\ UNCHANGED <<size, table, tab, lost>>
        /\ \A u \in Workers \ {w} : count'[u] = count[u]
        /\ \/ at' = [at EXCEPT ![w] = "done"]
           \/ at' = [at EXCEPT ![w] = "resize"] /\ count[w] + 1 > Threshold
    BY <1>1, <1>9 DEF TestSize, TypeOK
  <2>2. PICK p \in {"done", "resize"} : at' = [at EXCEPT ![w] = p] /\ at'[w] = p
    BY <1>1, <2>1 DEF TypeOK
  <2>3. Threshold >= 12 /\ Threshold \in Int
    BY <1>1 DEF Threshold
  <2>4. at'[w] = "resize" => Big(w)
    <3>1. at'[w] = "resize" => count[w] + 1 > Threshold
      BY <1>1, <2>1 DEF TypeOK
    <3> QED
      BY <2>1, <2>3, <3>1 DEF Big
  <2>5. Wrote(w) = 1 /\ Wrote(w)' = 1 /\ Writes' = Writes
    <3>1. Wrote(w) = 1 /\ Wrote(w)' = 1
      BY <2>1, <2>2 DEF Wrote
    <3> QED
      BY <1>3, <3>1, WritesMove
  <2>6. \A u \in Workers \ {w} : EarlyWorker(u)'
    <3>1. Big(w) \/ ~Big(w)'
      BY <2>2, <2>4 DEF Big
    <3> QED
      BY <1>1, <1>2, <1>3, <2>1, <2>2, <2>4, <2>5, <3>1, EarlyOthers
  <2>7. EarlyWorker(w)'
    <3>1. ASSUME Big(w)'
          PROVE  i' = 10 /\ \A u \in Workers \ {w} : at'[u] \in {"test", "done"} /\ ~Big(u)'
      <4>1. Big(w)
        BY <2>2, <2>4, <3>1 DEF Big
      <4>2. i = 10 /\ \A u \in Workers \ {w} : at[u] \in {"test", "done"} /\ ~Big(u)
        BY <1>1, <4>1 DEF EarlyWorker
      <4> QED
        BY <1>2, <2>1, <2>2, <4>2 DEF Big
    <3> QED
      BY <2>2, <3>1 DEF EarlyWorker
  <2> QED
    BY <1>1, <1>2, <2>1, <2>5, <2>6, <2>7 DEF EarlyRound
<1>10. CASE Publish(w) \/ Move(w)
  <2>1. /\ at[w] \in {"resize", "move"} /\ UNCHANGED <<size, tab, count>>
        /\ \/ at' = [at EXCEPT ![w] = "move"]
           \/ at' = [at EXCEPT ![w] = "done"]
    BY <1>10 DEF Publish, Move
  <2>2. i = 10 /\ \A u \in Workers \ {w} : at[u] \in {"test", "done"} /\ ~Big(u)
    BY <1>1, <2>1 DEF EarlyWorker, Big
  <2>3. lost' = lost
    <3>1. CASE Move(w)
      <4>1. PICK gone \in SUBSET Needed :
              /\ gone # {} => \E u \in Workers \ {w} : at[u] \in {"resize", "move"}
              /\ lost' = lost \cup gone
        BY <3>1 DEF Move
      <4> QED
        BY <2>2, <4>1
    <3> QED
      BY <1>10, <3>1 DEF Publish
  <2>4. PICK p \in {"move", "done"} : at' = [at EXCEPT ![w] = p] /\ at'[w] = p
    BY <1>1, <2>1 DEF TypeOK
  <2>5. Wrote(w) = 1 /\ Wrote(w)' = 1 /\ Writes' = Writes /\ Big(w)
    <3>1. Wrote(w) = 1 /\ Wrote(w)' = 1 /\ Big(w)
      BY <2>1, <2>4 DEF Wrote, Big
    <3> QED
      BY <1>3, <3>1, WritesMove
  <2>6. \A u \in Workers \ {w} : EarlyWorker(u)'
    <3>1. table' = table \/ at[w] = "resize"
      BY <1>10 DEF Publish, Move
    <3> QED
      BY <1>1, <1>2, <1>3, <2>1, <2>4, <2>5, <3>1, EarlyOthers
  <2>7. EarlyWorker(w)'
    <3>1. i' = 10 /\ \A u \in Workers \ {w} : at'[u] \in {"test", "done"} /\ ~Big(u)'
      BY <1>2, <2>1, <2>2, <2>4 DEF Big
    <3> QED
      BY <2>4, <3>1 DEF EarlyWorker
  <2> QED
    BY <1>1, <1>2, <2>1, <2>3, <2>5, <2>6, <2>7 DEF EarlyRound
<1> QED
  BY <1>5, <1>6, <1>7, <1>8, <1>9, <1>10 DEF put

\* A step of a thread.
LEMMA WorkerKeepsEarly ==
  ASSUME TypeInv, EarlyInv, NEW w \in Workers, run(w) \/ put(w)
  PROVE  EarlyInv'
<1> USE DEF Goto
<1>1. pc = "join" /\ pc' = "join" /\ i' = i /\ n' = n
  BY DEF TypeInv, Idle, run, put, Place, ReadSize, WriteSize, TestSize, Publish, Move
<1>2. i \in Nat /\ i % 3 = 1 /\ i <= n /\ n \in Int
  BY <1>1, ElementBound DEF TypeInv, TypeOK
<1>3. capacity' >= 16 /\ \A u \in Workers : at'[u] = "resize" => count'[u] >= 16
  <2>1. capacity \in Nat /\ capacity >= 16 /\ count \in [Workers -> Nat] /\ TypeOK
        /\ \A u \in Workers : at[u] = "resize" => count[u] >= 16
    BY DEF TypeInv, TypeOK, EarlyInv
  <2>2. CASE run(w)
    BY <2>1, <2>2 DEF run, TypeOK
  <2>3. CASE Place(w)
    BY <2>1, <2>3 DEF Place, TypeOK
  <2>4. CASE ReadSize(w)
    BY <2>1, <2>4 DEF ReadSize, TypeOK
  <2>5. CASE WriteSize(w)
    BY <2>1, <2>5 DEF WriteSize, TypeOK
  <2>6. CASE TestSize(w)
    BY <2>1, <2>6 DEF TestSize, TypeOK
  <2>7. CASE Publish(w)
    BY <2>1, <2>7 DEF Publish, TypeOK
  <2>8. CASE Move(w)
    BY <2>1, <2>8 DEF Move, TypeOK
  <2> QED
    BY <2>2, <2>3, <2>4, <2>5, <2>6, <2>7, <2>8 DEF put
<1>4. i <= 10 => EarlyRound'
  BY <1>1, WorkerEarly
<1>5. lost' # {} => n > 12
  <2>1. CASE i <= 10
    BY <1>4, <2>1 DEF EarlyRound
  <2>2. CASE i > 10
    BY <1>2, <2>2
  <2> QED
    BY <1>2, <2>1, <2>2
<1> QED
  BY <1>1, <1>3, <1>4, <1>5 DEF EarlyInv

\* A step of the calling thread.
LEMMA MainEarly ==
  ASSUME TypeInv, EarlyInv, calculateFibonacci
  PROVE  EarlyInv'
<1>1. /\ i \in Nat /\ size \in Nat /\ n' = n /\ lost' = lost /\ capacity' = capacity
      /\ i >= 7
  BY DEF TypeInv, TypeOK, calculateFibonacci, Begin, Return, Spawn, Join, Finish
<1>2. CASE Begin \/ Finish
  BY <1>1, <1>2 DEF Begin, Finish, Return, EarlyInv
<1>3. CASE Spawn
  <2>1. /\ pc' = "join" /\ i' = i /\ size' = size /\ table' = table /\ table = 0
        /\ \A w \in Workers : at'[w] = "ready"
        /\ capacity >= 16 /\ lost # {} => n > 12
        /\ i <= 10 => lost = {} /\ size <= i
    BY <1>3 DEF Spawn, EarlyInv
  <2>2. Writes' = 0
    BY <2>1 DEF Writes, Wrote, Workers
  <2>3. \A w \in Workers : EarlyWorker(w)'
    BY <2>1 DEF EarlyWorker, Big
  <2> QED
    BY <1>1, <2>1, <2>2, <2>3 DEF EarlyInv, EarlyRound
<1>4. CASE Join
  <2>1. /\ pc = "join" /\ pc' = "round" /\ i' = i + 3 /\ table' = 0 /\ at' = Idle
        /\ size' = size \/ size' = 7
    BY <1>4 DEF Join, Step, Trim
  <2>2. Writes \in 0..3
    BY DEF Writes, Wrote
  <2>3. i <= 10 => lost = {} /\ size <= i + Writes
    BY <2>1 DEF EarlyInv, EarlyRound
  <2>4. i' <= 10 => lost' = {} /\ size' <= i'
    BY <1>1, <2>1, <2>2, <2>3
  <2> QED
    BY <1>1, <2>1, <2>4 DEF EarlyInv, Idle
<1> QED
  BY <1>2, <1>3, <1>4 DEF calculateFibonacci

\* The inductive step of EarlyInv.
LEMMA EarlyStep == TypeInv /\ EarlyInv /\ [Next]_vars => EarlyInv'
<1> SUFFICES ASSUME TypeInv, EarlyInv, [Next]_vars
             PROVE  EarlyInv'
  OBVIOUS
<1>1. CASE UNCHANGED vars
  BY <1>1 DEF vars, EarlyInv, EarlyRound, EarlyWorker, Big, Writes, Wrote
<1> QED
  BY <1>1, MainEarly, WorkerKeepsEarly DEF Next, Done

\* However the threads race in the map, calculateFibonacci returns the number
\* or null, and null only for a negative argument or, above 12, after a loss.
THEOREM RightOrLost == Spec => []RightUnlessLost
<1>1. RightInv /\ EarlyInv => RightUnlessLost
  BY DEF RightInv, EarlyInv, Right, RightUnlessLost
<1> QED
  BY <1>1, TypeInit, TypeStep, RightInit, RightStep, EarlyInit, EarlyStep, PTL DEF Spec

-----------------------------------------------------------------------------
(* The map stays small.                                                    *)

\* The entries of the rounds before, and those that a size of s accounts for.
Old == {k \in DOMAIN fibMap : k < i}
Covers(s) == Cardinality(Old) <= 7 + 3 * (s - 7)

\* Thread w has its parameters, and has counted its entry.
Given(w) == Null \notin {par[w][1], par[w][2]}
Counted(w) == at[w] \in {"test", "resize", "move"} \/ (at[w] = "done" /\ Given(w))

\* Whatever increments get lost, each thread writes one more than the entries
\* of the rounds before ask for.
MapWorker(w) ==
  /\ Counted(w) => Covers(size - 1)
  /\ at[w] = "write" => Covers(count[w])
  /\ i + w \in DOMAIN fibMap => at[w] \notin {"ready", "place"} /\ Given(w)
  /\ at[w] \notin {"ready", "done"} => Given(w)

\* The invariant behind MapStaysSmall.
MapInv ==
  /\ pc = "begin" => size = 7 /\ Cardinality(DOMAIN fibMap) = 7
  /\ pc \in {"begin", "round"} => DOMAIN fibMap \subseteq 0..(i - 1)
  /\ MapStaysSmall
  /\ pc = "join" => Covers(size) /\ \A w \in Workers : MapWorker(w)

\* The map is finite.
LEMMA MapFinite ==
  ASSUME TypeOK
  PROVE  /\ IsFiniteSet(DOMAIN fibMap) /\ Cardinality(DOMAIN fibMap) \in Nat
         /\ IsFiniteSet(Old) /\ Cardinality(Old) \in Nat
<1>1. IsFiniteSet(0..(i + 2))
  BY FS_Interval DEF TypeOK
<1>2. DOMAIN fibMap \in SUBSET (0..(i + 2)) /\ Old \in SUBSET (0..(i + 2))
  BY DEF TypeOK, Old
<1>3. IsFiniteSet(DOMAIN fibMap) /\ IsFiniteSet(Old)
  BY <1>1, <1>2, FS_Subset
<1> QED
  BY <1>3, FS_CardinalityType

\* One more element is at most one more.
LEMMA OneMore ==
  ASSUME NEW S, NEW x, IsFiniteSet(S)
  PROVE  /\ IsFiniteSet(S \cup {x})
         /\ Cardinality(S) \in Nat /\ Cardinality(S \cup {x}) \in Nat
         /\ Cardinality(S \cup {x}) <= Cardinality(S) + 1
<1>1. /\ IsFiniteSet(S \cup {x})
      /\ Cardinality(S \cup {x}) = IF x \in S THEN Cardinality(S) ELSE Cardinality(S) + 1
  BY FS_AddElement
<1>2. Cardinality(S) \in Nat /\ Cardinality(S \cup {x}) \in Nat
  BY <1>1, FS_CardinalityType
<1>3. Cardinality(S \cup {x}) <= Cardinality(S) + 1
  BY <1>1, <1>2
<1> QED
  BY <1>1, <1>2, <1>3

\* MapInv holds at the start.
LEMMA MapInit == Init => MapInv
<1> SUFFICES ASSUME Init
             PROVE  MapInv
  OBVIOUS
<1>1. DOMAIN fibMap = 0..6 /\ Cardinality(0..6) = 7
  <2>1. ASSUME NEW a \in Int, NEW b \in Int, a = 0, b = 6
        PROVE  Cardinality(a..b) = 7
    <3>1. Cardinality(a..b) = IF a > b THEN 0 ELSE b - a + 1
      BY FS_Interval
    <3> QED
      BY <2>1, <3>1
  <2>2. 0 \in Int /\ 6 \in Int
    OBVIOUS
  <2>3. Cardinality(0..6) = 7
    BY <2>1, <2>2, Zenon
  <2> QED
    BY <2>3 DEF Init
<1> QED
  BY <1>1 DEF Init, MapInv, MapStaysSmall

\* A step of the calling thread.
LEMMA MainMap ==
  ASSUME TypeInv, MapInv, calculateFibonacci
  PROVE  MapInv'
<1>1. /\ i \in Nat /\ i >= 7 /\ size \in Nat
      /\ Cardinality(DOMAIN fibMap) \in Nat /\ Cardinality(Old) \in Nat
  BY MapFinite DEF TypeInv, TypeOK
<1>2. CASE Begin
  BY <1>1, <1>2 DEF Begin, Return, MapInv, MapStaysSmall
<1>3. CASE Finish
  BY <1>3 DEF Finish, Return, MapInv, MapStaysSmall
<1>4. CASE Spawn
  <2>1. /\ pc = "round" /\ pc' = "join" /\ UNCHANGED <<i, fibMap, size>>
        /\ \A w \in Workers : at'[w] = "ready"
        /\ DOMAIN fibMap \subseteq 0..(i - 1)
    BY <1>4 DEF Spawn, MapInv
  <2>2. Old = DOMAIN fibMap
    BY <1>1, <2>1 DEF Old
  <2>3. Cardinality(Old) <= 7 + 3 * (size - 7)
    BY <1>1, <2>1, <2>2 DEF MapInv, MapStaysSmall
  <2>4. Covers(size)'
    BY <2>1, <2>3 DEF Covers, Old
  <2>5. ASSUME NEW w \in Workers
        PROVE  MapWorker(w)'
    <3>1. i + w \notin DOMAIN fibMap
      BY <1>1, <2>1 DEF Workers
    <3> QED
      BY <2>1, <3>1 DEF MapWorker, Counted
  <2> QED
    BY <2>1, <2>4, <2>5 DEF MapInv, MapStaysSmall
<1>5. CASE Join
  <2>1. pc = "join" /\ pc' = "round" /\ i' = i + 3 /\ \A w \in Workers : at[w] = "done"
    BY <1>5 DEF Join, Joined, Step
  <2>2. CASE size > 14 /\ Trim(i + 2)
    <3>1. DOMAIN fibMap' = (i - 4)..(i + 2) /\ size' = 7
      BY <1>1, <2>2 DEF Trim
    <3>2. Cardinality(DOMAIN fibMap') = 7
      BY <1>1, <3>1, FS_Interval
    <3>3. DOMAIN fibMap' \subseteq 0..(i' - 1)
      BY <1>1, <2>1, <3>1
    <3> QED
      BY <2>1, <3>1, <3>2, <3>3 DEF MapInv, MapStaysSmall
  <2>3. CASE size <= 14 /\ UNCHANGED <<fibMap, size>>
    <3>1. DOMAIN fibMap \subseteq 0..(i + 2)
      BY DEF TypeInv, TypeOK
    <3>2. Cardinality(DOMAIN fibMap) <= 7 + 3 * (size - 7)
      <4>1. CASE \E w \in Workers : i + w \in DOMAIN fibMap
        <5>1. Covers(size - 1)
          BY <2>1, <4>1 DEF MapInv, MapWorker, Counted
        <5>2. Cardinality(Old) + 3 <= 7 + 3 * (size - 7)
          BY <1>1, <5>1 DEF Covers
        <5>3. DOMAIN fibMap \subseteq ((Old \cup {i}) \cup {i + 1}) \cup {i + 2}
          BY <1>1, <3>1 DEF Old
        <5>4. IsFiniteSet(Old)
          BY MapFinite DEF TypeInv
        <5>5. /\ IsFiniteSet(Old \cup {i})
              /\ Cardinality(Old \cup {i}) \in Nat
              /\ Cardinality(Old \cup {i}) <= Cardinality(Old) + 1
          BY <5>4, OneMore
        <5>6. /\ IsFiniteSet((Old \cup {i}) \cup {i + 1})
              /\ Cardinality((Old \cup {i}) \cup {i + 1}) \in Nat
              /\ Cardinality((Old \cup {i}) \cup {i + 1}) <= Cardinality(Old \cup {i}) + 1
          BY <5>5, OneMore
        <5>7. /\ IsFiniteSet(((Old \cup {i}) \cup {i + 1}) \cup {i + 2})
              /\ Cardinality(((Old \cup {i}) \cup {i + 1}) \cup {i + 2}) \in Nat
              /\ Cardinality(((Old \cup {i}) \cup {i + 1}) \cup {i + 2})
                   <= Cardinality((Old \cup {i}) \cup {i + 1}) + 1
          BY <5>6, OneMore
        <5>8. Cardinality(DOMAIN fibMap)
                <= Cardinality(((Old \cup {i}) \cup {i + 1}) \cup {i + 2})
          BY <5>3, <5>7, FS_Subset
        <5> QED
          BY <1>1, <5>2, <5>5, <5>6, <5>7, <5>8
      <4>2. CASE \A w \in Workers : i + w \notin DOMAIN fibMap
        <5>1. i \notin DOMAIN fibMap /\ i + 1 \notin DOMAIN fibMap /\ i + 2 \notin DOMAIN fibMap
          <6>1. 0 \in Workers /\ 1 \in Workers /\ 2 \in Workers /\ i + 0 = i
            BY <1>1 DEF Workers
          <6> QED
            BY <4>2, <6>1
        <5>2. Old = DOMAIN fibMap
          BY <1>1, <3>1, <5>1 DEF Old
        <5> QED
          BY <2>1, <5>2 DEF MapInv, Covers
      <4> QED
        BY <4>1, <4>2
    <3>3. /\ DOMAIN fibMap' \subseteq 0..(i' - 1)
          /\ Cardinality(DOMAIN fibMap') - 7 <= 3 * (size' - 7)
      BY <1>1, <2>1, <2>3, <3>1, <3>2
    <3> QED
      BY <2>1, <2>3, <3>3 DEF MapInv, MapStaysSmall
  <2> QED
    BY <1>1, <1>5, <2>2, <2>3 DEF Join
<1> QED
  BY <1>2, <1>3, <1>4, <1>5 DEF calculateFibonacci

\* A step of a thread.
LEMMA WorkerKeepsMap ==
  ASSUME TypeInv, MapInv, NEW w \in Workers, run(w) \/ put(w)
  PROVE  MapInv'
<1> USE DEF Goto
<1>1. /\ pc = "join" /\ pc' = "join" /\ i' = i /\ par' = par
      /\ \A u \in Workers \ {w} : at'[u] = at[u]
  BY DEF TypeInv, TypeOK, Idle, run, put, Place, ReadSize, WriteSize, TestSize, Publish, Move
<1>2. /\ TypeOK /\ TypeOK' /\ i \in Nat /\ size \in Nat /\ count \in [Workers -> Nat]
      /\ Covers(size) /\ \A u \in Workers : MapWorker(u)
  BY <1>1, WorkerType DEF TypeInv, TypeOK, MapInv
<1>3. SUFFICES Covers(size)' /\ \A u \in Workers : MapWorker(u)'
  BY <1>1 DEF MapInv, MapStaysSmall
<1>4. \A u \in Workers : Given(u)' <=> Given(u)
  BY <1>1 DEF Given
<1>5. CASE run(w) \/ TestSize(w) \/ Publish(w)
  <2>1. UNCHANGED <<fibMap, size>> /\ \A u \in Workers \ {w} : count'[u] = count[u]
    BY <1>2, <1>5 DEF run, TestSize, Publish, TypeOK
  <2>2. UNCHANGED Old
    BY <1>1, <2>1 DEF Old
  <2>3. /\ at'[w] # "write"
        /\ at'[w] = "ready" => at[w] = "ready"
        /\ at[w] = "ready" => (at'[w] = "place" /\ Given(w)) \/ (at'[w] = "done" /\ ~Given(w))
        /\ at[w] # "ready" => at[w] \in {"test", "resize"} /\ at'[w] \notin {"ready", "place"}
    <3>1. CASE run(w)
      <4>1. /\ Given(w) => at'[w] = "place"
            /\ ~Given(w) => at'[w] = "done"
        BY <1>2, <3>1 DEF run, Given, TypeOK
      <4>2. (at'[w] = "place" /\ Given(w)) \/ (at'[w] = "done" /\ ~Given(w))
        BY <4>1, Zenon
      <4>3. at[w] = "ready" /\ at'[w] \in {"place", "done"}
        BY <1>2, <3>1 DEF run, TypeOK
      <4>4. at'[w] # "write" /\ at'[w] # "ready"
        BY <4>3
      <4> QED
        BY <4>2, <4>3, <4>4, Zenon
    <3>2. CASE TestSize(w)
      BY <1>2, <3>2 DEF TestSize, TypeOK
    <3>3. CASE Publish(w)
      BY <1>2, <3>3 DEF Publish, TypeOK
    <3> QED
      BY <1>5, <3>1, <3>2, <3>3
  <2>4. MapWorker(w)'
    BY <1>1, <1>2, <1>4, <2>1, <2>2, <2>3 DEF MapWorker, Counted, Covers
  <2>5. \A u \in Workers \ {w} : MapWorker(u)'
    BY <1>1, <1>2, <1>4, <2>1, <2>2 DEF MapWorker, Counted, Covers
  <2> QED
    BY <1>2, <2>1, <2>2, <2>4, <2>5 DEF Covers
<1>6. CASE Place(w)
  <2>1. /\ at[w] = "place" /\ at'[w] = "read" /\ UNCHANGED <<size, count>>
        /\ DOMAIN fibMap' \subseteq DOMAIN fibMap \cup {i + w}
        /\ DOMAIN fibMap \subseteq DOMAIN fibMap'
    BY <1>2, <1>6 DEF Place, TypeOK
  <2>2. UNCHANGED Old
    BY <1>1, <1>2, <2>1 DEF Old, Workers
  <2>3. MapWorker(w)'
    BY <1>1, <1>2, <1>4, <2>1, <2>2 DEF MapWorker, Counted, Covers
  <2>4. ASSUME NEW u \in Workers \ {w}
        PROVE  MapWorker(u)'
    <3>1. i + u # i + w
      BY <1>2 DEF Workers
    <3> QED
      BY <1>1, <1>2, <1>4, <2>1, <2>2, <3>1 DEF MapWorker, Counted, Covers
  <2> QED
    BY <1>2, <2>1, <2>2, <2>3, <2>4 DEF Covers
<1>7. CASE ReadSize(w)
  <2>1. /\ at[w] = "read" /\ at'[w] = "write" /\ UNCHANGED <<size, fibMap>>
        /\ count'[w] = size /\ \A u \in Workers \ {w} : count'[u] = count[u]
    BY <1>2, <1>7 DEF ReadSize, TypeOK
  <2>2. UNCHANGED Old
    BY <1>1, <2>1 DEF Old
  <2>3. MapWorker(w)' /\ Covers(size)'
    BY <1>1, <1>2, <1>4, <2>1, <2>2 DEF MapWorker, Counted, Covers
  <2>4. \A u \in Workers \ {w} : MapWorker(u)'
    BY <1>1, <1>2, <1>4, <2>1, <2>2 DEF MapWorker, Counted, Covers
  <2> QED
    BY <2>3, <2>4
<1>8. CASE WriteSize(w)
  <2>1. /\ at[w] = "write" /\ at'[w] = "test" /\ UNCHANGED <<count, fibMap>>
        /\ size' = count[w] + 1 /\ count[w] \in Nat
    BY <1>2, <1>8 DEF WriteSize, TypeOK
  <2>2. UNCHANGED Old /\ Cardinality(Old) \in Nat
    BY <1>1, <1>2, <2>1, MapFinite DEF Old
  <2>3. Covers(size - 1)' /\ Covers(size)'
    <3>1. Cardinality(Old) <= 7 + 3 * (count[w] - 7)
      BY <1>2, <2>1 DEF MapWorker, Covers
    <3>2. size' - 1 = count[w]
      BY <2>1
    <3> QED
      BY <2>1, <2>2, <3>1, <3>2 DEF Covers
  <2>4. \A u \in Workers \ {w} : MapWorker(u)'
    BY <1>1, <1>2, <1>4, <2>1, <2>2, <2>3 DEF MapWorker, Counted, Covers
  <2>5. MapWorker(w)'
    BY <1>1, <1>2, <1>4, <2>1, <2>3 DEF MapWorker
  <2> QED
    BY <2>3, <2>4, <2>5
<1>9. CASE Move(w)
  <2>1. /\ at[w] = "move" /\ at'[w] = "done" /\ UNCHANGED <<size, count>>
        /\ DOMAIN fibMap' \subseteq DOMAIN fibMap
    BY <1>2, <1>9 DEF Move, TypeOK
  <2>2. Cardinality(Old') <= Cardinality(Old) /\ Cardinality(Old') \in Nat /\ Cardinality(Old) \in Nat
    <3>1. Old' \in SUBSET Old
      BY <1>1, <2>1 DEF Old
    <3>2. IsFiniteSet(Old) /\ Cardinality(Old) \in Nat
      BY <1>2, MapFinite
    <3> QED
      BY <3>1, <3>2, FS_Subset, FS_CardinalityType
  <2>3. ASSUME NEW s \in Int, Covers(s)
        PROVE  Cardinality(Old') <= 7 + 3 * (s - 7)
    BY <2>2, <2>3 DEF Covers
  <2>4. Covers(size)'
    BY <1>2, <2>1, <2>3 DEF Covers
  <2>5. ASSUME NEW u \in Workers
        PROVE  MapWorker(u)'
    <3>1. /\ Counted(u)' => Counted(u)
          /\ at'[u] = "write" => at[u] = "write"
          /\ i + u \in DOMAIN fibMap' => at'[u] \notin {"ready", "place"} /\ Given(u)
          /\ at'[u] \notin {"ready", "done"} => Given(u)
      BY <1>1, <1>2, <1>4, <2>1 DEF MapWorker, Counted
    <3>2. Counted(u)' => Covers(size - 1)'
      <4>1. Counted(u)' => Covers(size - 1) /\ size - 1 \in Int
        BY <1>2, <3>1 DEF MapWorker
      <4> QED
        BY <2>1, <2>3, <4>1 DEF Covers
    <3>3. at'[u] = "write" => Covers(count[u])'
      <4>1. at'[u] = "write" => Covers(count[u]) /\ count[u] \in Int
        BY <1>2, <3>1 DEF MapWorker
      <4> QED
        BY <2>1, <2>3, <4>1 DEF Covers
    <3> QED
      BY <1>1, <1>4, <3>1, <3>2, <3>3 DEF MapWorker
  <2> QED
    BY <2>4, <2>5
<1> QED
  BY <1>5, <1>6, <1>7, <1>8, <1>9 DEF put

\* The inductive step of MapInv.
LEMMA MapStep == TypeInv /\ MapInv /\ [Next]_vars => MapInv'
<1> SUFFICES ASSUME TypeInv, MapInv, [Next]_vars
             PROVE  MapInv'
  OBVIOUS
<1>1. CASE UNCHANGED vars
  BY <1>1 DEF vars, MapInv, MapStaysSmall, MapWorker, Counted, Given, Covers, Old
<1> QED
  BY <1>1, MainMap, WorkerKeepsMap DEF Next, Done

\* When a round begins the map has at most 28 entries, whatever the argument is
\* and however many increments of its size get lost.
THEOREM MapIsSmall == Spec => []MapStaysSmall
<1>1. MapInv => MapStaysSmall
  BY DEF MapInv
<1> QED
  BY <1>1, TypeInit, TypeStep, MapInit, MapStep, PTL DEF Spec
=============================================================================
