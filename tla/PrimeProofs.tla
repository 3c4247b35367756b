---------------------------- MODULE PrimeProofs ----------------------------
(***************************************************************************)
(* Theorems about calculatePrime, for any limits and any number of worker  *)
(* threads, as long as the limits stay two below the largest int.          *)
(***************************************************************************)
EXTENDS PrimeWorkers, TLAPS

\* The int range.
Ints == (-MaxInt - 1)..MaxInt

\* No sum of the block arithmetic leaves the int range.
NoOverflow == MaxInt >= 2 /\ \A l \in Limits : l + 2 <= MaxInt

-----------------------------------------------------------------------------
(* Arithmetic.                                                             *)

\* Division and remainder of natural numbers.
LEMMA DivFacts ==
  ASSUME NEW a \in Nat, NEW b \in Nat \ {0}
  PROVE  /\ a \div b \in Nat
         /\ b * (a \div b) <= a
         /\ a < b * (a \div b) + b
         /\ a % b = a - b * (a \div b)
OBVIOUS

\* Multiplication by a natural number is monotonic.
LEMMA MulMono ==
  ASSUME NEW b \in Nat, NEW t \in Int, NEW u \in Int, t <= u
  PROVE  b * t <= b * u
OBVIOUS

\* Block t begins where block t - 1 ends.
LEMMA MulPred ==
  ASSUME NEW b \in Int, NEW t \in Int
  PROVE  b * (t - 1) = b * t - b
OBVIOUS

\* The quotient: natural and at most n for a limit that is not negative;
\* not positive, with a product not below n, for a negative one.
LEMMA QuotFacts ==
  ASSUME n \in Limits
  PROVE  /\ everyBlock \in Int
         /\ n >= 0 => /\ everyBlock \in Nat
                      /\ THREADS * everyBlock <= n
                      /\ n < THREADS * everyBlock + THREADS
         /\ n < 0 => everyBlock <= 0 /\ n <= THREADS * everyBlock
<1>1. n \in Int /\ THREADS \in Nat \ {0}
  BY ThreadsAssumption, WidthAssumption
<1>2. CASE n >= 0
  <2>1. n \in Nat /\ everyBlock = n \div THREADS
    BY <1>1, <1>2 DEF everyBlock, Quot
  <2>2. /\ n \div THREADS \in Nat
        /\ THREADS * (n \div THREADS) <= n
        /\ n < THREADS * (n \div THREADS) + THREADS
    BY <1>1, <2>1, DivFacts
  <2> QED
    BY <1>1, <1>2, <2>1, <2>2
<1>3. CASE n < 0
  <2>1. -n \in Nat /\ everyBlock = -((-n) \div THREADS)
    BY <1>1, <1>3 DEF everyBlock, Quot
  <2>2. /\ (-n) \div THREADS \in Nat
        /\ THREADS * ((-n) \div THREADS) <= -n
    BY <1>1, <2>1, DivFacts
  <2>3. THREADS * everyBlock = -(THREADS * ((-n) \div THREADS))
    BY <1>1, <2>1, <2>2
  <2> QED
    BY <1>1, <1>3, <2>1, <2>2, <2>3
<1> QED
  BY <1>1, <1>2, <1>3

\* Where the blocks and the remainder begin and end.
LEMMA BlockFacts ==
  ASSUME n \in Limits, NoOverflow
  PROVE  /\ Remainder = everyBlock * THREADS + 2
         /\ Remainder \in Ints
         /\ n < 0 => Remainder > n
         /\ n >= 0 => 2 <= Remainder
         /\ \A t \in Workers : /\ Last(t) = everyBlock * t + 2
                               /\ First(t) = Last(t) - everyBlock
                               /\ Last(t) \in Ints /\ First(t) \in Ints
                               /\ n >= 0 => Last(t) <= Remainder /\ 2 <= First(t)
                               /\ n < 0 => First(t) >= Last(t)
<1>1. /\ n \in Int /\ n + 2 <= MaxInt /\ n >= -MaxInt - 1 /\ MaxInt >= 2
      /\ THREADS \in Nat \ {0} /\ MaxInt \in Nat /\ everyBlock \in Int
  BY ThreadsAssumption, WidthAssumption, QuotFacts DEF NoOverflow
<1>2. n - Rem(n, THREADS) = everyBlock * THREADS
  BY <1>1 DEF Rem, everyBlock
<1>3. CASE n >= 0
  <2>1. everyBlock \in Nat /\ everyBlock * THREADS <= n
    BY <1>1, <1>3, QuotFacts
  <2>2. Remainder = everyBlock * THREADS + 2
    BY <1>1, <1>2, <2>1 DEF Remainder, Wrap
  <2>3. ASSUME NEW t \in Workers
        PROVE  /\ Last(t) = everyBlock * t + 2
               /\ First(t) = Last(t) - everyBlock
               /\ Last(t) <= Remainder /\ 2 <= First(t)
    <3>1. t \in Int /\ 1 <= t /\ t <= THREADS
      BY <1>1, <2>3 DEF Workers
    <3>2. everyBlock * 1 <= everyBlock * t /\ everyBlock * t <= everyBlock * THREADS
      BY <1>1, <2>1, <3>1, MulMono
    <3>3. Last(t) = everyBlock * t + 2
      BY <1>1, <2>1, <3>1, <3>2 DEF Last, Wrap
    <3>4. First(t) = Last(t) - everyBlock
      BY <1>1, <2>1, <3>1, <3>2, <3>3 DEF First, Wrap
    <3> QED
      BY <1>1, <2>1, <2>2, <3>1, <3>2, <3>3, <3>4
  <2>4. everyBlock * THREADS \in Int /\ 0 <= everyBlock * THREADS
    BY <1>1, <2>1
  <2>5. Remainder \in Ints /\ 2 <= Remainder
    BY <1>1, <2>1, <2>2, <2>4 DEF Ints
  <2>6. ASSUME NEW t \in Workers
        PROVE  Last(t) \in Ints /\ First(t) \in Ints /\ First(t) <= Last(t)
    <3>1. t \in Int /\ everyBlock * t \in Int
      BY <1>1, <2>1 DEF Workers
    <3> QED
      BY <1>1, <2>1, <2>3, <2>5, <3>1 DEF Ints
  <2> QED
    BY <1>1, <1>3, <2>2, <2>3, <2>5, <2>6
<1>4. CASE n < 0
  <2>1. everyBlock <= 0 /\ n <= everyBlock * THREADS
    BY <1>1, <1>4, QuotFacts
  <2>2. everyBlock * THREADS <= 0
    <3>1. -everyBlock \in Nat
      BY <1>1, <2>1
    <3>2. (-everyBlock) * 0 <= (-everyBlock) * THREADS
      BY <1>1, <3>1, MulMono
    <3> QED
      BY <1>1, <3>1, <3>2
  <2>3. Remainder = everyBlock * THREADS + 2
    <3>1. everyBlock * THREADS \in Int
      BY <1>1
    <3> QED
      BY <1>1, <1>2, <1>4, <2>1, <2>2, <3>1 DEF Remainder, Wrap
  <2>4. ASSUME NEW t \in Workers
        PROVE  /\ Last(t) = everyBlock * t + 2
               /\ First(t) = Last(t) - everyBlock
               /\ Last(t) \in Ints /\ First(t) \in Ints
    <3>1. t \in Int /\ 1 <= t /\ t <= THREADS
      BY <1>1, <2>4 DEF Workers
    <3>2. -everyBlock \in Nat
      BY <1>1, <2>1
    <3>3. /\ (-everyBlock) * 1 <= (-everyBlock) * t
          /\ (-everyBlock) * t <= (-everyBlock) * THREADS
      BY <1>1, <3>1, <3>2, MulMono
    <3>4. everyBlock * THREADS <= everyBlock * t /\ everyBlock * t <= everyBlock
      BY <1>1, <3>1, <3>2, <3>3
    <3>5. everyBlock * t \in Int /\ everyBlock * THREADS \in Int
      BY <1>1, <3>1
    <3>6. everyBlock * t >= -MaxInt - 1 /\ everyBlock * t <= 0
      BY <1>1, <2>1, <3>4, <3>5
    <3>7. Last(t) = everyBlock * t + 2
      BY <1>1, <3>5, <3>6 DEF Last, Wrap
    <3>8. First(t) = Last(t) - everyBlock
      BY <1>1, <2>1, <3>4, <3>5, <3>6, <3>7 DEF First, Wrap
    <3> QED
      BY <1>1, <2>1, <3>4, <3>5, <3>6, <3>7, <3>8 DEF Ints
  <2>5. \A t \in Workers : First(t) >= Last(t)
    <3> SUFFICES ASSUME NEW t \in Workers PROVE First(t) >= Last(t)
      OBVIOUS
    <3>1. t \in Int
      BY <1>1 DEF Workers
    <3> QED
      BY <1>1, <2>1, <2>4, <3>1
  <2>6. everyBlock * THREADS \in Int
    BY <1>1
  <2>7. Remainder \in Ints /\ Remainder > n
    BY <1>1, <1>4, <2>1, <2>2, <2>3, <2>6 DEF Ints
  <2> QED
    BY <1>1, <1>4, <2>3, <2>4, <2>5, <2>7
<1> QED
  BY <1>1, <1>3, <1>4

\* No number lies in two blocks.
LEMMA BlocksDisjoint ==
  ASSUME n \in Limits, NoOverflow, NEW t \in Workers, NEW u \in Workers, NEW x \in Int,
         First(t) <= x, x < Last(t), First(u) <= x, x < Last(u)
  PROVE  t = u
<1>1. n >= 0 /\ everyBlock \in Nat /\ t \in Int /\ u \in Int
  <2>1. n \in Int /\ t \in Int /\ u \in Int
    BY WidthAssumption, ThreadsAssumption DEF Workers
  <2>2. everyBlock \in Int /\ (n >= 0 => everyBlock \in Nat)
    BY QuotFacts
  <2>3. Last(t) \in Int /\ First(t) \in Int /\ (n < 0 => First(t) >= Last(t))
    BY <2>1, <2>2, BlockFacts
  <2> QED
    BY <2>1, <2>2, <2>3
<1>2. ASSUME NEW v \in Int, NEW w \in Int, v < w
      PROVE  everyBlock * v <= everyBlock * w - everyBlock
  BY <1>1, <1>2, MulMono, MulPred
<1>3. /\ everyBlock * t + 2 - everyBlock <= x /\ x < everyBlock * t + 2
      /\ everyBlock * u + 2 - everyBlock <= x /\ x < everyBlock * u + 2
  <2>1. /\ Last(t) = everyBlock * t + 2 /\ First(t) = Last(t) - everyBlock
        /\ Last(u) = everyBlock * u + 2 /\ First(u) = Last(u) - everyBlock
    BY BlockFacts
  <2>2. everyBlock * t \in Int /\ everyBlock * u \in Int
    BY <1>1
  <2> QED
    BY <1>1, <2>1, <2>2
<1>4. everyBlock * t \in Int /\ everyBlock * u \in Int
  BY <1>1
<1>5. CASE t < u
  BY <1>1, <1>2, <1>3, <1>4, <1>5
<1>6. CASE u < t
  BY <1>1, <1>2, <1>3, <1>4, <1>6
<1> QED
  BY <1>1, <1>5, <1>6

-----------------------------------------------------------------------------
(* The inductive invariant.                                                *)

\* The candidates that have been tested.
Tested(x) ==
  \/ \E t \in Workers : First(t) <= x /\ x < next[t] /\ x < Last(t)
  \/ Remainder <= x /\ x < begin /\ x <= n

\* No loop goes back before its start, and each ends before the call goes on.
Loops ==
  /\ main = "spawn" => started < THREADS
  /\ Remainder <= begin
  /\ \A t \in Workers : First(t) <= next[t]
  /\ main \in {"join", "done"} => begin > n
  /\ main = "done" => \A t \in Workers : next[t] >= Last(t)

\* The list holds those of the tested candidates that passed, once each.
ListedTested == \A x \in Listed : x >= 2 /\ isPrime(x) /\ Tested(x)
TestedListed == \A x \in Int : isPrime(x) /\ Tested(x) => x \in Listed

Inv ==
  /\ TypeOK
  /\ Loops
  /\ ListedTested
  /\ TestedListed
  /\ NoDuplicates

\* What the test of one new candidate does to the list.
LEMMA Testing ==
  ASSUME TypeOK, ListedTested, TestedListed, NoDuplicates,
         NEW c \in Ints, c >= 2, ~Tested(c), primes' = Found(c),
         \A x \in Int : Tested(x)' <=> Tested(x) \/ x = c
  PROVE  primes' \in Seq(Ints) /\ ListedTested' /\ TestedListed' /\ NoDuplicates'
<1>1. primes \in Seq(Ints) /\ c \in Int
  BY WidthAssumption DEF TypeOK, Ints
<1>2. Listed \subseteq Int
  BY <1>1, WidthAssumption DEF Listed, Ints
<1>3. CASE isPrime(c)
  <2>1. primes' = Append(primes, c)
    BY <1>3 DEF Found
  <2>2. /\ primes' \in Seq(Ints)
        /\ DOMAIN primes = 1..Len(primes) /\ Len(primes) \in Nat
        /\ DOMAIN primes' = 1..(Len(primes) + 1)
        /\ \A i \in 1..Len(primes) : primes'[i] = primes[i]
        /\ primes'[Len(primes) + 1] = c
    BY <1>1, <2>1
  <2>3. \A i \in DOMAIN primes : primes[i] \in Listed
    BY DEF Listed
  <2>4. c \notin Listed
    BY DEF ListedTested
  <2>5. Listed' = Listed \cup {c}
    <3>1. Listed' = {primes'[i] : i \in 1..(Len(primes) + 1)}
      BY <2>2 DEF Listed
    <3>2. Listed = {primes[i] : i \in 1..Len(primes)}
      BY <2>2 DEF Listed
    <3>3. 1..(Len(primes) + 1) = 1..Len(primes) \cup {Len(primes) + 1}
      BY <2>2
    <3> QED
      BY <2>2, <3>1, <3>2, <3>3
  <2>6. ListedTested' /\ TestedListed'
    BY <1>1, <1>2, <1>3, <2>5 DEF ListedTested, TestedListed
  <2>7. NoDuplicates'
    <3> SUFFICES ASSUME NEW i \in 1..(Len(primes) + 1),
                        NEW j \in 1..(Len(primes) + 1), i # j
                 PROVE  primes'[i] # primes'[j]
      BY <2>2 DEF NoDuplicates
    <3>1. CASE i \in 1..Len(primes) /\ j \in 1..Len(primes)
      BY <2>2, <3>1 DEF NoDuplicates
    <3>2. CASE i = Len(primes) + 1 /\ j \in 1..Len(primes)
      BY <2>2, <2>3, <2>4, <3>2
    <3>3. CASE j = Len(primes) + 1 /\ i \in 1..Len(primes)
      BY <2>2, <2>3, <2>4, <3>3
    <3> QED
      BY <2>2, <3>1, <3>2, <3>3
  <2> QED
    BY <2>2, <2>6, <2>7
<1>4. CASE ~isPrime(c)
  <2>1. primes' = primes
    BY <1>4 DEF Found
  <2>2. Listed' = Listed
    BY <2>1 DEF Listed
  <2> QED
    BY <1>1, <1>2, <1>4, <2>1, <2>2 DEF ListedTested, TestedListed, NoDuplicates
<1> QED
  BY <1>3, <1>4

LEMMA InitInv ==
  ASSUME NoOverflow, Init
  PROVE  Inv
<1>1. /\ n \in Limits /\ main = "spawn" /\ started = 0 /\ begin = Remainder
      /\ next = [t \in Workers |-> First(t)] /\ primes = <<>>
  BY DEF Init
<1>2. Remainder \in Ints /\ \A t \in Workers : First(t) \in Ints /\ Last(t) \in Ints
  BY <1>1, BlockFacts
<1>3. TypeOK
  BY <1>1, <1>2, ThreadsAssumption DEF TypeOK, Ints
<1>4. Listed = {}
  BY <1>1 DEF Listed
<1>5. \A x \in Int : ~Tested(x)
  BY <1>1, <1>2, WidthAssumption DEF Tested, Ints
<1>6. Loops
  BY <1>1, <1>2, ThreadsAssumption, WidthAssumption DEF Loops, Ints
<1>7. NoDuplicates
  BY <1>1 DEF NoDuplicates
<1> QED
  BY <1>3, <1>4, <1>5, <1>6, <1>7 DEF Inv, ListedTested, TestedListed

LEMMA SpawnInv ==
  ASSUME Inv, Spawn
  PROVE  Inv'
<1>1. /\ main = "spawn" /\ started' = started + 1
      /\ main' = IF started + 1 = THREADS THEN "remainder" ELSE "spawn"
      /\ n' = n /\ begin' = begin /\ next' = next /\ primes' = primes
  BY DEF Spawn
<1>2. started \in Nat /\ started < THREADS /\ THREADS \in Nat
  BY <1>1, ThreadsAssumption DEF Inv, Loops, TypeOK
<1>3. TypeOK'
  BY <1>1, <1>2 DEF Inv, TypeOK
<1>4. Loops'
  BY <1>1, <1>2 DEF Inv, Loops, Remainder, First, Last, everyBlock
<1>5. ListedTested' /\ TestedListed' /\ NoDuplicates'
  BY <1>1 DEF Inv, ListedTested, TestedListed, NoDuplicates, Listed, Tested,
     Remainder, First, Last, everyBlock
<1> QED
  BY <1>3, <1>4, <1>5 DEF Inv

LEMMA JoinInv ==
  ASSUME Inv, Join
  PROVE  Inv'
<1>1. /\ main = "join" /\ main' = "done"
      /\ \A t \in Workers : next[t] >= Last(t)
      /\ n' = n /\ started' = started /\ begin' = begin /\ next' = next
      /\ primes' = primes
  BY DEF Join
<1>2. TypeOK'
  BY <1>1 DEF Inv, TypeOK
<1>3. Loops'
  BY <1>1 DEF Inv, Loops, Remainder, First, Last, everyBlock
<1>4. ListedTested' /\ TestedListed' /\ NoDuplicates'
  BY <1>1 DEF Inv, ListedTested, TestedListed, NoDuplicates, Listed, Tested,
     Remainder, First, Last, everyBlock
<1> QED
  BY <1>2, <1>3, <1>4 DEF Inv

\* A round of a worker tests a candidate of its own block, which no other
\* thread tests.
LEMMA WorkerInv ==
  ASSUME NoOverflow, Inv, NEW t \in Workers, run(t)
  PROVE  Inv'
<1> DEFINE c == next[t]
<1>1. /\ t <= started /\ c < Last(t) /\ primes' = Found(c)
      /\ next' = [next EXCEPT ![t] = Wrap(c + 1)]
      /\ n' = n /\ main' = main /\ started' = started /\ begin' = begin
  BY DEF run
<1>2. /\ n \in Limits /\ n \in Int /\ MaxInt \in Nat
      /\ next \in [Workers -> Ints] /\ c \in Ints /\ c \in Int
      /\ begin \in Int
  BY WidthAssumption DEF Inv, TypeOK, Ints
<1>3. /\ Remainder \in Int /\ Last(t) \in Ints /\ First(t) <= c
      /\ \A u \in Workers : First(u) \in Int /\ Last(u) \in Int
  BY <1>2, BlockFacts DEF Inv, Loops, Ints
<1>4. Wrap(c + 1) = c + 1 /\ c + 1 \in Ints
  BY <1>1, <1>2, <1>3 DEF Wrap, Ints
<1>5. n >= 0
  <2>1. n < 0 => First(t) >= Last(t)
    BY <1>2, BlockFacts
  <2> QED
    BY <1>1, <1>2, <1>3, <2>1
<1>6. c >= 2 /\ c < Remainder
  <2>1. 2 <= First(t) /\ Last(t) <= Remainder
    BY <1>2, <1>5, BlockFacts
  <2> QED
    BY <1>1, <1>2, <1>3, <2>1 DEF Ints
<1>7. ~Tested(c)
  <2>1. ASSUME NEW u \in Workers, First(u) <= c, c < next[u], c < Last(u)
        PROVE  FALSE
    <3>1. u = t
      BY <1>1, <1>2, <1>3, <2>1, BlocksDisjoint
    <3> QED
      BY <1>2, <2>1, <3>1
  <2> QED
    BY <1>2, <1>3, <1>6, <2>1 DEF Tested
<1>8. /\ next'[t] = c + 1
      /\ \A u \in Workers : u # t => next'[u] = next[u]
      /\ \A u \in Workers : next[u] \in Int
  BY <1>1, <1>2, <1>4 DEF Ints
<1>9. \A x \in Int : Tested(x)' <=> Tested(x) \/ x = c
  <2> SUFFICES ASSUME NEW x \in Int
               PROVE  Tested(x)' <=> Tested(x) \/ x = c
    OBVIOUS
  <2>1. ASSUME NEW u \in Workers
        PROVE  (First(u) <= x /\ x < next'[u] /\ x < Last(u))
                 <=> \/ First(u) <= x /\ x < next[u] /\ x < Last(u)
                     \/ u = t /\ x = c
    BY <1>1, <1>2, <1>3, <1>8
  <2>2. Tested(x)' <=> \/ \E u \in Workers : First(u) <= x /\ x < next'[u] /\ x < Last(u)
                       \/ Remainder <= x /\ x < begin /\ x <= n
    BY <1>1 DEF Tested, Remainder, First, Last, everyBlock, Workers
  <2> QED
    BY <2>1, <2>2 DEF Tested
<1>10. primes' \in Seq(Ints) /\ ListedTested' /\ TestedListed' /\ NoDuplicates'
  BY <1>1, <1>2, <1>6, <1>7, <1>9, Testing DEF Inv
<1>11. TypeOK'
  BY <1>1, <1>2, <1>4, <1>10 DEF Inv, TypeOK, Ints
<1>12. Loops'
  <2>1. \A u \in Workers : First(u) <= next'[u]
    BY <1>2, <1>3, <1>8 DEF Inv, Loops
  <2>2. main = "done" => FALSE
    BY <1>1, <1>2, <1>3 DEF Inv, Loops, Ints
  <2> QED
    BY <1>1, <2>1, <2>2 DEF Inv, Loops, Remainder, First, Last, everyBlock
<1> QED
  BY <1>10, <1>11, <1>12 DEF Inv

\* A round of the calling thread tests a candidate behind every block.
LEMMA RemainderInv ==
  ASSUME NoOverflow, Inv, calculatePrime
  PROVE  Inv'
<1>1. /\ main = "remainder" /\ n' = n /\ started' = started /\ next' = next
  BY DEF calculatePrime
<1>2. /\ n \in Limits /\ n \in Int /\ n + 2 <= MaxInt /\ MaxInt \in Nat
      /\ begin \in Ints /\ begin \in Int
  BY WidthAssumption DEF Inv, TypeOK, Ints, NoOverflow
<1>3. /\ Remainder \in Int /\ Remainder <= begin
      /\ \A u \in Workers : First(u) \in Int /\ Last(u) \in Int
  BY <1>2, BlockFacts DEF Inv, Loops, Ints
<1>4. CASE begin <= n /\ primes' = Found(begin) /\ begin' = Wrap(begin + 1)
           /\ main' = main
  <2>1. begin' = begin + 1 /\ begin + 1 \in Ints
    BY <1>2, <1>4 DEF Wrap, Ints
  <2>2. n >= 0
    <3>1. n < 0 => Remainder > n
      BY <1>2, BlockFacts
    <3> QED
      BY <1>2, <1>3, <1>4, <3>1
  <2>3. 2 <= Remainder /\ \A u \in Workers : Last(u) <= Remainder
    BY <1>2, <2>2, BlockFacts
  <2>4. begin >= 2 /\ ~Tested(begin)
    BY <1>2, <1>3, <2>3 DEF Tested
  <2>5. \A x \in Int : Tested(x)' <=> Tested(x) \/ x = begin
    <3> SUFFICES ASSUME NEW x \in Int
                 PROVE  Tested(x)' <=> Tested(x) \/ x = begin
      OBVIOUS
    <3>1. Tested(x)' <=> \/ \E u \in Workers : First(u) <= x /\ x < next[u] /\ x < Last(u)
                         \/ Remainder <= x /\ x < begin + 1 /\ x <= n
      BY <1>1, <2>1 DEF Tested, Remainder, First, Last, everyBlock, Workers
    <3>2. (Remainder <= x /\ x < begin + 1 /\ x <= n)
            <=> (Remainder <= x /\ x < begin /\ x <= n) \/ x = begin
      BY <1>2, <1>3, <1>4
    <3> QED
      BY <3>1, <3>2 DEF Tested
  <2>6. primes' \in Seq(Ints) /\ ListedTested' /\ TestedListed' /\ NoDuplicates'
    BY <1>2, <1>4, <2>4, <2>5, Testing DEF Inv
  <2>7. TypeOK'
    BY <1>1, <1>4, <2>1, <2>6 DEF Inv, TypeOK, Ints
  <2>8. Loops'
    BY <1>1, <1>2, <1>3, <1>4, <2>1
    DEF Inv, Loops, Remainder, First, Last, everyBlock
  <2> QED
    BY <2>6, <2>7, <2>8 DEF Inv
<1>5. CASE begin > n /\ main' = "join" /\ begin' = begin /\ primes' = primes
  <2>1. TypeOK'
    BY <1>1, <1>5 DEF Inv, TypeOK
  <2>2. Loops'
    BY <1>1, <1>5 DEF Inv, Loops, Remainder, First, Last, everyBlock
  <2>3. ListedTested' /\ TestedListed' /\ NoDuplicates'
    BY <1>1, <1>5 DEF Inv, ListedTested, TestedListed, NoDuplicates, Listed,
       Tested, Remainder, First, Last, everyBlock
  <2> QED
    BY <2>1, <2>2, <2>3 DEF Inv
<1> QED
  BY <1>4, <1>5 DEF calculatePrime

LEMMA NextInv ==
  ASSUME NoOverflow, Inv, [Next]_vars
  PROVE  Inv'
<1>1. CASE Spawn
  BY <1>1, SpawnInv
<1>2. CASE calculatePrime
  BY <1>2, RemainderInv
<1>3. CASE Join
  BY <1>3, JoinInv
<1>4. ASSUME NEW t \in Workers, run(t)
      PROVE  Inv'
  BY <1>4, WorkerInv
<1>5. CASE UNCHANGED vars
  BY <1>5 DEF vars, Inv, TypeOK, Loops, ListedTested, TestedListed, NoDuplicates,
     Listed, Tested, Remainder, First, Last, everyBlock
<1> QED
  BY <1>1, <1>2, <1>3, <1>4, <1>5 DEF Next

\* Trial division up to half of the number is enough: a divisor d below x has a
\* cofactor of two or more.
LEMMA HalfIsEnough ==
  ASSUME NEW x \in Int, x >= 2
  PROVE  isPrime(x) <=> Prime(x)
<1>1. Quot(x, 2) = x \div 2 /\ x \div 2 \in Int /\ x \div 2 <= x - 1
  BY DEF Quot
<1>2. ASSUME isPrime(x), NEW d \in 2..(x - 1), x % d = 0
      PROVE  FALSE
  <2>1. d \in Nat \ {0} /\ x \in Nat /\ d < x
    BY <1>2
  <2>2. x \div d \in Nat /\ x = d * (x \div d)
    <3>1. x \div d \in Nat /\ x % d = x - d * (x \div d)
      BY <2>1, DivFacts
    <3>2. d * (x \div d) \in Int
      BY <2>1, <3>1
    <3> QED
      BY <1>2, <2>1, <3>1, <3>2
  <2>3. CASE x \div d <= 1
    <3>1. d * (x \div d) <= d * 1
      BY <2>1, <2>2, <2>3, MulMono
    <3> QED
      BY <2>1, <2>2, <3>1
  <2>4. CASE 2 <= x \div d
    <3>1. d * 2 <= d * (x \div d)
      BY <2>1, <2>2, <2>4, MulMono
    <3>2. d <= x \div 2
      BY <2>1, <2>2, <3>1
    <3>3. d \in 2..Quot(x, 2)
      BY <1>1, <1>2, <2>1, <3>2
    <3> QED
      BY <1>2, <3>3 DEF isPrime
  <2> QED
    BY <2>2, <2>3, <2>4
<1>3. isPrime(x) => Prime(x)
  BY <1>2 DEF Prime
<1>4. Prime(x) => isPrime(x)
  BY <1>1 DEF Prime, isPrime
<1> QED
  BY <1>3, <1>4

\* Every candidate below the remainder lies in a block.
LEMMA BlocksCover ==
  ASSUME n \in Limits, NoOverflow, n >= 0, NEW x \in Int, 2 <= x, x < Remainder
  PROVE  \E t \in Workers : First(t) <= x /\ x < Last(t)
<1> DEFINE q == (x - 2) \div everyBlock
<1>1. /\ n \in Int /\ THREADS \in Nat \ {0} /\ everyBlock \in Nat
      /\ x - 2 < everyBlock * THREADS /\ x - 2 \in Nat
  BY ThreadsAssumption, WidthAssumption, QuotFacts, BlockFacts
<1>2. everyBlock # 0
  BY <1>1
<1>3. q \in Nat /\ everyBlock * q <= x - 2 /\ x - 2 < everyBlock * q + everyBlock
  BY <1>1, <1>2, DivFacts
<1>4. everyBlock * (q + 1) = everyBlock * q + everyBlock /\ everyBlock * q \in Int
  BY <1>1, <1>3
<1>5. q < THREADS
  <2>1. CASE THREADS <= q
    <3>1. everyBlock * THREADS <= everyBlock * q
      BY <1>1, <1>3, <2>1, MulMono
    <3>2. everyBlock * THREADS \in Int
      BY <1>1
    <3> QED
      BY <1>1, <1>3, <1>4, <3>1, <3>2
  <2> QED
    BY <1>1, <1>3, <2>1
<1>6. q + 1 \in Workers
  BY <1>1, <1>3, <1>5 DEF Workers
<1>7. Last(q + 1) = everyBlock * q + everyBlock + 2 /\ First(q + 1) = Last(q + 1) - everyBlock
  BY <1>4, <1>6, BlockFacts
<1>8. First(q + 1) <= x /\ x < Last(q + 1)
  BY <1>1, <1>3, <1>4, <1>7
<1> QED
  BY <1>6, <1>8

\* At the return every prime up to the limit has been tested.
LEMMA InvComplete ==
  ASSUME NoOverflow, Inv
  PROVE  NoneMissing
<1> SUFFICES ASSUME main = "done", NEW x \in 2..n, Prime(x)
             PROVE  x \in Listed
  BY DEF NoneMissing
<1>1. /\ n \in Limits /\ n \in Int /\ n >= 0 /\ x \in Int /\ 2 <= x /\ x <= n
      /\ begin \in Int /\ begin > n /\ Remainder \in Int
      /\ \A t \in Workers : next[t] \in Int /\ Last(t) \in Int /\ next[t] >= Last(t)
  BY WidthAssumption, BlockFacts DEF Inv, TypeOK, Loops, Ints
<1>2. Tested(x)
  <2>1. CASE x < Remainder
    BY <1>1, <2>1, BlocksCover DEF Tested
  <2>2. CASE Remainder <= x
    BY <1>1, <2>2 DEF Tested
  <2> QED
    BY <1>1, <2>1, <2>2
<1> QED
  BY <1>1, <1>2, HalfIsEnough DEF Inv, TestedListed

-----------------------------------------------------------------------------

\* No sum that a call computes leaves the range of int.
LEMMA InvNothingWraps ==
  ASSUME NoOverflow, Inv
  PROVE  NothingWraps
<1>1. /\ n \in Limits /\ n \in Int /\ n + 2 <= MaxInt /\ n >= -MaxInt - 1 /\ MaxInt \in Nat
      /\ THREADS \in Nat \ {0} /\ everyBlock \in Int
      /\ begin \in Int /\ begin >= -MaxInt - 1
      /\ \A t \in Workers : next[t] \in Int /\ next[t] >= -MaxInt - 1
  BY ThreadsAssumption, WidthAssumption, QuotFacts DEF Inv, TypeOK, NoOverflow
<1>2. n - Rem(n, THREADS) + 2 = Remainder /\ Remainder \in Ints
  BY <1>1, QuotFacts, BlockFacts DEF Rem, everyBlock
<1>3. ASSUME NEW t \in Workers
      PROVE  /\ everyBlock * t + 2 = Last(t) /\ everyBlock * t + 2 - everyBlock = First(t)
             /\ Last(t) \in Ints /\ First(t) \in Ints
             /\ next[t] < Last(t) => next[t] + 1 \in Ints
  <2>1. /\ Last(t) = everyBlock * t + 2 /\ First(t) = Last(t) - everyBlock
        /\ Last(t) \in Ints /\ First(t) \in Ints
    BY <1>1, BlockFacts
  <2>2. everyBlock * t \in Int
    BY <1>1 DEF Workers
  <2>3. everyBlock * t + 2 - everyBlock = First(t)
    BY <1>1, <2>1, <2>2
  <2>4. next[t] < Last(t) => next[t] + 1 \in Ints
    BY <1>1, <2>1 DEF Ints
  <2> QED
    BY <2>1, <2>3, <2>4
<1>4. begin <= n => begin + 1 \in Ints
  BY <1>1 DEF Ints
<1> QED
  BY <1>2, <1>3, <1>4 DEF NothingWraps, Ints

\* The fields of a call keep their types, no more workers are started than there
\* are processors, and no block, remainder or candidate leaves the range of int
\* (run, Prime.java, and calculatePrime, Controller.java), for any limit that is
\* at least two below the largest int and any number of processors.
THEOREM PrimeTypeCorrect ==
  ASSUME NoOverflow
  PROVE  Spec => [](TypeOK /\ NothingWraps)
<1>1. Inv => TypeOK /\ NothingWraps
  BY InvNothingWraps DEF Inv
<1> QED
  BY InitInv, NextInv, <1>1, PTL DEF Spec

\* The blocks of run (Prime.java) and the remainder of calculatePrime are
\* disjoint for any limit and any number of processors, in any interleaving
\* of the threads: no prime is added to the list twice.
THEOREM NoPrimeTwice ==
  ASSUME NoOverflow
  PROVE  Spec => []NoDuplicates
<1>1. Inv => NoDuplicates
  BY DEF Inv
<1> QED
  BY InitInv, NextInv, <1>1, PTL DEF Spec

\* Whatever is added to the list is prime: no thread reaches a candidate below
\* two, and trial division up to half of the number (isPrime, Prime.java) is
\* enough.
THEOREM PrimesOnly ==
  ASSUME NoOverflow
  PROVE  Spec => []OnlyPrimes
<1>1. Inv => OnlyPrimes
  <2> SUFFICES ASSUME Inv, NEW x \in Listed
               PROVE  Prime(x)
    BY DEF OnlyPrimes
  <2>1. x \in Int
    BY WidthAssumption DEF Inv, TypeOK, Listed
  <2> QED
    BY <2>1, HalfIsEnough DEF Inv, ListedTested
<1> QED
  BY InitInv, NextInv, <1>1, PTL DEF Spec

\* The blocks and the remainder leave no gap: when calculatePrime returns, every
\* prime up to the limit is in the list.
THEOREM AllPrimes ==
  ASSUME NoOverflow
  PROVE  Spec => []NoneMissing
BY InitInv, NextInv, InvComplete, PTL DEF Spec

\* What is listed past the limit is the number after it, and only if the number of
\* threads divides the limit: the last block of run (Prime.java) ends there, and
\* the loop of calculatePrime ends at the limit.
THEOREM PrimesPastLimit ==
  ASSUME NoOverflow
  PROVE  Spec => []PastLimit
<1>1. Inv => PastLimit
  <2> SUFFICES ASSUME Inv, NEW x \in Listed, x > n
               PROVE  x = n + 1 /\ Rem(n, THREADS) = 0
    BY DEF PastLimit
  <2>1. /\ n \in Limits /\ n \in Int /\ THREADS \in Nat \ {0}
        /\ primes \in Seq(Ints) /\ next \in [Workers -> Ints]
        /\ MaxInt \in Nat
    BY WidthAssumption, ThreadsAssumption DEF Inv, TypeOK, Ints
  <2>2. x \in Int /\ Tested(x)
    BY <2>1 DEF Inv, ListedTested, Listed, Ints
  <2>3. PICK t \in Workers : First(t) <= x /\ x < next[t] /\ x < Last(t)
    BY <2>1, <2>2 DEF Tested
  <2>4. n >= 0
    <3>1. First(t) \in Ints /\ Last(t) \in Ints /\ (n < 0 => First(t) >= Last(t))
      BY <2>1, BlockFacts
    <3> QED
      BY <2>1, <2>2, <2>3, <3>1 DEF Ints
  <2>5. everyBlock \in Nat /\ THREADS * everyBlock <= n
    BY <2>1, <2>4, QuotFacts
  <2>6. /\ Remainder = everyBlock * THREADS + 2
        /\ Last(t) <= Remainder /\ Last(t) \in Ints
    BY <2>1, <2>4, BlockFacts
  <2>7. everyBlock * THREADS \in Int /\ everyBlock * THREADS <= n
    BY <2>1, <2>5
  <2>8. x = n + 1 /\ everyBlock * THREADS = n
    BY <2>1, <2>2, <2>3, <2>6, <2>7 DEF Ints
  <2>9. Rem(n, THREADS) = 0
    BY <2>1, <2>5, <2>8 DEF Rem, everyBlock
  <2> QED
    BY <2>8, <2>9
<1> QED
  BY <1>1, InitInv, NextInv, PTL DEF Spec
=============================================================================
