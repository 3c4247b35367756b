---------------------------- MODULE PrimeWorkers ----------------------------
(***************************************************************************)
(* One call of calculatePrime (Controller.java) of the distributed         *)
(* calculation service: THREADS worker threads (Prime.java), each with a   *)
(* block of candidates, the calling thread with the remainder, and one     *)
(* list that all of them add to under its lock.                            *)
(***************************************************************************)
EXTENDS Integers, Sequences

CONSTANTS
  Limits,    \* the values of the parameter n
  THREADS,   \* availableProcessors()
  MaxInt     \* the largest int

ASSUME ThreadsAssumption == THREADS \in Nat \ {0}
ASSUME WidthAssumption ==
  MaxInt \in Nat /\ THREADS <= MaxInt /\ Limits \subseteq (-MaxInt - 1)..MaxInt

VARIABLES
  n,         \* the parameter of the call
  main,      \* the calling thread: "spawn", "remainder", "join" or "done"
  started,   \* the number of worker threads started
  begin,     \* the calling thread's next candidate
  next,      \* next[t]: the next candidate of worker t
  primes     \* the shared list

vars == <<n, main, started, begin, next, primes>>

Workers == 1..THREADS

\* The value of an int expression whose mathematical value is x: two's
\* complement, for the sums of two ints that occur here.
Wrap(x) ==
  IF x > MaxInt THEN x - 2 * (MaxInt + 1)
  ELSE IF x < -MaxInt - 1 THEN x + 2 * (MaxInt + 1)
  ELSE x

\* Division and remainder of Java truncate towards zero.
Quot(a, b) == IF a >= 0 THEN a \div b ELSE -((-a) \div b)
Rem(a, b) == a - b * Quot(a, b)

\* A mutant of isPrime: the loop stops before number / 2.
IsPrimeShort(number) == \A i \in 2..(Quot(number, 2) - 1) : number % i # 0

\* Trial division up to number / 2.
isPrime(number) == \A i \in 2..Quot(number, 2) : number % i # 0

\* A mutant of Last: the end of a block is part of it.
LastInclusive(t) == Wrap(Quot(n, THREADS) * t + 3)

\* A mutant of everyBlock: the division is rounded up.
BlockRoundedUp == Quot(n + THREADS - 1, THREADS)

\* The block of worker t is First(t) .. Last(t) - 1.
everyBlock == Quot(n, THREADS)
Last(t) == Wrap(everyBlock * t + 2)
First(t) == Wrap(Last(t) - everyBlock)

\* A mutant of Remainder: it starts after the candidate it should start with.
RemainderLate == Wrap(n - Rem(n, THREADS) + 3)

Remainder == Wrap(n - Rem(n, THREADS) + 2)

Found(i) == IF isPrime(i) THEN Append(primes, i) ELSE primes

Init ==
  /\ n \in Limits
  /\ main = "spawn"
  /\ started = 0
  /\ begin = Remainder
  /\ next = [t \in Workers |-> First(t)]
  /\ primes = <<>>

\* A mutant of Spawn: the loop runs to numThreads + 1 inclusive.
SpawnOneMore ==
  /\ main = "spawn"
  /\ started' = started + 1
  /\ main' = IF started + 1 > THREADS THEN "remainder" ELSE "spawn"
  /\ UNCHANGED <<n, begin, next, primes>>

Spawn ==
  /\ main = "spawn"
  /\ started' = started + 1
  /\ main' = IF started + 1 = THREADS THEN "remainder" ELSE "spawn"
  /\ UNCHANGED <<n, begin, next, primes>>

\* A mutant of run: the candidate is only advanced when it is prime.
RunStuck(t) ==
  /\ t <= started
  /\ next[t] < Last(t)
  /\ primes' = Found(next[t])
  /\ next' = [next EXCEPT ![t] = IF isPrime(@) THEN Wrap(@ + 1) ELSE @]
  /\ UNCHANGED <<n, main, started, begin>>

\* One round of the loop of a worker: the test, and the addition under the
\* lock of the list.
run(t) ==
  /\ t <= started
  /\ next[t] < Last(t)
  /\ primes' = Found(next[t])
  /\ next' = [next EXCEPT ![t] = Wrap(@ + 1)]
  /\ UNCHANGED <<n, main, started, begin>>

\* The loop of the calling thread over what the blocks leave over.
calculatePrime ==
  /\ main = "remainder"
  /\ \/ /\ begin <= n
        /\ primes' = Found(begin)
        /\ begin' = Wrap(begin + 1)
        /\ UNCHANGED main
     \/ /\ begin > n
        /\ main' = "join"
        /\ UNCHANGED <<begin, primes>>
  /\ UNCHANGED <<n, started, next>>

Join ==
  /\ main = "join"
  /\ \A t \in Workers : next[t] >= Last(t)
  /\ main' = "done"
  /\ UNCHANGED <<n, started, begin, next, primes>>

Next == Spawn \/ calculatePrime \/ Join \/ \E t \in Workers : run(t)

\* The scheduler of the JVM runs every thread that can go on.
Fairness ==
  /\ WF_vars(Spawn \/ calculatePrime \/ Join)
  /\ \A t \in Workers : WF_vars(run(t))

Spec == Init /\ [][Next]_vars /\ Fairness

-----------------------------------------------------------------------------

\* The fields of the call keep their types, and no more workers are started than
\* there are.
TypeOK ==
  /\ n \in Limits
  /\ main \in {"spawn", "remainder", "join", "done"}
  /\ started \in 0..THREADS
  /\ begin \in (-MaxInt - 1)..MaxInt
  /\ next \in [Workers -> (-MaxInt - 1)..MaxInt]
  /\ primes \in Seq((-MaxInt - 1)..MaxInt)

\* Division by every smaller number, the definition isPrime abbreviates.
Prime(x) == x >= 2 /\ \A d \in 2..(x - 1) : x % d # 0

Listed == {primes[i] : i \in DOMAIN primes}

\* The blocks and the remainder do not overlap: no prime is reported twice.
NoDuplicates ==
  \A i, j \in DOMAIN primes : i # j => primes[i] # primes[j]

\* "A list of prime numbers to nth element": nothing but primes is listed.
OnlyPrimes == \A x \in Listed : Prime(x)

\* No candidate falls between two blocks, or between the last block and the
\* remainder: when the call returns every prime up to the limit is listed.
NoneMissing == main = "done" => \A x \in 2..n : Prime(x) => x \in Listed

\* No sum of the call leaves the range of int: neither the ends of the blocks and
\* of the remainder (run, Prime.java, and calculatePrime, Controller.java), nor the
\* next candidate of a loop that goes on.
NothingWraps ==
  LET IsInt(x) == x \in (-MaxInt - 1)..MaxInt
  IN  /\ \A t \in Workers :
           /\ IsInt(everyBlock * t + 2) /\ IsInt(everyBlock * t + 2 - everyBlock)
           /\ next[t] < Last(t) => IsInt(next[t] + 1)
      /\ IsInt(n - Rem(n, THREADS) + 2)
      /\ begin <= n => IsInt(begin + 1)

\* "The last element, all values should be calculated before limit" (Prime.java):
\* not so, the limit itself is calculated as well, and so is the number after it
\* if, and only if, the number of threads divides the limit: the blocks start at 2.
\* (Not checked by a run; what is proved is that nothing else lies past the limit.)
PastLimit ==
  \A x \in Listed : x > n => x = n + 1 /\ Rem(n, THREADS) = 0

\* The call returns.
Returns == <>(main = "done")
=============================================================================
