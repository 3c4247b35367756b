# Verification of the distributed calculation application

TLA+ models of the services in this repository, TLC configurations that check
them on small instances, and theorems proved with the TLA+ proof system. The
models are translated from the code; the thesis (`thesis /thesis.pdf`) and the
assignment (`microservices/DSE.pdf`) are only quoted where the code does
something else than they say.

## 1. The system

Clients send requests through the Istio ingress gateway to the control center,
which asks the billing service and the distributed calculation service. All
communication is HTTP; no service shares memory with another, and nothing is
written to disk.

| Component | State it keeps | Operations | Talks to |
|---|---|---|---|
| Ingress gateway with `istio/retry.yaml` | per request: the current try, its clock | forward, retry on a gateway error, give a try up after 5 s, answer | control center |
| Control center, `docker/services/control-center/control-center.py` | none, but a handler thread per try | createAccount, depositAccount, chargeAccount, deleteAccount, calculate2, queries | billing, calculation, analytics |
| Billing, `docker/services/billing/billing.py` | the dictionary `users`: name to balance, in memory | createAccount, depositAccount, chargeAccount, getAccountInfo, deleteAccount, isUserExists | nobody |
| Calculation, REST layer, `RestController.java` | the fault switch: responseCode, timeout, frequency, shouldCalculate | add, multiply, prime, fibonacci, getWorkloadByType, /fault | its own `Controller` |
| Calculation, `Controller.java`, `Prime.java`, `Fibonacci.java` | the workload counters; per call: worker threads and a shared list or map | calculatePrime, calculateFibonacci, add, multiply | nobody |
| Service repository, `Controller.java`, `RetryService.java` | map from URL to the list of registered entries | register, query by function, metrics, removal of dead services every second | /health and /getWorkloadByType of the services |
| Analytics, `analytics.py` | none | getAnalytics | calculation |
| App driver, `calculation-driver.py` | the flag `shouldStop` | simulate, stop | gateway |
| Outlier detection, canary, injected faults, `istio/*.yaml` | Envoy's view of the replicas | eject, return, route by weight | gateway and sidecars |
| Monitoring page | none | draws charts | service repository |

`istio/istio-1.10.3` and `canvasjs` are vendored. The services under
`microservices/` are earlier copies of those under `docker/services/`; the
billing services differ in the port only, and the older control center answers
`calculate2` with 200 whatever the calculation service says, which is what the
mutant `AlwaysOK` of `CalculateFlow` does.

### What is hard

* Concurrency inside one process without a lock: the Flask handlers on `users`,
  the Tomcat threads on the fault switch and on the HashMap of the repository,
  the three threads of a Fibonacci round, the simulations on their stop flag.
* One request, many effects: the gateway repeats a whole `calculate2`, which is
  not idempotent, and abandons tries whose handlers go on.
* Partial failure: the charge comes before the calculation and is never undone;
  the body of an answer is built after the change it reports.
* Loss of state: a restart empties the accounts while requests are in flight.
* Stale knowledge: a balance, a membership test or a health check is acted on
  after others have changed what it was about.
* Numeric edges: the block bounds of the prime workers and their int sums.

### What makes each part correct

* Billing: no overdraft; no money from nowhere; an answer that means what it
  says; each operation atomic. The last one fails under concurrency.
* Request flow: nothing is calculated unpaid; a 200 is paid for; one request,
  one charge; every request is answered. One charge per request fails when the
  gateway retries.
* Prime: every prime up to the limit, once each, and nothing else.
* Calculation REST layer: an answer follows from the settings; the counters are
  the load.
* Service repository: what runs and registered is listed, once; what is dead
  goes; what runs is not removed.
* Fibonacci: the n-th number, or an error, never a wrong number.
* Driver: a stop stops every simulation, and every simulation ends.
* Analytics: a price comes from the workload of the time of the request; a
  failure has a cause.
* Outlier detection: a replica that fails three times gets no requests for a
  minute (Envoy's part, not in this repository).

## 2. Modules

| Module | Models | Checked by | Proofs |
|---|---|---|---|
| `AccountLedger` | abstract: accounts whose operations are atomic | property of `Billing` | |
| `Billing` | billing.py | `MCBilling` | `BillingProofs` |
| `CalculateFlow` | gateway, control center, billing and calculation composed | `MCCalculateFlow` | `CalculateFlowProofs` |
| `PrimeWorkers` | calculatePrime | `MCPrimeWorkers` | `PrimeProofs` |
| `FibonacciWorkers` | calculateFibonacci and HashMap.put below it | `MCFibonacciWorkers` | `FibonacciProofs` |
| `CalculationService` | REST layer, fault switch, counters | `MCCalculationService`, `MCAnalytics` | `CalculationProofs` |
| `Analytics` | both versions of the analytics service, composed with `CalculationService` | `MCAnalytics` | `AnalyticsProofs` |
| `ServiceRegistry` | service repository | `MCServiceRegistry` | `RegistryProofs` |
| `AppDriver` | calculation-driver.py | `MCAppDriver` | `AppDriverProofs` |

A definition that is preceded by "A mutant of X" is a deliberately broken copy
of X. No specification uses it; it records a mistake that the properties of the
module are able to find.

### Billing and AccountLedger

Flask's development server handles every request in a thread of its own. A
CPython dictionary access is atomic, and threads may be switched between
bytecodes (before CPython 3.10 after any of them, since then at calls and
backward jumps, of which there is one between each test and store here). A
handler is therefore a sequence of steps with one access to `users` each:
`pc[h]` is the next access, `tmp[h]` the value computed and not yet stored.

* `users[user] = users[user] + amount` (line 62) is `DepositLoad` and
  `DepositStore`; lines 82 to 88 are `ChargeLoad` and `ChargeStore`; the
  membership test before them is `deposit_account` and `charge_account`.
* A KeyError after the account has gone, `int(None)` and `'User ' + None` end in
  a 500, as in the code; a ValueError of `int` makes the amount None (line 144),
  which is refused.
* `get_account_info_by_username` is the read for the body of the answer.
* `Restart` is the pod being started again (`restartPolicy: Always`): the
  accounts are empty, requests in flight get a 503.

Histories: `applied[h]`, whether the request of h changed the dictionary, and
`deposited[u]`, all that was ever paid in. `Overlap = FALSE` keeps requests for
one account apart; it is an assumption about the clients, not something the code
enforces, and marks the boundary between what holds and what does not.

`AccountLedger` is the promise: Open, Credit, Debit, Close, each in one step and
a debit only if covered. `AtomicLedger == Ledger!Spec` says that the handlers
implement it, under the identity mapping of `users` to `balance`.

### CalculateFlow

A try `<<r, k>>` is the k-th time the gateway sends request r. `pc[a]` is the
place of its handler in `calculate2`: start, the call of getAccountInfo, the call
of chargeAccount, its answer, the call of the calculation service. The other
operations pass one call through. `Response` gives an answer to the client or,
for 502, 503 and 504 (`retryOn: gateway-error`) while attempts are left, begins
the next try; `TryTimeout` does the same after perTryTimeout and leaves the old
handler running, as the code has no timeout and cannot be cancelled. Tries are
numbered from 0, so `Attempts` retries make `Attempts + 1` tries.

An operation of billing takes two steps, as in `Billing`: `Load` makes the tests and
reads the balance, `Store` writes what was computed from it (`NewBalance`), so that
abandoned tries and other requests overwrite each other's updates. `overtaken` is the
history of the accounts to which this has happened. The read for the body of the answer
is `charge_response`, a step of its own for calculate2, which looks at the status; the
pass-through handlers do not, so theirs is left out. A restart answers what is between
the two steps with a 503. The calculation service is its status (`CalcCodes`), with 502
for its fault switch and for the injected faults.
`executed` holds the tries whose calculation was answered with 200, and `applied`
those that have changed the accounts; `Charged` and `PaidIn` are the sums over the
latter, as numbers of coins (`Coins`). The routing
of the gateway itself (`Finish`) is Envoy's and external. Istio's default retries
of the sidecars, which repeat calls between the services, are not modelled.

Amounts are integers, `Fractional` (1.5 passes `float(price) >= 1` but not `int`)
and `Malformed`. A type outside the four known ones is refused after the charge.

### PrimeWorkers

`main` is the calling thread: it starts the workers, tests the remainder, joins
them. `next[t]` is the loop variable of worker t; one round of a loop, including
the synchronized addition, is one step, because the test reads nothing shared.
`First(t) .. Last(t) - 1` is the block of t. Division and remainder truncate
towards zero, and every sum is wrapped to `-MaxInt - 1 .. MaxInt`: the limit is a
request parameter whose `@Min(0)` has no effect on a controller that is not
`@Validated`, so any int reaches the code.

### CalculationService

One step per read or write of a field: `TestFrequency` and `Draw` are the two
reads of `frequency` in `getResponseCode`, then `ReadCode`, `ReadSwitch`. add and
multiply read the settings first and calculate afterwards, prime and fibonacci
the other way round. `/fault` writes its fields one by one. `timeout`, which only
delays, is left out, negative values included; reads see the latest write, as a
field is loaded anew in each call. `seen[c]` is the history of the values that
were in force during call c. Exceptions that nobody catches become a 500
(external: Spring): a frequency below 1 in `nextInt`, a status that
`HttpStatus.valueOf` does not know, `toString` on the null that fibonacci returns
for a negative n and, after a loss in its map, for an n above 12 (`MayBeNull`,
which is what `FibonacciWorkers` proves of the result). A `WORKLOAD` job is a
call of getWorkloadByType; it passes the same switch.

### FibonacciWorkers

`pc` is the calling thread: `Begin` (the first seven elements are returned at
once), `Spawn` (reads the parameters of the three threads and starts them),
`Join` (the joins, and the trimming of the map once it says that it has more
than fourteen entries), `Finish`. `at[w]` is thread w inside of `HashMap.put`:
the node into the table that was read before (`Place`), the size incremented by
a read and a write (`ReadSize`, `WriteSize`), the test against the threshold, the
new table published before the nodes are moved (`Publish`, `Move`). The keys of a
round are consecutive, so that no two nodes share a bin. A node put into a table
that is being replaced may be left behind, and two threads that move the nodes of
one table may lose any of them that is still asked for, which is more than
HashMap can do; entries that nobody asks for any more are not tracked as lost. A
thread that finds a parameter missing dies of a NullPointerException; the joins
do not notice. `Fib` is the reference: a table of the Fibonacci numbers, given by
its recurrence in the assumption and by a recursive function for TLC.

### Analytics

A request for a price is `getAnalytics` (either version: `Versions`), a `WORKLOAD`
call through the fault switch of `CalculationService`, and `get_prices`, which
parses the answer before it looks at the status. `reply[r]` is the place in the
handler. The noise of the price is any value of `Noise`; the estimated time of
version 1.1 is drawn below the price and left out. The older copy of the control
center and the present one pass the answer on.

### AppDriver

`pc[s]` is the next call or test of simulation s; `user[s]` is the variable of its
loops over the accounts. `shouldStop` is shared: each simulation resets it in
`simulate`, sets it when its own time is over (`check_if_should_stop_works`), and
`/stop` stores its parameter in it, truthy or not (`stop`). `Send` starts the
thread that posts calculate2 and that nobody waits for. The driver looks at no status,
so what its calls do to the accounts cannot come back to it: that is left to `Billing`
and `CalculateFlow`, and nothing is claimed about what its deposits cover. History:
`sentSince`, what a simulation has sent since the flag was set.

### ServiceRegistry

`registered` maps a URL to the index of a list object, `lists` and `entries` are
the objects, so that two threads can hold the same list, or different lists for
the same URL, as they can in Java. A list is an array of slots and a size.
`registerMicroservice` is the check, `GetList` the read of the list in `registerMs`.

Nothing is synchronised, so a call of a collection takes two steps. `ArrayList.add` is
`ReadSize` and `AddEntry`, which writes the slot that was free then. `HashMap.put` is
`FindKey`, and `LinkNode` for a key that was not there or `SetValue` for one that was;
`HashMap.remove` is the search in `deregisterMicroservice` or `RemoveAgain`, and
`Unlink`. `since`, in a thread and in the scheduled thread, holds the keys that came or
went between the two steps. The second step may drop those that came, as its node is
linked or unlinked at a place that was read before; a put whose place has left the table
has no effect; a value is written into a node that has left. Which keys share a bin is
left open, so any of them may be lost or not. A put that loses to a later one has been
complete, answered and listed until then. The growth of either collection (at 13 keys,
at 11 entries) is left out.

The scheduled thread is `StartScan` (the iterator), `NextUrl` (which throws a
ConcurrentModificationException after a registration has added a key, unless the
iterator is at its end), `checkHealth` with three attempts, and per dead URL
`deregisterMicroservice`, `Unlink`, `RemoveAgain` and `Logged`, the loop over what the
first remove returned, which throws if that was null. `URI.create` throws for a URL of
`Malformed` and nobody catches it. An exception ends the round, and Spring starts the
next one regardless. Any answer but "OK" is dead without a second attempt; no service of
the repository gives one, so `checkHealth` allows it where something else may listen,
behind a URL whose service does not run.

`SetWorkload` is the write of a query into an entry; the rest of a query reads only.
The URLs of `Failing` stop and start at any time, and up to `LostCalls` calls of a
health check of a running service are lost. The body of a registration has no workload
(`Entry`): the code would take one, but no service sends it. `steady` is the history of
the URLs that were up since the round began, `granted` of the services that run and were
told that they are registered.

## 3. Runs

Bounds are named in the .cfg files. "Violation" runs check one property that a
document, a comment or a message of the code states, and end with the shortest
trace on which the code does something else.

| Run | Result | Shows |
|---|---|---|
| `billing_concurrent` | pass | two handlers interleaved at every access: `TypeOK` (no overdraft), `NoMoneyCreated`, `RepliesTruthful` |
| `billing_serial` | pass | requests for one account apart: `AtomicLedger`, with restarts between the steps of the handlers |
| `billing_lost_update` | violation | `ChargeDebits`: a charge overwritten by, or overwriting, another update |
| `flow_retries` | pass | retries, timeouts, lost updates, restarts and deletions: `TypeOK`, `PaidBeforeExecuted`, `SuccessIsPaid`, `Solvent`, `RepeatsExplained`, `EveryRequestAnswered` |
| `flow_charged_twice` | violation | `AppliedOnce`: the retry after a 502 charges again |
| `prime_workers` | pass | limits -4 to 11, three workers, largest int 13: `NoDuplicates`, `OnlyPrimes`, `NoneMissing`, `NothingWraps`, `Returns` |
| `fibonacci` | pass | three threads in one HashMap: `RightUnlessLost`, `MapStaysSmall`, `FibReturns` |
| `registry` | pass | two registering threads, overlapping puts, removals and additions, a malformed URL, queries, lost health calls, rounds broken off: `TypeOK`, `ListedIsRecognised`, `SteadyStays`, `DeadAreRemoved` |
| `registry_stale_removal` | violation | `GrantedIsListed` when a service comes back during a round; one registering thread, so that no overlap of puts is needed |
| `analytics` | pass | two calculations and a request for a price that overlap, or one calculation, the request and two /fault calls: `TypeOK`, `LoadIsCounted`, `AnswersExplained`, `SwitchRespected` of the calculation service, `ReplyTypeOK`, `PricesExplained`, `FailuresExplained` of the analytics service |
| `calc_idle_load` | violation | `WorkloadIsLoad` with the first elements of fibonacci |
| `app_driver` | pass | three simulations, two calls of /stop, failing calls: `TypeOK`, `StopHeeded`, `EverySimulationEnds` |

### What the models also show

Disagreements between the code and what is said of it that have no run of their
own; each is visible in the actions named.

* A deposit or a charge that was checked before `remove_account` deleted the
  account brings the account back (`DepositStore`, `ChargeStore`).
* A client may be told "Account balance cannot be charged" after an earlier try
  of its request charged it (`charge_account_` after a retry of `Response`), or
  because the account was deleted just after the charge (`charge_response`).
* The user is charged before the calculation, whose failure refunds nothing; a
  type that does not exist is refused after the charge (`requestCalculation`).
  The thesis (section 5.2, Figure 9) puts the charge after the result.
* "The last element, all values should be calculated before limit" (`Prime.java:21`) is
  not so. The loop of the calling thread runs to the limit itself, and the last block
  ends at limit + 2 when the number of threads divides the limit, so that a prime
  limit + 1 is listed as well (`Last`): 3 for the limit 2 and two threads. `PastLimit`
  says exactly that, and the theorem `PrimesPastLimit` that nothing further is listed.
* A simulation that begins resets the flag for all of them, and one whose time is
  over stops all of them (`simulate`, `check_if_should_stop_works`). A call of
  /stop without a value takes a stop back, and any text stops, "false" included.
* The driver's top-up does not cover its requests: a request may charge up to 100 in
  each of 21 tries (`istio/retry.yaml`), against 100 paid in per round, and its deposits
  overlap with those charges and can be lost (`Store`, `overtaken`).
* Overlapping updates of one account, of an abandoned try and its successor as well, let
  two charges pass on one balance: `Solvent` and `Balanced` hold for the accounts that
  are not in `overtaken` only.
* A failed call of the calculation service becomes a 500 of the analytics service
  whatever its status was: `int(response.text)` throws before `get_analytics`
  looks at the status (`get_prices`), so that the lines for it are never reached.
* The price carries a noise of up to 20.5 against 3 per calculation under way
  (`price_main`): a loaded service may well be the cheaper answer.
* getAnalytics of the control center joins path and query without a `?`
  (`docker/services/control-center/control-center.py:95`): the analytics
  service answers 404, which the control center wraps in a 200.
* calculateFibonacci can return null for an n above 12, and the caller a 500,
  when two of its threads rebuild the map at the same time (`Move`).
* For a limit less than two below the largest int the bounds wrap (`Wrap`), and
  negative candidates pass `isPrime`, whose loop has no round below 4. The run
  and the theorems go up to the boundary, where `NothingWraps` still holds; one limit
  more violates it, and `OnlyPrimes`.
* A workload query writes into the registered entry, whose `equals` compares it:
  the same service can register a second time (`SetWorkload`,
  `isServiceRegistered`). `ListedIsRecognised` says that it happens to calculations
  only, `SerialListsOnce` when nothing else is listed twice.
* Two endpoints behind one URL that register together can both be granted, and
  one is lost (`GetList`, `AddEntry`, `SetValue`). A put or a removal that overlaps with
  another change of the map can drop any key that came in between, of a service that was
  answered with 200 and listed (`Linked`, `Unlinked`); a URL found dead may then be gone,
  and the null that remove returns ends the round (`Logged`).
* A registration whose name makes no URL, with a space in it, say, ends every round of
  the clean-up (`Controller.java:131`): as long as it is listed, and only an
  overlapping put takes it away, no dead service is removed (`checkHealth`). `DeadAreRemoved` excepts this.
* What registers between the two removes of one URL (`Controller.java:95` and 96) is
  removed as well (`RemoveAgain`).
* When `/fault` sets the frequency to 0 between the two reads of it, `nextInt`
  throws and the call is answered with 500 (`Draw`).
* prime and fibonacci calculate even while calculations are switched off
  (`Receive`, `ReadSwitch`).

### Why the bounds are enough

* Billing: two handlers are all that a race on one entry needs; the accounts are
  independent of each other, so one named account and the absent name cover the
  branches; amounts 1 and 2 make partial, exact and missing cover; four requests
  allow create, deposit and two requests that race on the result. The theorems
  lift the safety properties to any of these constants.
* Flow: one account with a balance of 1 and amounts of 1 make one charge pass and the
  next one fail, and two pass that read before either stores; two requests and one
  retry let an abandoned try race with its successor and with another request; `AllBodies` has every way through
  `calculate2`. The calculation service answers 200, 500 (a failure that is not
  repeated) or 502 (one that is). The code allows 20 retries; nothing in the model
  depends on the number.
* Prime: with three workers the limits -4 to 11 give every remainder, empty
  blocks, blocks that begin and end at primes and at composites, and truncation
  of negative limits. The largest int is 13, so that the last two limits lie where
  the bounds come as close to it as they may.
* Fibonacci: of the arguments up to `MaxElement`, 31, one is negative, one a first
  element, 12 is the last that is never lost, 31 takes eight rounds: the first
  resize, cuts of the map before and after it, and parameters that are missing
  after a loss. One round depends on the one before through the map alone.
* Registry: two threads make two puts, or a put and a removal, overlap at one bin, and
  two additions meet in one list; three registrations leave one that comes later. Of the
  three URLs one stops and starts, one always runs, and one is malformed; a second one
  that stops shows nothing new, as removals do not meet. Two attempts, of which one may be lost, stand
  for the three of the code: what matters is that fewer calls are lost than are
  made, as a health check that loses all its calls is indistinguishable from a
  dead service.
* Driver: two simulations race on the flag, a third one resets it for both; two users
  make the loops over users loops. One round fits into a duration (`InTime`, whose
  rounds take 0.2 s at least); `MaxRounds`, 6, is never reached: `TypeOK` and
  `EverySimulationEnds` would show it. Two calls of /stop; `MaxStops` only keeps the
  state space small.
* Calculation and analytics: two /fault calls give every order of the reads of a
  call and the writes of two settings, and the two settings have a crash, a
  refusal and a draw in them. Two calculations overlap with each other and with the
  query, so that a counter goes up to two and down again while the price is made; one
  of them may be of the first elements of fibonacci, which leave it raised.
  `TwoOrChanges` bounds the product of the two: while settings change, one calculation
  and the query are under way, and the theorems have no such bound. Two values of the
  noise, its ends.

### Fairness

* `CalculateFlow`: only the gateway is fair: for each request that waits, its
  answer or its clock comes. Handlers, billing and calculation may stay silent
  for ever, which is what an HTTP call without a timeout allows.
* `PrimeWorkers`, `FibonacciWorkers`: each thread that can run does (the scheduler
  of the JVM); no fairness between the additions is needed.
* `ServiceRegistry`: the scheduled thread runs; `fixedRate` starts a round again
  after every end of one. Registrations are bounded by `MaxEntries`, so
  `DeadAreRemoved` assumes that new URLs do not keep arriving in every round for
  ever. Nothing makes a service stop, start or register. The property is about a service
  that stays down, once no malformed URL is listed any more.
* `AppDriver`: a simulation that has started goes on. The gateway answers each of
  its calls, if need be with a 504 (`EveryRequestAnswered`), and the call to the
  address that is written into the code is answered or fails. Requests, failures,
  /stop and new simulations are not fair.
* `Billing`, `CalculationService` and `Analytics` state no liveness.

Deadlock checking is off where the system may rightly stop: a returned call
(`prime_workers`), a bounded number of calls (`analytics`, `calc_idle_load`),
simulations that have ended (`app_driver`), requests all answered and no restart
(`flow_charged_twice`).

## 4. Proofs

All theorems hold for every value of the constants allowed by the named
assumptions of the modules.

**Billing** (`BillingProofs`).

* `TypeCorrect`: `Spec => [](TypeOK /\ AmountsValid)`. Balances are natural
  numbers because a handler that is about to load or store has a valid, positive
  amount (`AmountsValid`), and the stored value was computed from a natural one.
* `MoneyConserved`: `NoMoneyCreated` is not inductive, as a store writes a sum
  that was computed earlier from a balance that may have been overwritten since.
  `PendingCovered` bounds the sums in the handlers' hands: by `deposited`, plus
  the own amount for a deposit. `deposited` only grows, which keeps the bound.
* `StatusesMeanWhatTheySay`: `AppliedAtInfo` ties `applied` to the place in the
  handler.
* `SerialRefinesLedger`: assuming `~Overlap`, every step of the handlers is a step
  of the ledger or leaves it alone. The invariant `SerialInv` says that an account
  has at most one handler (`OneHandlerPerUser`) and that therefore what a handler
  knows from its last access is still so (`KnowledgeFresh`).
* `SerialChargesDebit`: under the same assumption and by the same invariant,
  `ChargeDebits`, which `billing_lost_update` violates with overlapping requests.

**Request flow** (`CalculateFlowProofs`).

* `NothingForFree` and `SuccessWasPaid`: by `PaidInv`. `PaidPastCharge` says that
  only tries of calculate2 that charged are at the calculation,
  `AnsweredWasExecuted` that a try answered with 200 got it.
* `RepeatsAreExplained`: a request has one current try, later tries have not
  begun, and every earlier one was given up (`late`) or answered with a gateway
  error; its code never changes again.
* `AtMostOnceWithoutFaults`: if there are no timeouts and the calculation service
  sends no gateway error, all requests stay in their first try (`FirstTryOnly`), and
  `AppliedOnce` holds, which `flow_charged_twice` violates with one 502.
* `FlowTypeCorrect` needs `PendingValid`: a try that is about to store has passed the
  tests of its amount and, for a charge, has read a balance that covers it. What it
  stores is therefore natural although the balance may be another one by then.
* `ChargesAreCovered` and `BooksBalance` are about the accounts on which no update has
  overtaken another one; the code loses updates on the others. A sum over tries is the
  number of the coins that they moved (`Coins`), one set for all of them, so that one
  more try adds a set that has nothing in common with it (`CoinsAdded`, `SumGrows`) and
  no induction over tries is needed. `BooksInv` says: a try that has yet to change the
  accounts has not done so (`NotYetApplied`), the sums are over finite sets of tries
  with natural amounts (`Countable`), what a try has read is still so when it stores
  unless its account is overtaken (`UpToDate`), and charges and balance never exceed
  what was paid in (`Books`). That a try changes the accounts once needs `RepeatInv`:
  the try that the gateway sends next has not begun. Deletions and restarts only take
  money away; without restarts the two sides stay equal for every account that is not
  deleted (`Exact`).

**Prime** (`PrimeProofs`), assuming `NoOverflow`: limits stay two below the
largest int.

* Arithmetic: `BlockFacts` places the blocks, from truncating division and with
  the wrapping shown to do nothing; `BlocksDisjoint` and `BlocksCover` say that
  blocks do not overlap and leave nothing below the remainder; `HalfIsEnough`
  that trial division up to half of a number decides primality, since a proper
  divisor has a cofactor of two or more.
* The inductive invariant `Inv` relates the list to the candidates that have been
  tested: `ListedTested`, `TestedListed` and `Loops` (no loop leaves its range
  backwards, and a call does not return before the loops ended). `Testing` is the
  common step of a worker and the calling thread: a candidate that nobody has
  tested before is added at most once.
* `PrimeTypeCorrect` (with `NothingWraps`, which is about the mathematical values of the
  sums: that the wrapped ones are in range would hold of any limit), `NoPrimeTwice`,
  `PrimesOnly`, `PrimesPastLimit` and `AllPrimes` follow, for any number of processors
  and any interleaving.

**Fibonacci** (`FibonacciProofs`). No theorem needs a bound on the argument or an
assumption about the scheduler.

* `FibTypeCorrect`: `TypeOK`.
* `RightOrLost`: by two invariants on top of `TypeInv`. `RightInv`: an entry of the
  map is right or null, null or missing among those still needed only for a lost
  key, and the parameters of a thread are right or null, too; a step of six
  numbers, 4 F(k-3) + F(k-6) = F(k), is arithmetic on the recurrence
  (`Formula`). `EarlyInv`: in the first two rounds, which n up to 12 have, no thread
  puts its entry while the table is being rebuilt, and no two rebuild it, since
  the size that a thread reads is at most what has been counted.
* `MapIsSmall`: by `MapInv`. A round adds three entries at most, and each thread
  that adds one writes a size that is greater than the one the round began with,
  whatever increments get lost; so there are at most three new entries for each one
  counted, and 28 entries in all.

**Driver** (`AppDriverProofs`), for any list of accounts and number of simulations.

* `DriverTypeCorrect`: with `RoundsBounded` and `AtFirstUser`, which relate the
  counters to the place of a simulation.
* `StopIsHeeded`, by `HeededInv`: a simulation that has sent its one request since
  the flag was set is between that request and the test of the flag.

**Calculation service** (`CalculationProofs`), for any number of calls that
overlap, any statuses and any writes of `/fault`.

* `ServiceTypeCorrect` and `LoadsAreCounted`, by one invariant: a counter is only
  lowered by a call that is among those counted (`PlaceInv` says which type of call
  can be where), so it is natural because it is the size of a finite set, and the
  set changes by one member when the counter changes by one.
* `LoadsWithoutFirstElements`: if no job asks for one of the first elements of
  fibonacci, no call leaks and the counters are the loads, `WorkloadIsLoad`, which
  `calc_idle_load` violates with such jobs.
* `AnswersAreExplained` and `SwitchIsRespected`, by `ExplainInv`: the values in
  force now have been seen by every call in flight (`Sees`), and each test that a
  call has passed was passed on a value that it has seen (`Passed`). `seen` only
  grows during a call, so what was so stays so, although no two reads of a call need
  to have found the same settings.

**Analytics** (`AnalyticsProofs`). `RequestsAreCalls` shows that a behaviour of the
composition is one of the calculation service, so that its invariants are at hand.
`Backed` says of a request at each place where its number comes from: from a load
that its call saw, which is natural, or from a status or a fault that it saw.
`RepliesTyped`, `PricesAreExplained` and `FailuresAreExplained` follow.

**Service repository** (`RegistryProofs`), for any services, any number of
registering threads and of attempts.

* `RegistryTypeCorrect`, by `TypeInv`: with the room that the threads on their way
  to a list still need (`RoomLeft`), and with `CallersUp`, which ties a thread whose
  service has not stopped to the URLs that are up. A list is at least as long as its
  size, and as the size that any thread has read of it, since no slot is ever given back.
* `SteadyServicesStay`, assuming `LostCalls < maxAttempts`. `SteadyAlive` keeps
  `dead` and `steady` apart: a URL that is up fails a health call only while
  `tries < LostCalls`, so its last attempt is never the failing one; `OnlyDeadLeave`
  says that a key leaves the map only as one found dead or as one that came while a
  call was between its two steps (`Overtaken`).
* `ListedAreRecognised`, by `WorkloadsApart`: the entries of anything but calculations
  keep workload 0, which is what `isServiceRegistered` compares with.

The other four theorems assume that one thread serves the registrations (`Serial`);
the services, the queries and the scheduled thread still interleave with it. They rest on
`ThreadsAlone`: what the thread has found in the map, or read of its list, is still so
when it stores, but for keys that the scheduled thread has removed.

* `RemovalsFindEntries`: what a round has found dead is still registered when it is
  removed (`RemovalFindsEntries`). With two threads a put drops it.
* `SerialGrantsAreListed`, assuming also that no service stops and
  `LostCalls < maxAttempts`: `GrantedIsListed`, which `registry_stale_removal` violates
  with a service that comes back. `Reachable` says that a thread at the put finds its
  entry in its list, and that the put overwrites nothing; a round never finds a URL dead.
* `SerialServicesStay`: with failures again, no single service that has been up since
  the round began leaves the lists (`ServicesStay`), unless it was put during the very
  removal that drops it. `SteadyStays` says this of the keys of the map only; a put
  replaces the list behind a key.
* `SerialListsOnce`: no list holds a service twice (`ListedOnce`), those of type
  calculation excepted, whose workload the queries write. By `WorkloadsApart` and
  `Once`: `isServiceRegistered` finds any other service that is listed, and what the
  thread found (`Fresh`) still holds when it adds, since nothing but the thread adds.

Each property that a run finds violated has thus a theorem that says under which
condition it does hold: `SerialChargesDebit`, `AtMostOnceWithoutFaults`,
`LoadsWithoutFirstElements`, `SerialGrantsAreListed`.

Only model-checked: all liveness (`EveryRequestAnswered`, `Returns`, `FibReturns`,
`DeadAreRemoved`, `EverySimulationEnds`), which is out of reach of the prover. Every
safety property of the passing runs is a theorem. The values of `Fib` are taken from its
recurrence (`FibonacciWorkers`); that the recursive function used by TLC satisfies it
would be an induction over data, and is checked for the arguments of the run.

## 5. Plan

1. Done: all services with their own logic, checked; every safety property of the
   runs proved, those that fail under the condition on which they hold.
2. An abstract directory (enter, and forget a URL with all its services, each
   atomic) implemented by `ServiceRegistry` with one registering thread: the invariants
   of `SerialServicesStay` and `SerialListsOnce` are what its proof needs.

## 6. Not modelled

* Queries and endpoints that change nothing: getAccountInfo and getAnalytics of the
  control center, version, health, getRegisteredServices, getMetrics.
* Outlier detection: its counting of errors, its ejections and their times are code
  of Envoy, which the repository only configures.
* Canary routing beyond the choice of a version, and the share of injected faults:
  the weights are probabilities.
* The growth of the collections of the repository, and a workload in the body of a
  registration, which no service sends.
* The copies under `microservices/` that differ from `docker/services/` in ports
  and texts only.
* The Istio release, canvasjs and the monitoring page: vendored or presentation.
* Wording of answers, logging, the estimate of a time (random), real time: a
  timeout may happen at any moment while a try is waiting.
