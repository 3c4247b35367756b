------------------------------ MODULE AppDriver ------------------------------
(***************************************************************************)
(* The application driver (microservices/app-driver/calculation-driver.py). *)
(* Every call of /simulate is a Flask thread; all of them share the flag   *)
(* shouldStop, which each one resets at its start and sets when its time   *)
(* is over, and which /stop overwrites.                                    *)
(*                                                                         *)
(* The driver looks at no status and at no answer, so what its calls do to *)
(* the accounts comes back to nothing here: modules Billing and            *)
(* CalculateFlow say what they do.  What counts is when calls are made.    *)
(***************************************************************************)
EXTENDS Integers, Sequences

CONSTANTS
  Sims,        \* the calls of /simulate
  users,       \* the list of account names
  StopValues,  \* the values of the parameter of /stop
  None,        \* its value when it is absent
  InTime,      \* bound: the rounds that fit into the duration of a simulation
  MaxRounds,   \* bound: the rounds of a simulation, never reached
  MaxStops     \* bound: the calls of /stop

ASSUME DriverAssumption ==
  /\ Len(users) \in Nat \ {0}
  /\ {InTime, MaxRounds, MaxStops} \subseteq Nat

VARIABLES
  shouldStop,  \* is the flag truthy?
  pc,          \* pc[s]: the next call or test of simulation s
  user,        \* user[s]: the loop variable of s, an index of users
  rounds,      \* rounds[s]: the number of requests s has sent
  over,        \* over[s]: is the duration of s known to be over?
  stops,       \* the number of calls of /stop
  sentSince    \* history: what s has sent since the flag was set

vars == <<shouldStop, pc, user, rounds, over, stops, sentSince>>

NoneSent == [s \in Sims |-> 0]

Init ==
  /\ shouldStop = FALSE
  /\ pc = [s \in Sims |-> "new"]
  /\ user = [s \in Sims |-> 1]
  /\ rounds = [s \in Sims |-> 0]
  /\ over = [s \in Sims |-> FALSE]
  /\ stops = 0
  /\ sentSince = NoneSent

-----------------------------------------------------------------------------
(* simulate.                                                               *)

At(s, place) == pc[s] = place
Goto(s, place) == pc' = [pc EXCEPT ![s] = place]

\* A mutant of NextUser: the loop runs one step too far.
NextUserPastEnd(s, loop, after) ==
  /\ Goto(s, IF user[s] <= Len(users) THEN loop ELSE after)
  /\ user' = [user EXCEPT ![s] = IF @ <= Len(users) THEN @ + 1 ELSE 1]

\* The loops over users: the place after the call for user[s].
NextUser(s, loop, after) ==
  /\ Goto(s, IF user[s] < Len(users) THEN loop ELSE after)
  /\ user' = [user EXCEPT ![s] = IF @ < Len(users) THEN @ + 1 ELSE 1]

SetFlag(truthy) ==
  /\ shouldStop' = truthy
  /\ sentSince' = IF truthy THEN sentSince ELSE NoneSent

\* The URL is built before anything else; without a port or an address that
\* is a TypeError.
simulate(s) ==
  /\ At(s, "new")
  /\ \/ Goto(s, "ended") /\ UNCHANGED <<shouldStop, sentSince>>
     \/ Goto(s, "create") /\ SetFlag(FALSE)
  /\ UNCHANGED <<user, rounds, over, stops>>

\* requests.post(url_create) and, for the same user, requests.post(url_deposit)
Create(s) ==
  /\ At(s, "create")
  /\ Goto(s, "deposit")
  /\ UNCHANGED <<shouldStop, user, rounds, over, stops, sentSince>>

Deposit(s) ==
  /\ At(s, "deposit")
  /\ NextUser(s, "create", "test")
  /\ UNCHANGED <<shouldStop, rounds, over, stops, sentSince>>

\* A mutant of Test: without the global declaration of simulate, shouldStop is
\* a local variable, which stays False.
TestLocal(s) ==
  /\ At(s, "test")
  /\ rounds[s] < MaxRounds
  /\ Goto(s, "topup")
  /\ UNCHANGED <<shouldStop, user, rounds, over, stops, sentSince>>

\* while not shouldStop
Test(s) ==
  /\ At(s, "test")
  /\ rounds[s] < MaxRounds
  /\ Goto(s, IF shouldStop THEN "ended" ELSE "topup")
  /\ UNCHANGED <<shouldStop, user, rounds, over, stops, sentSince>>

TopUpAccount(s) ==
  /\ At(s, "topup")
  /\ NextUser(s, "topup", "send")
  /\ UNCHANGED <<shouldStop, rounds, over, stops, sentSince>>

\* A thread of its own posts calculate2; nobody waits for it.
Send(s) ==
  /\ At(s, "send")
  /\ rounds' = [rounds EXCEPT ![s] = @ + 1]
  /\ sentSince' = [sentSince EXCEPT ![s] = IF shouldStop THEN @ + 1 ELSE @]
  /\ Goto(s, "check")
  /\ UNCHANGED <<shouldStop, user, over, stops>>

\* A mutant of check_if_should_stop_works: = in the place of <=.
CheckTheMoment(s) ==
  /\ At(s, "check")
  /\ \/ Goto(s, "ended") /\ UNCHANGED <<shouldStop, over, sentSince>>
     \/ \E o \in {over[s], TRUE} :
          /\ rounds[s] >= InTime => o
          /\ over' = [over EXCEPT ![s] = o]
          /\ IF o /\ ~over[s] THEN SetFlag(TRUE)
             ELSE UNCHANGED <<shouldStop, sentSince>>
          /\ Goto(s, "test")
  /\ UNCHANGED <<user, rounds, stops>>

\* The call of getAnalytics, which changes nothing, and the test of the time.
\* A duration that is no number is an uncaught error, as is a failed call.
check_if_should_stop_works(s) ==
  /\ At(s, "check")
  /\ \/ Goto(s, "ended") /\ UNCHANGED <<shouldStop, over, sentSince>>
     \/ \E o \in {over[s], TRUE} :
          /\ rounds[s] >= InTime => o
          /\ over' = [over EXCEPT ![s] = o]
          /\ IF o THEN SetFlag(TRUE) ELSE UNCHANGED <<shouldStop, sentSince>>
          /\ Goto(s, "test")
  /\ UNCHANGED <<user, rounds, stops>>

\* The gateway cannot be reached: requests throws, and nobody catches it.
Unreachable(s) ==
  /\ pc[s] \in {"create", "deposit", "topup"}
  /\ Goto(s, "ended")
  /\ UNCHANGED <<shouldStop, user, rounds, over, stops, sentSince>>

-----------------------------------------------------------------------------
(* /stop.                                                                  *)

Truthy(v) == v \notin {None, ""}

\* The parameter is stored as it is: "false" stops, no value goes on.
stop(v) ==
  /\ stops < MaxStops
  /\ SetFlag(Truthy(v))
  /\ stops' = stops + 1
  /\ UNCHANGED <<pc, user, rounds, over>>

-----------------------------------------------------------------------------

Run(s) ==
  \/ Create(s) \/ Deposit(s) \/ Test(s) \/ TopUpAccount(s) \/ Send(s)
  \/ check_if_should_stop_works(s) \/ Unreachable(s)

Next ==
  \/ \E s \in Sims : simulate(s) \/ Run(s)
  \/ \E v \in StopValues : stop(v)

\* A simulation that has started goes on: the gateway answers its calls.
Fairness == \A s \in Sims : WF_vars(Run(s))

Spec == Init /\ [][Next]_vars /\ Fairness

-----------------------------------------------------------------------------

\* The fields keep their types: the loops over users end with the list, and no
\* simulation needs more rounds than the bound allows.
TypeOK ==
  /\ shouldStop \in BOOLEAN
  /\ pc \in [Sims -> {"new", "create", "deposit", "test", "topup", "send",
                      "check", "ended"}]
  /\ user \in [Sims -> 1..Len(users)]
  /\ rounds \in [Sims -> 0..MaxRounds]
  /\ over \in [Sims -> BOOLEAN]
  /\ stops \in 0..MaxStops
  /\ sentSince \in [Sims -> 0..MaxRounds]

\* Once the flag is set, by /stop or by the end of any simulation, and as long
\* as nobody resets it, each simulation sends one more request at most.
StopHeeded == shouldStop => \A s \in Sims : sentSince[s] <= 1

\* Every simulation ends (none is new twice), although others reset the flag
\* that it has set: its own time is over in every later round, too.
EverySimulationEnds ==
  \A s \in Sims : []<>(pc[s] \in {"new", "ended"})
=============================================================================
