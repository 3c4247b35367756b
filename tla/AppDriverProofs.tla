--------------------------- MODULE AppDriverProofs ---------------------------
(***************************************************************************)
(* Theorems about the application driver, for any number of simulations    *)
(* and any list of users.                                                  *)
(***************************************************************************)
EXTENDS AppDriver, TLAPS

-----------------------------------------------------------------------------
(* Type correctness.                                                       *)

\* Between the test of the flag and its request a simulation has not reached
\* the bound; what it sent since the flag was set is part of what it sent.
RoundsBounded ==
  \A s \in Sims :
    /\ pc[s] \in {"topup", "send"} => rounds[s] < MaxRounds
    /\ sentSince[s] <= rounds[s]

\* Outside its loops over users, the loop variable is back at the first.
AtFirstUser ==
  \A s \in Sims : pc[s] \in {"new", "test", "send", "check"} => user[s] = 1

TypeInv == TypeOK /\ RoundsBounded /\ AtFirstUser

\* What the assumption says of each constant.
LEMMA ConstantTypes ==
  /\ Len(users) \in Nat /\ Len(users) > 0 /\ 1 \in 1..Len(users)
  /\ InTime \in Nat /\ MaxRounds \in Nat /\ MaxStops \in Nat
BY DriverAssumption

\* Setting or resetting the flag restarts, or keeps, what was counted since.
LEMMA FlagTypes ==
  ASSUME TypeOK, NEW truthy \in BOOLEAN, SetFlag(truthy)
  PROVE  /\ shouldStop' \in BOOLEAN
         /\ sentSince' \in [Sims -> 0..MaxRounds]
         /\ \A s \in Sims : sentSince'[s] = sentSince[s] \/ sentSince'[s] = 0
<1>1. NoneSent \in [Sims -> 0..MaxRounds] /\ \A s \in Sims : NoneSent[s] = 0
  BY ConstantTypes DEF NoneSent
<1> QED
  BY <1>1 DEF SetFlag, TypeOK

\* The inductive step of type correctness.
LEMMA TypeStep == TypeInv /\ [Next]_vars => TypeInv'
<1> SUFFICES ASSUME TypeInv, [Next]_vars
             PROVE  TypeInv'
  OBVIOUS
<1> USE ConstantTypes DEF TypeInv, RoundsBounded, AtFirstUser, At, Goto
<1>1. CASE UNCHANGED vars
  BY <1>1 DEF TypeOK, vars
<1>2. ASSUME NEW s \in Sims, simulate(s)
      PROVE  TypeInv'
  <2>1. /\ shouldStop' \in BOOLEAN
        /\ sentSince' \in [Sims -> 0..MaxRounds]
        /\ \A r \in Sims : sentSince'[r] = sentSince[r] \/ sentSince'[r] = 0
    <3>1. CASE SetFlag(FALSE)
      BY <3>1, FlagTypes
    <3>2. CASE UNCHANGED <<shouldStop, sentSince>>
      BY <3>2 DEF TypeOK
    <3> QED
      BY <1>2, <3>1, <3>2 DEF simulate
  <2>2. UNCHANGED <<user, rounds, over, stops>>
    BY <1>2 DEF simulate
  <2>3. pc' = [pc EXCEPT ![s] = "ended"] \/ pc' = [pc EXCEPT ![s] = "create"]
    BY <1>2 DEF simulate
  <2>4. TypeOK'
    BY <2>1, <2>2, <2>3 DEF TypeOK
  <2>5. ASSUME NEW r \in Sims
        PROVE  /\ pc'[r] \in {"topup", "send"} => rounds'[r] < MaxRounds
               /\ pc'[r] \in {"new", "test", "send", "check"} => user'[r] = 1
    BY <2>2, <2>3 DEF TypeOK
  <2>6. ASSUME NEW r \in Sims
        PROVE  sentSince'[r] <= rounds'[r]
    <3>1. sentSince'[r] = sentSince[r] \/ sentSince'[r] = 0
      BY <2>1
    <3>2. rounds'[r] = rounds[r] /\ rounds[r] \in Nat /\ sentSince[r] <= rounds[r]
      BY <2>2 DEF TypeOK
    <3> QED
      BY <3>1, <3>2
  <2> QED
    BY <2>4, <2>5, <2>6
<1>3. ASSUME NEW s \in Sims, Create(s)
      PROVE  TypeInv'
  BY <1>3 DEF TypeOK, Create
<1>4. ASSUME NEW s \in Sims, Deposit(s)
      PROVE  TypeInv'
  <2>1. /\ user' \in [Sims -> 1..Len(users)]
        /\ pc' \in [Sims -> {"new", "create", "deposit", "test", "topup",
                             "send", "check", "ended"}]
        /\ AtFirstUser'
    BY <1>4, SMTT(20) DEF TypeOK, Deposit, NextUser
  <2> QED
    BY <1>4, <2>1 DEF TypeOK, Deposit, NextUser
<1>5. ASSUME NEW s \in Sims, Test(s)
      PROVE  TypeInv'
  BY <1>5 DEF TypeOK, Test
<1>6. ASSUME NEW s \in Sims, TopUpAccount(s)
      PROVE  TypeInv'
  <2>1. /\ user' \in [Sims -> 1..Len(users)]
        /\ pc' \in [Sims -> {"new", "create", "deposit", "test", "topup",
                             "send", "check", "ended"}]
    BY <1>6, SMTT(20) DEF TypeOK, TopUpAccount, NextUser
  <2>2. AtFirstUser'
    BY <1>6 DEF TypeOK, TopUpAccount, NextUser
  <2>3. RoundsBounded'
    BY <1>6 DEF TypeOK, TopUpAccount, NextUser
  <2>4. UNCHANGED <<shouldStop, rounds, over, stops, sentSince>>
    BY <1>6 DEF TopUpAccount
  <2> QED
    BY <2>1, <2>2, <2>3, <2>4 DEF TypeOK
<1>7. ASSUME NEW s \in Sims, Send(s)
      PROVE  TypeInv'
  <2>1. rounds[s] + 1 \in 1..MaxRounds
    BY <1>7 DEF TypeOK, Send
  <2>2. sentSince' \in [Sims -> 0..MaxRounds] /\ RoundsBounded'
    BY <1>7, <2>1, SMTT(20) DEF TypeOK, Send
  <2> QED
    BY <1>7, <2>1, <2>2, SMTT(20) DEF TypeOK, Send
<1>8. ASSUME NEW s \in Sims, check_if_should_stop_works(s)
      PROVE  TypeInv'
  <2>1. /\ shouldStop' \in BOOLEAN
        /\ sentSince' \in [Sims -> 0..MaxRounds]
        /\ \A r \in Sims : sentSince'[r] = sentSince[r] \/ sentSince'[r] = 0
    <3>1. CASE SetFlag(TRUE)
      BY <3>1, FlagTypes
    <3>2. CASE UNCHANGED <<shouldStop, sentSince>>
      BY <3>2 DEF TypeOK
    <3> QED
      BY <1>8, <3>1, <3>2 DEF check_if_should_stop_works
  <2>2. UNCHANGED <<user, rounds, stops>>
    BY <1>8 DEF check_if_should_stop_works
  <2>3. /\ pc' = [pc EXCEPT ![s] = "ended"] \/ pc' = [pc EXCEPT ![s] = "test"]
        /\ pc[s] = "check"
    BY <1>8 DEF check_if_should_stop_works
  <2>4. over' \in [Sims -> BOOLEAN]
    BY <1>8 DEF TypeOK, check_if_should_stop_works
  <2>5. TypeOK'
    BY <2>1, <2>2, <2>3, <2>4 DEF TypeOK
  <2>6. ASSUME NEW r \in Sims
        PROVE  /\ pc'[r] \in {"topup", "send"} => rounds'[r] < MaxRounds
               /\ pc'[r] \in {"new", "test", "send", "check"} => user'[r] = 1
    BY <2>2, <2>3 DEF TypeOK
  <2>7. ASSUME NEW r \in Sims
        PROVE  sentSince'[r] <= rounds'[r]
    <3>1. sentSince'[r] = sentSince[r] \/ sentSince'[r] = 0
      BY <2>1
    <3>2. rounds'[r] = rounds[r] /\ rounds[r] \in Nat /\ sentSince[r] <= rounds[r]
      BY <2>2 DEF TypeOK
    <3> QED
      BY <3>1, <3>2
  <2> QED
    BY <2>5, <2>6, <2>7
<1>9. ASSUME NEW s \in Sims, Unreachable(s)
      PROVE  TypeInv'
  BY <1>9 DEF TypeOK, Unreachable
<1>10. ASSUME NEW v \in StopValues, stop(v)
       PROVE  TypeInv'
  <2>1. /\ shouldStop' \in BOOLEAN
        /\ sentSince' \in [Sims -> 0..MaxRounds]
        /\ \A r \in Sims : sentSince'[r] = sentSince[r] \/ sentSince'[r] = 0
    <3>1. Truthy(v) \in BOOLEAN
      BY DEF Truthy
    <3> QED
      BY <1>10, <3>1, FlagTypes DEF stop
  <2>2. UNCHANGED <<pc, user, rounds, over>>
    BY <1>10 DEF stop
  <2>3. stops' \in 0..MaxStops
    BY <1>10 DEF TypeOK, stop
  <2>4. TypeOK'
    BY <2>1, <2>2, <2>3 DEF TypeOK
  <2>5. ASSUME NEW r \in Sims
        PROVE  sentSince'[r] <= rounds'[r]
    <3>1. sentSince'[r] = sentSince[r] \/ sentSince'[r] = 0
      BY <2>1
    <3>2. rounds'[r] = rounds[r] /\ rounds[r] \in Nat /\ sentSince[r] <= rounds[r]
      BY <2>2 DEF TypeOK
    <3> QED
      BY <3>1, <3>2
  <2> QED
    BY <2>2, <2>4, <2>5
<1> QED
  BY <1>1, <1>2, <1>3, <1>4, <1>5, <1>6, <1>7, <1>8, <1>9, <1>10 DEF Next, Run

LEMMA TypeInit == Init => TypeInv
<1> SUFFICES ASSUME Init
             PROVE  TypeInv
  OBVIOUS
<1>2. TypeOK
  <2>1. shouldStop \in BOOLEAN
    BY DEF Init
  <2>2. /\ pc \in [Sims -> {"new", "create", "deposit", "test", "topup", "send",
                      "check", "ended"}]
    BY DEF Init
  <2>3. /\ user \in [Sims -> 1..Len(users)]
    BY ConstantTypes DEF Init
  <2>4. /\ rounds \in [Sims -> 0..MaxRounds]
    BY ConstantTypes DEF Init
  <2>5. over \in [Sims -> BOOLEAN]
    BY DEF Init
  <2>6. stops \in 0..MaxStops /\ sentSince \in [Sims -> 0..MaxRounds]
    BY ConstantTypes DEF Init, NoneSent
  <2> QED
    BY <2>1, <2>2, <2>3, <2>4, <2>5, <2>6 DEF TypeOK
<1>1. RoundsBounded /\ AtFirstUser
  BY DEF Init, RoundsBounded, AtFirstUser, NoneSent
<1> QED
  BY <1>1, <1>2 DEF TypeInv

LEMMA TypeInvariant == Spec => []TypeInv
BY TypeInit, TypeStep, PTL DEF Spec

\* Whatever is stopped, fails or is started in parallel, no loop over the users
\* leaves the list and no simulation exceeds its bound.
THEOREM DriverTypeCorrect == Spec => []TypeOK
BY TypeInvariant, PTL DEF TypeInv

-----------------------------------------------------------------------------
(* The stop flag.                                                          *)

\* A simulation that has sent its one request since the flag was set is past
\* its request and will meet the test of the flag next; nothing is counted
\* while the flag is not set.
HeededInv ==
  \A s \in Sims :
    /\ sentSince[s] = 0 \/ (shouldStop /\ sentSince[s] = 1)
    /\ sentSince[s] = 1 => pc[s] \in {"check", "test", "ended"}

LEMMA HeededInit == Init => HeededInv
<1> SUFFICES ASSUME Init
             PROVE  HeededInv
  OBVIOUS
<1>1. \A s \in Sims : sentSince[s] = 0
  BY DEF Init, NoneSent
<1>2. 0 # 1
  OBVIOUS
<1> QED
  BY <1>1, <1>2, Zenon DEF HeededInv

\* The inductive step: only a request adds to the count, and it comes after
\* a test that found the flag not set.
LEMMA HeededStep == TypeOK /\ HeededInv /\ [Next]_vars => HeededInv'
<1> SUFFICES ASSUME TypeOK, HeededInv, [Next]_vars
             PROVE  HeededInv'
  OBVIOUS
<1> USE DEF At, Goto
<1>1. CASE UNCHANGED vars
  BY <1>1 DEF HeededInv, vars
<1>2. ASSUME NEW s \in Sims, simulate(s)
      PROVE  HeededInv'
  BY <1>2 DEF TypeOK, HeededInv, simulate, SetFlag, NoneSent
<1>3. ASSUME NEW s \in Sims, Create(s)
      PROVE  HeededInv'
  BY <1>3 DEF TypeOK, HeededInv, Create
<1>4. ASSUME NEW s \in Sims, Deposit(s)
      PROVE  HeededInv'
  BY <1>4 DEF TypeOK, HeededInv, Deposit, NextUser
<1>5. ASSUME NEW s \in Sims, Test(s)
      PROVE  HeededInv'
  BY <1>5 DEF TypeOK, HeededInv, Test
<1>6. ASSUME NEW s \in Sims, TopUpAccount(s)
      PROVE  HeededInv'
  BY <1>6 DEF TypeOK, HeededInv, TopUpAccount, NextUser
<1>7. ASSUME NEW s \in Sims, Send(s)
      PROVE  HeededInv'
  BY <1>7 DEF TypeOK, HeededInv, Send
<1>8. ASSUME NEW s \in Sims, check_if_should_stop_works(s)
      PROVE  HeededInv'
  BY <1>8 DEF TypeOK, HeededInv, check_if_should_stop_works, SetFlag
<1>9. ASSUME NEW s \in Sims, Unreachable(s)
      PROVE  HeededInv'
  BY <1>9 DEF TypeOK, HeededInv, Unreachable
<1>10. ASSUME NEW v \in StopValues, stop(v)
       PROVE  HeededInv'
  BY <1>10 DEF HeededInv, stop, SetFlag, NoneSent
<1> QED
  BY <1>1, <1>2, <1>3, <1>4, <1>5, <1>6, <1>7, <1>8, <1>9, <1>10
     DEF Next, Run

\* StopHeeded: a set flag that nobody resets lets each simulation send one
\* more request at most, for any number of simulations.
THEOREM StopIsHeeded == Spec => []StopHeeded
<1>1. HeededInv => StopHeeded
  <2>1. HeededInv => \A s \in Sims : sentSince[s] \in {0, 1}
    BY DEF HeededInv
  <2>2. \A n \in {0, 1} : n <= 1
    OBVIOUS
  <2> QED
    BY <2>1, <2>2 DEF StopHeeded
<1>2. Spec => []HeededInv
  BY DriverTypeCorrect, HeededInit, HeededStep, PTL DEF Spec
<1> QED
  BY <1>1, <1>2, PTL
=============================================================================
