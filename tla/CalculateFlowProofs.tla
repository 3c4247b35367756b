------------------------ MODULE CalculateFlowProofs ------------------------
(***************************************************************************)
(* Theorems about the request flow, for any set of requests and of users,  *)
(* any retry policy and any behaviour of the calculation service.          *)
(***************************************************************************)
EXTENDS CalculateFlow, FiniteSetTheorems, TLAPS

-----------------------------------------------------------------------------
(* Type correctness.                                                       *)

\* A try is a pair of a request and a number.
LEMMA TryFields ==
  ASSUME NEW a \in Tries
  PROVE  a[1] \in Requests /\ a[2] \in 0..Attempts /\ a = <<a[1], a[2]>>
BY DEF Tries

\* What a try is about to store has passed the tests of its amount.
PendingValid ==
  \A a \in Tries : pc[a] = "store" =>
    /\ Op(a) \notin {"createAccount", "deleteAccount"} => ValidAmount(a)
    /\ Charges(a) => Amount(a) <= read[a]

TypeInv == TypeOK /\ PendingValid

\* The amounts that pass the tests.
LEMMA ValidAmounts ==
  ASSUME TypeOK, NEW a \in Tries
  PROVE  /\ User(a) \in Users /\ Op(a) \in Ops
         /\ ValidAmount(a) => Amount(a) \in Nat /\ Amount(a) > 0
BY TryFields, BodyAssumption DEF TypeOK, User, Op, ValidAmount, Amount

\* What a user holds is a natural number, 0 without an account.
LEMMA HoldsType ==
  ASSUME TypeOK, NEW u
  PROVE  Holds(balance, u) \in Nat
BY DEF TypeOK, Holds

\* A store keeps the accounts well-typed: a charge is covered by what was read.
LEMMA StoreType ==
  ASSUME TypeInv, NEW a \in Tries, pc[a] = "store", Store(a)
  PROVE  /\ DOMAIN balance' \subseteq Users
         /\ balance' \in [DOMAIN balance' -> Nat]
         /\ read' \in [Tries -> Nat]
         /\ applied' \subseteq Tries
         /\ overtaken' \subseteq Users
         /\ UNCHANGED executed
<1>1. User(a) \in Users /\ Op(a) \in Ops
  BY ValidAmounts DEF TypeInv
<1>2. read[a] \in Nat
  BY DEF TypeInv, TypeOK
<1>3. NewBalance(a) \in Nat
  <2>1. CASE Charges(a)
    <3>1. ValidAmount(a) /\ Amount(a) <= read[a]
      BY <2>1 DEF TypeInv, PendingValid, Charges
    <3>2. Amount(a) \in Nat
      BY <3>1, ValidAmounts DEF TypeInv
    <3> QED
      BY <1>2, <2>1, <3>1, <3>2 DEF NewBalance
  <2>2. CASE ~Charges(a) /\ Op(a) = "depositAccount"
    <3>1. ValidAmount(a)
      BY <2>2 DEF TypeInv, PendingValid
    <3>2. Amount(a) \in Nat
      BY <3>1, ValidAmounts DEF TypeInv
    <3> QED
      BY <1>2, <2>2, <3>2 DEF NewBalance
  <2>3. CASE ~Charges(a) /\ Op(a) # "depositAccount"
    BY <2>3 DEF NewBalance
  <2> QED
    BY <2>1, <2>2, <2>3
<1>4. DOMAIN balance' \subseteq Users /\ balance' \in [DOMAIN balance' -> Nat]
  <2>1. CASE UNCHANGED balance
    BY <2>1 DEF TypeInv, TypeOK
  <2>2. CASE balance' = Ledger!Del(balance, User(a))
    BY <2>2 DEF TypeInv, TypeOK, Ledger!Del
  <2>3. CASE balance' = Ledger!Put(balance, User(a), NewBalance(a))
    BY <1>1, <1>3, <2>3 DEF TypeInv, TypeOK, Ledger!Put
  <2> QED
    BY <2>1, <2>2, <2>3 DEF Store
<1>5. read' \in [Tries -> Nat]
  BY DEF TypeInv, TypeOK, Store
<1> QED
  BY <1>1, <1>4, <1>5 DEF TypeInv, TypeOK, Store

\* A read of the accounts keeps everything well-typed, and what will be stored
\* has passed the tests.
LEMMA LoadType ==
  ASSUME TypeInv, NEW a \in Tries, pc[a] # "store", NEW c \in {200, 400}, Load(a, c)
  PROVE  TypeInv'
<1>1. Holds(balance, User(a)) \in Nat
  BY HoldsType DEF TypeInv
<1>2. TypeOK'
  <2>1. read' \in [Tries -> Nat] /\ UNCHANGED <<balance, applied, executed, overtaken>>
    BY <1>1 DEF TypeInv, TypeOK, Load
  <2>2. Goto(a, "store") \/ Reply(a, c)
    BY DEF Load
  <2>3. CASE Goto(a, "store")
    BY <2>1, <2>3 DEF TypeInv, TypeOK, Goto
  <2>4. CASE Reply(a, c)
    BY <2>1, <2>4 DEF TypeInv, TypeOK, Reply
  <2> QED
    BY <2>2, <2>3, <2>4
<1>3. CASE Granted(a)
  <2>1. /\ \A b \in Tries \ {a} : pc'[b] = pc[b] /\ read'[b] = read[b]
        /\ read'[a] = Holds(balance, User(a)) /\ UNCHANGED body
    BY <1>3 DEF TypeInv, TypeOK, Load, Goto
  <2>2. Op(a) \notin {"createAccount", "deleteAccount"} => ValidAmount(a)
    BY <1>3 DEF Granted
  <2>3. Charges(a) => Amount(a) <= Holds(balance, User(a))
    <3> SUFFICES ASSUME Charges(a)
                 PROVE  Amount(a) <= Holds(balance, User(a))
      OBVIOUS
    <3>1. ValidAmount(a) /\ Exists(a) /\ balance[User(a)] >= Amount(a)
      BY <1>3 DEF Granted, Charges
    <3>2. Amount(a) \in Nat /\ balance[User(a)] \in Nat
      BY <3>1, ValidAmounts DEF TypeInv, TypeOK, Exists
    <3> QED
      BY <3>1, <3>2 DEF Holds, Exists
  <2> QED
    BY <1>2, <2>1, <2>2, <2>3
       DEF TypeInv, PendingValid, Op, Charges, Amount, ValidAmount
<1>4. CASE ~Granted(a)
  BY <1>2, <1>4 DEF TypeInv, TypeOK, PendingValid, Load, Reply, Op, Charges, Amount,
                    ValidAmount
<1> QED
  BY <1>3, <1>4

\* PendingValid does not care about steps that put nobody before a store.
LEMMA PendingKept ==
  ASSUME PendingValid, UNCHANGED body,
         \A a \in Tries : pc'[a] = "store" => pc[a] = "store" /\ read'[a] = read[a]
  PROVE  PendingValid'
BY DEF PendingValid, Op, Charges, Amount, ValidAmount

\* The inductive step of type correctness.
LEMMA TypeStep == TypeInv /\ [Next]_vars => TypeInv'
<1> SUFFICES ASSUME TypeInv, [Next]_vars
             PROVE  TypeInv'
  OBVIOUS
<1> USE PolicyAssumption
<1>1. CASE UNCHANGED vars
  BY <1>1 DEF TypeInv, TypeOK, PendingValid, Op, Charges, Amount, ValidAmount, vars
<1>2. ASSUME NEW a \in Tries, NEW l \in {"info", "charged", "calculate"}, Goto(a, l),
             UNCHANGED <<balance, read, applied, executed, overtaken>>
      PROVE  TypeInv'
  <2>1. TypeOK'
    BY <1>2 DEF TypeInv, TypeOK, Goto
  <2> QED
    BY <1>2, <2>1, PendingKept DEF TypeInv, TypeOK, Goto
<1>3. ASSUME NEW a \in Tries, NEW c \in 100..599, Reply(a, c),
             UNCHANGED <<balance, read, applied, overtaken>>,
             executed' \subseteq Tries \/ UNCHANGED executed
      PROVE  TypeInv'
  <2>1. TypeOK'
    BY <1>3 DEF TypeInv, TypeOK, Reply
  <2> QED
    BY <1>3, <2>1, PendingKept DEF TypeInv, TypeOK, Reply
<1>4. ASSUME NEW a \in Tries, pc[a] = "store", Store(a),
             Reply(a, 200) \/ Goto(a, "charged")
      PROVE  TypeInv'
  <2>1. TypeOK'
    <3>1. /\ DOMAIN balance' \subseteq Users
          /\ balance' \in [DOMAIN balance' -> Nat]
          /\ read' \in [Tries -> Nat]
          /\ applied' \subseteq Tries
          /\ overtaken' \subseteq Users
          /\ UNCHANGED executed
      BY <1>4, StoreType
    <3> QED
      BY <1>4, <3>1 DEF TypeInv, TypeOK, Reply, Goto
  <2>2. \A b \in Tries : pc'[b] = "store" => pc[b] = "store" /\ read'[b] = read[b]
    BY <1>4 DEF TypeInv, TypeOK, Reply, Goto, Store
  <2>3. UNCHANGED body
    BY <1>4 DEF Reply, Goto
  <2> QED
    BY <2>1, <2>2, <2>3, PendingKept DEF TypeInv
<1>5. ASSUME NEW a \in Tries, Handle(a)
      PROVE  TypeInv'
  <2>1. CASE passThrough(a)
    BY <1>4, <2>1, LoadType DEF passThrough
  <2>2. CASE calculate2(a)
    <3>1. CASE Goto(a, "info")
      BY <1>2, <2>2, <3>1 DEF calculate2
    <3>2. CASE Reply(a, 400) \/ Reply(a, 500)
      BY <1>3, <2>2, <3>2 DEF calculate2
    <3> QED
      BY <2>2, <3>1, <3>2 DEF calculate2
  <2>3. CASE get_account_info_(a)
    <3>1. CASE Goto(a, "charge")
      <4>1. TypeOK'
        BY <2>3, <3>1 DEF TypeInv, TypeOK, get_account_info_, Goto
      <4> QED
        BY <2>3, <3>1, <4>1, PendingKept DEF TypeInv, TypeOK, get_account_info_, Goto
    <3>2. CASE Reply(a, 400)
      BY <1>3, <2>3, <3>2 DEF get_account_info_
    <3> QED
      BY <2>3, <3>1, <3>2 DEF get_account_info_
  <2>4. CASE charge_account_(a)
    BY <1>4, <2>4, LoadType DEF charge_account_
  <2>5. CASE charge_response(a)
    <3>1. CASE Goto(a, "calculate")
      BY <1>2, <2>5, <3>1 DEF charge_response
    <3>2. CASE Reply(a, 400)
      BY <1>3, <2>5, <3>2 DEF charge_response
    <3> QED
      BY <2>5, <3>1, <3>2 DEF charge_response
  <2>6. CASE requestCalculation(a)
    <3>1. PICK c \in CalcCodes \cup {403} : Reply(a, c)
      BY <2>6 DEF requestCalculation
    <3>2. executed' \subseteq Tries
      BY <2>6 DEF TypeInv, TypeOK, requestCalculation
    <3>3. c \in 100..599
      BY CodesAssumption
    <3> QED
      BY <1>3, <2>6, <3>1, <3>2, <3>3 DEF requestCalculation
  <2> QED
    BY <1>5, <2>1, <2>2, <2>3, <2>4, <2>5, <2>6 DEF Handle
<1>6. CASE BillingRestart
  <2>1. DOMAIN balance' \subseteq Users /\ balance' \in [DOMAIN balance' -> Nat]
    BY <1>6 DEF BillingRestart, Ledger!Empty
  <2>2. pc' \in [Tries -> {"none", "start", "info", "charge", "store", "charged",
                         "calculate", "done"}]
    BY <1>6 DEF TypeInv, TypeOK, BillingRestart
  <2>3. code' \in [Tries -> {0} \cup 100..599]
    BY <1>6 DEF TypeInv, TypeOK, BillingRestart
  <2>4. \A a \in Tries : pc'[a] # "store"
    BY <1>6 DEF BillingRestart
  <2>5. TypeOK'
    BY <1>6, <2>1, <2>2, <2>3 DEF TypeInv, TypeOK, BillingRestart
  <2> QED
    BY <2>4, <2>5 DEF TypeInv, PendingValid
<1>7. ASSUME NEW r \in Requests, NEW k \in 0..Attempts, Forward(r, k),
             UNCHANGED <<balance, read, applied, executed, overtaken>>,
             late' \subseteq Tries
      PROVE  TypeInv'
  <2>1. TypeOK'
    BY <1>7 DEF TypeInv, TypeOK, Forward
  <2> QED
    BY <1>7, <2>1, PendingKept DEF TypeInv, TypeOK, Forward
<1>8. ASSUME NEW r \in Requests, NEW c \in {0} \cup 100..599, Finish(r, c),
             UNCHANGED <<balance, read, applied, executed, overtaken>>,
             late' \subseteq Tries
      PROVE  TypeInv'
  <2>1. TypeOK'
    BY <1>8 DEF TypeInv, TypeOK, Finish
  <2> QED
    BY <1>8, <2>1, PendingKept DEF TypeInv, TypeOK, Finish
<1>9. ASSUME NEW r \in Requests, Gateway(r)
      PROVE  TypeInv'
  <2>1. code[<<r, try[r]>>] \in {0} \cup 100..599
    BY DEF TypeInv, TypeOK, Tries
  <2>2. try[r] < Attempts => try[r] + 1 \in 0..Attempts
    BY DEF TypeInv, TypeOK
  <2>3. CASE Receive(r)
    BY <1>7, <2>3 DEF Receive, TypeInv, TypeOK
  <2>4. CASE Response(r)
    <3>1. UNCHANGED <<balance, read, applied, executed, overtaken>> /\ late' \subseteq Tries
      BY <2>4 DEF Response, TypeInv, TypeOK
    <3>2. CASE try[r] < Attempts /\ Forward(r, try[r] + 1)
      BY <1>7, <2>2, <3>1, <3>2
    <3>3. CASE Finish(r, code[<<r, try[r]>>])
      BY <1>8, <2>1, <3>1, <3>3
    <3> QED
      BY <2>4, <3>2, <3>3 DEF Response
  <2>5. CASE TryTimeout(r)
    <3>1. late' \subseteq Tries
      BY <2>5 DEF TryTimeout, TypeInv, TypeOK, Tries
    <3>2. UNCHANGED <<balance, read, applied, executed, overtaken>>
      BY <2>5 DEF TryTimeout
    <3>3. CASE try[r] < Attempts /\ Forward(r, try[r] + 1)
      BY <1>7, <2>2, <3>1, <3>2, <3>3
    <3>4. CASE Finish(r, 504)
      BY <1>8, <3>1, <3>2, <3>4
    <3> QED
      BY <2>5, <3>3, <3>4 DEF TryTimeout
  <2> QED
    BY <1>9, <2>3, <2>4, <2>5 DEF Gateway
<1> QED
  BY <1>1, <1>5, <1>6, <1>9 DEF Next

\* The initial state is well-typed.
LEMMA TypeInit == Init => TypeInv
BY PolicyAssumption, OpeningAssumption DEF Init, TypeInv, TypeOK, PendingValid

LEMMA TypeInvariant == Spec => []TypeInv
BY TypeInit, TypeStep, PTL DEF Spec

\* Every reachable state of the request flow is well-typed; no order of
\* retries, refusals and restarts, and no change of an account that overtakes
\* another one, takes a balance below zero.
THEOREM FlowTypeCorrect == Spec => []TypeOK
<1>1. TypeInv => TypeOK
  BY DEF TypeInv
<1> QED
  BY <1>1, TypeInvariant, PTL

-----------------------------------------------------------------------------
(* Paid before executed.                                                   *)

\* A try that is past the charge has charged, and only calculate2 gets there.
PaidPastCharge ==
  \A a \in Tries :
    /\ pc[a] \in {"charged", "calculate"} => a \in applied
    /\ pc[a] \in {"info", "charge", "charged", "calculate"} => Op(a) = "calculate2"

\* A try of calculate2 that was answered with 200 got its calculation.
AnsweredWasExecuted ==
  \A a \in Tries :
    pc[a] = "done" /\ code[a] = 200 /\ Op(a) = "calculate2" => a \in executed

\* The invariant behind PaidBeforeExecuted and SuccessIsPaid.
PaidInv ==
  PaidBeforeExecuted /\ PaidPastCharge /\ AnsweredWasExecuted /\ SuccessIsPaid

\* The histories only grow, a request never changes, and a client that has
\* its answer keeps it: what a handler does cannot undo SuccessIsPaid.
LEMMA SuccessKept ==
  ASSUME SuccessIsPaid, UNCHANGED <<body, gw, status>>,
         applied \subseteq applied', executed \subseteq executed'
  PROVE  SuccessIsPaid'
BY DEF SuccessIsPaid

\* The inductive step of PaidInv.
LEMMA PaidStep == TypeOK /\ PaidInv /\ [Next]_vars => PaidInv'
<1> SUFFICES ASSUME TypeOK, PaidInv, [Next]_vars
             PROVE  PaidInv'
  OBVIOUS
<1> USE PolicyAssumption DEF Goto, Reply, Op, Load, Store
<1>1. CASE UNCHANGED vars
  BY <1>1 DEF PaidInv, PaidBeforeExecuted, PaidPastCharge, AnsweredWasExecuted,
              SuccessIsPaid, vars
<1>2. ASSUME NEW a \in Tries, passThrough(a)
      PROVE  PaidInv'
  <2>1. SuccessIsPaid'
    BY <1>2, SuccessKept DEF PaidInv, passThrough
  <2> QED
    BY <1>2, <2>1 DEF TypeOK, PaidInv, PaidBeforeExecuted, PaidPastCharge,
                      AnsweredWasExecuted, passThrough
<1>3. ASSUME NEW a \in Tries,
             calculate2(a) \/ get_account_info_(a) \/ charge_response(a)
      PROVE  PaidInv'
  <2>1. SuccessIsPaid'
    BY <1>3, SuccessKept DEF PaidInv, calculate2, get_account_info_, charge_response
  <2> QED
    BY <1>3, <2>1 DEF TypeOK, PaidInv, PaidBeforeExecuted, PaidPastCharge,
         AnsweredWasExecuted, calculate2, get_account_info_, charge_response
<1>4. ASSUME NEW a \in Tries, charge_account_(a)
      PROVE  PaidInv'
  <2>1. SuccessIsPaid'
    BY <1>4, SuccessKept DEF PaidInv, charge_account_
  <2> QED
    BY <1>4, <2>1 DEF TypeOK, PaidInv, PaidBeforeExecuted, PaidPastCharge,
                      AnsweredWasExecuted, charge_account_
<1>5. ASSUME NEW a \in Tries, requestCalculation(a)
      PROVE  PaidInv'
  <2>1. SuccessIsPaid'
    BY <1>5, SuccessKept DEF PaidInv, requestCalculation
  <2> QED
    BY <1>5, <2>1 DEF TypeOK, PaidInv, PaidBeforeExecuted, PaidPastCharge,
                      AnsweredWasExecuted, requestCalculation
<1>6. CASE BillingRestart
  <2>1. SuccessIsPaid'
    BY <1>6, SuccessKept DEF PaidInv, BillingRestart
  <2> QED
    BY <1>6, <2>1 DEF TypeOK, PaidInv, PaidBeforeExecuted, PaidPastCharge,
                      AnsweredWasExecuted, BillingRestart
<1>7. ASSUME NEW r \in Requests, NEW k \in 0..Attempts, Forward(r, k),
             UNCHANGED <<applied, executed>>
      PROVE  PaidInv'
  <2>1. <<r, k>> \in Tries
    BY DEF Tries
  <2>2. SuccessIsPaid'
    <3> SUFFICES ASSUME NEW q \in Requests, gw'[q] = "answered",
                        body'[q].op = "calculate2", status'[q] = 200
                 PROVE  \E j \in 0..Attempts : <<q, j>> \in applied' \cap executed'
      BY DEF SuccessIsPaid
    <3>1. q # r /\ gw[q] = "answered"
      BY <1>7 DEF TypeOK, Forward
    <3> QED
      BY <1>7, <3>1 DEF PaidInv, SuccessIsPaid, Forward
  <2>3. \A a \in Tries : pc'[a] = pc[a] \/ pc'[a] = "start"
    BY <1>7, <2>1 DEF TypeOK, Forward
  <2>4. UNCHANGED <<body, code, applied, executed>>
    BY <1>7 DEF Forward
  <2> QED
    BY <2>2, <2>3, <2>4 DEF PaidInv, PaidBeforeExecuted, PaidPastCharge,
                            AnsweredWasExecuted
<1>8. ASSUME NEW r \in Requests, NEW c, Finish(r, c),
             UNCHANGED <<applied, executed>>,
             body[r].op = "calculate2" /\ c = 200 =>
               \E k \in 0..Attempts : <<r, k>> \in applied \cap executed
      PROVE  PaidInv'
  <2>1. SuccessIsPaid'
    <3> SUFFICES ASSUME NEW q \in Requests, gw'[q] = "answered",
                        body'[q].op = "calculate2", status'[q] = 200
                 PROVE  \E k \in 0..Attempts : <<q, k>> \in applied' \cap executed'
      BY DEF SuccessIsPaid
    <3>1. CASE q = r
      <4>1. body[r].op = "calculate2" /\ c = 200 /\ UNCHANGED <<applied, executed>>
        BY <1>8, <3>1 DEF TypeOK, Finish
      <4> QED
        BY <1>8, <3>1, <4>1
    <3>2. CASE q # r
      <4>1. gw[q] = "answered" /\ body[q].op = "calculate2" /\ status[q] = 200
        BY <1>8, <3>2 DEF TypeOK, Finish
      <4> QED
        BY <1>8, <4>1 DEF PaidInv, SuccessIsPaid
    <3> QED
      BY <3>1, <3>2
  <2>2. UNCHANGED <<body, pc, code, applied, executed>>
    BY <1>8 DEF Finish
  <2> QED
    BY <2>1, <2>2 DEF PaidInv, PaidBeforeExecuted, PaidPastCharge, AnsweredWasExecuted
<1>9. ASSUME NEW r \in Requests, Gateway(r)
      PROVE  PaidInv'
  <2>1. try[r] \in 0..Attempts /\ <<r, try[r]>> \in Tries
    BY DEF TypeOK, Tries
  <2>2. try[r] < Attempts => try[r] + 1 \in 0..Attempts
    BY <2>1
  <2>3. CASE Receive(r)
    BY <1>7, <2>3 DEF Receive
  <2>4. CASE Response(r)
    <3>1. body[r].op = "calculate2" /\ code[<<r, try[r]>>] = 200 =>
            <<r, try[r]>> \in applied \cap executed
      BY <2>1, <2>4 DEF PaidInv, PaidBeforeExecuted, AnsweredWasExecuted, Response
    <3>2. CASE Forward(r, try[r] + 1) /\ try[r] < Attempts
      BY <1>7, <2>2, <2>4, <3>2 DEF Response
    <3>3. CASE Finish(r, code[<<r, try[r]>>])
      BY <1>8, <2>1, <2>4, <3>1, <3>3 DEF Response
    <3> QED
      BY <2>4, <3>2, <3>3 DEF Response
  <2>5. CASE TryTimeout(r)
    BY <1>7, <1>8, <2>2, <2>5 DEF TryTimeout
  <2> QED
    BY <1>9, <2>3, <2>4, <2>5 DEF Gateway
<1> QED
  BY <1>1, <1>2, <1>3, <1>4, <1>5, <1>6, <1>9 DEF Next, Handle

\* PaidInv holds at the start.
LEMMA PaidInit == Init => PaidInv
BY DEF Init, PaidInv, PaidBeforeExecuted, PaidPastCharge, AnsweredWasExecuted,
       SuccessIsPaid

\* No calculation is answered with 200 for a try that has not charged its
\* user, however calculate2, the retries, the deletion of accounts and the
\* restarts of the billing service interleave.
THEOREM NothingForFree == Spec => []PaidBeforeExecuted
<1>1. PaidInv => PaidBeforeExecuted
  BY DEF PaidInv
<1> QED
  BY <1>1, PaidInit, PaidStep, FlowTypeCorrect, PTL DEF Spec

\* A client of calculate2 that gets a 200 has been charged, and some try of
\* its request has been calculated.
THEOREM SuccessWasPaid == Spec => []SuccessIsPaid
<1>1. PaidInv => SuccessIsPaid
  BY DEF PaidInv
<1> QED
  BY <1>1, PaidInit, PaidStep, FlowTypeCorrect, PTL DEF Spec

-----------------------------------------------------------------------------
(* Repeated charges.                                                       *)

\* The gateway has a reason to go on to the next try.
Explained(a) == a \in late \/ (pc[a] = "done" /\ code[a] \in {502, 503, 504})

\* Only tries the gateway has come to exist, and it had a reason to leave each
\* of them but the last.
RepeatInv ==
  /\ \A a \in Tries :
       pc[a] # "none" => gw[a[1]] # "new" /\ a[2] <= try[a[1]]
  /\ \A a \in Tries :
       gw[a[1]] # "new" /\ a[2] < try[a[1]] => Explained(a)
  /\ \A a \in applied : pc[a] # "none"

\* What a handler can do to the tries: it moves its own on.
LEMMA HandleShape ==
  ASSUME TypeOK, NEW a \in Tries, Handle(a)
  PROVE  /\ pc[a] \notin {"none", "done"} /\ pc'[a] # "none"
         /\ \A b \in Tries \ {a} : pc'[b] = pc[b] /\ code'[b] = code[b]
         /\ UNCHANGED <<gw, try, late>>
         /\ applied' \subseteq applied \cup {a}
<1>1. CASE passThrough(a)
  BY <1>1 DEF TypeOK, passThrough, Load, Store, Goto, Reply
<1>2. CASE calculate2(a)
  BY <1>2 DEF TypeOK, calculate2, Reply, Goto
<1>3. CASE get_account_info_(a) \/ charge_response(a)
  BY <1>3 DEF TypeOK, get_account_info_, charge_response, Reply, Goto
<1>4. CASE charge_account_(a)
  BY <1>4 DEF TypeOK, charge_account_, Load, Store, Reply, Goto
<1>5. CASE requestCalculation(a)
  BY <1>5 DEF TypeOK, requestCalculation, Reply
<1> QED
  BY <1>1, <1>2, <1>3, <1>4, <1>5 DEF Handle

\* The inductive step of RepeatInv.
LEMMA RepeatStep == TypeOK /\ RepeatInv /\ [Next]_vars => RepeatInv'
<1> SUFFICES ASSUME TypeOK, RepeatInv, [Next]_vars
             PROVE  RepeatInv'
  OBVIOUS
<1> USE PolicyAssumption
<1>1. CASE UNCHANGED vars
  BY <1>1 DEF vars, RepeatInv, Explained
<1>2. ASSUME NEW a \in Tries, Handle(a)
      PROVE  RepeatInv'
  <2>1. /\ pc[a] \notin {"none", "done"} /\ pc'[a] # "none"
        /\ \A b \in Tries \ {a} : pc'[b] = pc[b] /\ code'[b] = code[b]
        /\ UNCHANGED <<gw, try, late>>
        /\ applied' \subseteq applied \cup {a}
    BY <1>2, HandleShape
  <2>2. \A b \in Tries : Explained(b) => Explained(b)'
    BY <2>1 DEF Explained
  <2>3. applied \subseteq Tries
    BY DEF TypeOK
  <2> QED
    BY <2>1, <2>2, <2>3 DEF RepeatInv
<1>3. CASE BillingRestart
  <2>1. \A a \in Tries :
          IF pc[a] \in {"store", "charged"} THEN pc'[a] = "done"
          ELSE pc'[a] = pc[a] /\ code'[a] = code[a]
    BY <1>3 DEF BillingRestart
  <2>2. UNCHANGED <<gw, try, late, applied>> /\ applied \subseteq Tries
    BY <1>3 DEF BillingRestart, TypeOK
  <2>3. \A a \in Tries : Explained(a) => Explained(a)'
    BY <2>1, <2>2 DEF Explained
  <2> QED
    BY <2>1, <2>2, <2>3 DEF RepeatInv
<1>4. ASSUME NEW r \in Requests, NEW k \in 0..Attempts, Forward(r, k),
             UNCHANGED applied, late \subseteq late',
             \/ gw[r] = "new" /\ k = 0
             \/ /\ gw[r] # "new" /\ k = try[r] + 1
                /\ Explained(<<r, try[r]>>) \/ <<r, try[r]>> \in late'
      PROVE  RepeatInv'
  <2>1. /\ \A a \in Tries \ {<<r, k>>} : pc'[a] = pc[a]
        /\ pc'[<<r, k>>] = "start" /\ code' = code
        /\ gw'[r] = "waiting" /\ try'[r] = k
        /\ \A q \in Requests \ {r} : gw'[q] = gw[q] /\ try'[q] = try[q]
        /\ <<r, k>> \in Tries
    BY <1>4 DEF TypeOK, Forward, Tries
  <2>2. \A a \in Tries : a[1] \in Requests /\ a[2] \in 0..Attempts /\ a = <<a[1], a[2]>>
    BY TryFields
  <2>3. try[r] \in 0..Attempts /\ applied \subseteq Tries
    BY DEF TypeOK
  <2>4. \A a \in Tries \ {<<r, k>>} : Explained(a) => Explained(a)'
    BY <1>4, <2>1 DEF Explained
  <2>5. ASSUME NEW a \in Tries, pc'[a] # "none"
        PROVE  gw'[a[1]] # "new" /\ a[2] <= try'[a[1]]
    <3>1. CASE a[1] = r
      BY <1>4, <2>1, <2>2, <2>3, <2>5, <3>1 DEF RepeatInv
    <3>2. CASE a[1] # r
      BY <2>1, <2>2, <2>5, <3>2 DEF RepeatInv
    <3> QED
      BY <3>1, <3>2
  <2>6. ASSUME NEW a \in Tries, gw'[a[1]] # "new", a[2] < try'[a[1]]
        PROVE  Explained(a)'
    <3>1. CASE a[1] = r
      <4>1. a[2] < k /\ gw[r] # "new" /\ k = try[r] + 1 /\ a # <<r, k>>
        BY <1>4, <2>1, <2>2, <2>6, <3>1
      <4>2. CASE a[2] = try[r]
        BY <1>4, <2>1, <2>2, <2>4, <3>1, <4>1, <4>2 DEF Explained
      <4>3. CASE a[2] < try[r]
        BY <2>2, <2>4, <3>1, <4>1, <4>3 DEF RepeatInv
      <4> QED
        BY <2>2, <2>3, <4>1, <4>2, <4>3
    <3>2. CASE a[1] # r
      <4>1. a # <<r, k>>
        BY <2>2, <3>2
      <4>2. gw[a[1]] # "new" /\ a[2] < try[a[1]]
        BY <2>1, <2>2, <2>6, <3>2
      <4> QED
        BY <2>4, <4>1, <4>2 DEF RepeatInv
    <3> QED
      BY <3>1, <3>2
  <2>7. \A a \in applied' : pc'[a] # "none"
    BY <1>4, <2>1, <2>3 DEF RepeatInv
  <2> QED
    BY <2>5, <2>6, <2>7 DEF RepeatInv
<1>5. ASSUME NEW r \in Requests, NEW c, Finish(r, c), gw[r] # "new",
             UNCHANGED applied, late \subseteq late'
      PROVE  RepeatInv'
  <2>1. /\ UNCHANGED <<try, pc, code>>
        /\ \A q \in Requests : gw'[q] # "new" <=> gw[q] # "new"
    BY <1>5 DEF TypeOK, Finish
  <2>2. \A a \in Tries : a[1] \in Requests
    BY TryFields
  <2>3. \A a \in Tries : Explained(a) => Explained(a)'
    BY <1>5, <2>1 DEF Explained
  <2> QED
    BY <1>5, <2>1, <2>2, <2>3 DEF RepeatInv
<1>6. ASSUME NEW r \in Requests, Gateway(r)
      PROVE  RepeatInv'
  <2>1. try[r] \in 0..Attempts /\ (try[r] < Attempts => try[r] + 1 \in 0..Attempts)
    BY DEF TypeOK
  <2>2. CASE Receive(r)
    <3>1. gw[r] = "new" /\ Forward(r, 0) /\ UNCHANGED <<applied, late>>
      BY <2>2 DEF Receive
    <3>2. 0 \in 0..Attempts
      OBVIOUS
    <3> QED
      BY <1>4, <3>1, <3>2
  <2>3. CASE Response(r)
    <3>1. gw[r] # "new" /\ UNCHANGED <<applied, late>>
      BY <2>3 DEF Response
    <3>2. CASE Forward(r, try[r] + 1) /\ try[r] < Attempts /\ code[<<r, try[r]>>] \in GatewayErrors
      <4>1. Explained(<<r, try[r]>>)
        BY <2>3, <3>2 DEF Response, Explained, GatewayErrors
      <4> QED
        BY <1>4, <2>1, <3>1, <3>2, <4>1
    <3>3. CASE Finish(r, code[<<r, try[r]>>])
      BY <1>5, <3>1, <3>3
    <3> QED
      BY <2>3, <3>2, <3>3 DEF Response
  <2>4. CASE TryTimeout(r)
    <3>1. /\ gw[r] # "new" /\ UNCHANGED applied
          /\ late \subseteq late' /\ <<r, try[r]>> \in late'
      BY <2>4 DEF TryTimeout
    <3>2. CASE Forward(r, try[r] + 1) /\ try[r] < Attempts
      BY <1>4, <2>1, <3>1, <3>2
    <3>3. CASE Finish(r, 504)
      BY <1>5, <3>1, <3>3
    <3> QED
      BY <2>4, <3>2, <3>3 DEF TryTimeout
  <2> QED
    BY <1>6, <2>2, <2>3, <2>4 DEF Gateway
<1> QED
  BY <1>1, <1>2, <1>3, <1>6 DEF Next

\* A request changes the accounts again only after a try that timed out or got
\* a gateway error: nothing else that the services answer is retried.
THEOREM RepeatsAreExplained == Spec => []RepeatsExplained
<1>1. Init => RepeatInv
  BY DEF Init, RepeatInv, Tries
<1>2. TypeOK /\ RepeatInv => RepeatsExplained
  <2> SUFFICES ASSUME TypeOK, RepeatInv, NEW a \in applied, NEW b \in applied,
                      a[1] = b[1], a[2] < b[2]
               PROVE  a \in late \/ code[a] \in {502, 503, 504}
    BY DEF RepeatsExplained
  <2>1. a \in Tries /\ b \in Tries /\ try[a[1]] \in 0..Attempts
    BY TryFields DEF TypeOK
  <2>2. a[2] \in 0..Attempts /\ b[2] \in 0..Attempts
    BY <2>1, TryFields
  <2>3. gw[a[1]] # "new" /\ b[2] <= try[a[1]]
    BY <2>1 DEF RepeatInv
  <2>4. a[2] < try[a[1]]
    BY <2>1, <2>2, <2>3, PolicyAssumption
  <2> QED
    BY <2>1, <2>3, <2>4 DEF RepeatInv, Explained
<1> QED
  BY <1>1, <1>2, RepeatStep, FlowTypeCorrect, PTL DEF Spec

-----------------------------------------------------------------------------
(* At most once, when nothing makes the gateway try again.                 *)

\* The calculation service neither exceeds perTryTimeout nor answers with a
\* gateway error.
NoFaults == ~Timeouts /\ CalcCodes \cap GatewayErrors = {}

\* Every request is in its first try, and no answer is a gateway error.
FirstTryOnly ==
  /\ \A r \in Requests : try[r] = 0
  /\ \A a \in Tries : pc[a] # "none" => a[2] = 0
  /\ \A a \in Tries : code[a] \notin GatewayErrors
  /\ \A a \in applied : a[2] = 0

\* The inductive step of FirstTryOnly.
LEMMA FirstTryStep ==
  ASSUME NoFaults
  PROVE  TypeOK /\ FirstTryOnly /\ [Next]_vars => FirstTryOnly'
<1> SUFFICES ASSUME TypeOK, FirstTryOnly, [Next]_vars
             PROVE  FirstTryOnly'
  OBVIOUS
<1> USE PolicyAssumption DEF FirstTryOnly
<1>1. CASE UNCHANGED vars
  BY <1>1 DEF vars
<1>2. ASSUME NEW a \in Tries, NEW c, c \notin GatewayErrors,
             Reply(a, c), pc[a] # "none", applied' \subseteq applied \cup {a}
      PROVE  FirstTryOnly'
  BY <1>2 DEF TypeOK, Reply
<1>3. ASSUME NEW a \in Tries, NEW label, Goto(a, label), pc[a] # "none",
             applied' \subseteq applied \cup {a}
      PROVE  FirstTryOnly'
  BY <1>3 DEF TypeOK, Goto
<1>4. ASSUME NEW a \in Tries, Handle(a)
      PROVE  FirstTryOnly'
  <2>1. pc[a] # "none" /\ applied' \subseteq applied \cup {a}
    BY <1>4 DEF Goto, Load, Store, Handle, passThrough, calculate2, get_account_info_,
                charge_account_, charge_response, requestCalculation
  <2>2. \/ Reply(a, 200) \/ Reply(a, 400) \/ Reply(a, 403) \/ Reply(a, 500)
        \/ \E c \in CalcCodes : Reply(a, c)
        \/ \E label : Goto(a, label)
    <3>1. CASE passThrough(a)
      BY <3>1 DEF passThrough, Load
    <3>2. CASE calculate2(a)
      BY <3>2 DEF calculate2
    <3>3. CASE get_account_info_(a) \/ charge_response(a)
      BY <3>3 DEF get_account_info_, charge_response
    <3>4. CASE charge_account_(a)
      BY <3>4 DEF charge_account_, Load
    <3>5. CASE requestCalculation(a)
      BY <3>5 DEF requestCalculation
    <3> QED
      BY <1>4, <3>1, <3>2, <3>3, <3>4, <3>5 DEF Handle
  <2>3. \A c \in {200, 400, 403, 500} \cup CalcCodes : c \notin GatewayErrors
    BY NoFaults DEF NoFaults, GatewayErrors
  <2> QED
    <3>1. CASE \E c \in CalcCodes : Reply(a, c)
      <4>1. PICK c \in CalcCodes : Reply(a, c)
        BY <3>1
      <4>2. c \notin GatewayErrors
        BY <2>3
      <4> QED
        BY <1>2, <2>1, <4>1, <4>2
    <3>2. CASE Reply(a, 200) \/ Reply(a, 400) \/ Reply(a, 403) \/ Reply(a, 500)
      BY <1>2, <2>1, <2>3, <3>2
    <3>3. CASE \E label : Goto(a, label)
      <4>1. PICK label : Goto(a, label)
        BY <3>3
      <4> QED
        BY <1>3, <2>1, <4>1
    <3> QED
      BY <2>2, <3>1, <3>2, <3>3
<1>5. CASE BillingRestart
  <2>1. 400 \notin GatewayErrors /\ 200 \notin GatewayErrors
    BY DEF GatewayErrors
  <2> QED
    BY <1>5, <2>1 DEF TypeOK, BillingRestart
<1>6. ASSUME NEW r \in Requests, Gateway(r)
      PROVE  FirstTryOnly'
  <2>1. <<r, 0>> \in Tries
    BY DEF Tries
  <2>2. CASE Receive(r)
    BY <2>1, <2>2 DEF TypeOK, Receive, Forward
  <2>3. CASE Response(r)
    BY <2>1, <2>3 DEF TypeOK, Response, Finish
  <2>4. ~TryTimeout(r)
    BY NoFaults DEF NoFaults, TryTimeout
  <2> QED
    BY <1>6, <2>2, <2>3, <2>4 DEF Gateway
<1> QED
  BY <1>1, <1>4, <1>5, <1>6 DEF Next

\* Without gateway errors and timeouts no request changes the accounts more
\* than once, whatever else fails; flow_charged_twice shows that one 502 is
\* enough to lose this.
THEOREM AtMostOnceWithoutFaults ==
  ASSUME NoFaults
  PROVE  Spec => []AppliedOnce
<1>1. Init => FirstTryOnly
  BY PolicyAssumption DEF Init, FirstTryOnly, GatewayErrors
<1>2. TypeOK /\ FirstTryOnly /\ [Next]_vars => FirstTryOnly'
  BY FirstTryStep
<1>3. FirstTryOnly => AppliedOnce
  BY DEF FirstTryOnly, AppliedOnce
<1> QED
  BY <1>1, <1>2, <1>3, FlowTypeCorrect, PTL DEF Spec

-----------------------------------------------------------------------------
(* The books.  Sums over tries are numbers of coins, so that the sum over   *)
(* one more try is that of a union of two sets that have nothing in common. *)

\* The tries behind a sum.
Movers(u, ops) == {a \in applied : User(a) = u /\ Op(a) \in ops}
ChargeOps == {"chargeAccount", "calculate2"}
DepositOps == {"depositAccount"}
Deleted(u) == \E a \in applied : User(a) = u /\ Op(a) = "deleteAccount"

\* A try changes the accounts with its store, and has not done so before it.
NotYetApplied ==
  \A a \in Tries :
    pc[a] \in {"none", "start", "info", "charge", "store"} => a \notin applied

\* Unless another change has overtaken it, what a try has read is still so when
\* it stores.
UpToDate ==
  \A a \in Tries : pc[a] = "store" /\ User(a) \notin overtaken =>
    /\ read[a] = Holds(balance, User(a))
    /\ Exists(a) <=> Op(a) # "createAccount"

\* The coins can be counted.
Countable ==
  \A u \in Users : /\ IsFiniteSet(Coins(Movers(u, ChargeOps)))
                   /\ IsFiniteSet(Coins(Movers(u, DepositOps)))

LEMMA CoinsAdded ==
  ASSUME NEW S, IsFiniteSet(Coins(S)), NEW a, a \notin S, Amount(a) \in Nat
  PROVE  /\ IsFiniteSet(Coins(S \cup {a}))
         /\ Cardinality(Coins(S \cup {a})) = Cardinality(Coins(S)) + Amount(a)
<1> DEFINE new == {a} \X (1..Amount(a))
<1>1. IsFiniteSet(new) /\ Cardinality(new) = Amount(a)
  <2>1. IsFiniteSet({a}) /\ Cardinality({a}) = 1
    BY FS_Singleton
  <2>2. IsFiniteSet(1..Amount(a)) /\ Cardinality(1..Amount(a)) = Amount(a)
    BY FS_Interval
  <2> DEFINE T == 1..Amount(a)
  <2>3. IsFiniteSet(T) /\ Cardinality(T) = Amount(a)
    BY <2>2
  <2> HIDE DEF T
  <2>4. IsFiniteSet({a} \X T) /\ Cardinality({a} \X T) = Cardinality({a}) * Cardinality(T)
    BY <2>1, <2>3, FS_Product
  <2>5. Cardinality({a} \X T) = 1 * Amount(a)
    BY <2>1, <2>3, <2>4
  <2> QED
    BY <2>4, <2>5 DEF T
<1>2. Coins(S \cup {a}) = Coins(S) \cup new
  BY DEF Coins
<1>3. Coins(S) \cap new = {}
  BY DEF Coins
<1> HIDE DEF new
<1>4. /\ IsFiniteSet(Coins(S) \cup new)
      /\ Cardinality(Coins(S) \cup new) =
           Cardinality(Coins(S)) + Cardinality(new) - Cardinality({})
  BY <1>1, <1>3, FS_Union
<1>5. Cardinality({}) = 0 /\ Cardinality(Coins(S)) \in Nat
  BY FS_EmptySet, FS_CardinalityType
<1>6. Cardinality(Coins(S) \cup new) = Cardinality(Coins(S)) + Amount(a)
  <2> DEFINE n == Cardinality(Coins(S))
             m == Cardinality(Coins(S) \cup new)
  <2>1. n \in Nat /\ m = n + Amount(a) - 0
    BY <1>1, <1>4, <1>5
  <2> HIDE DEF n, m
  <2>2. m = n + Amount(a)
    BY <2>1
  <2> QED
    BY <2>2 DEF n, m
<1> QED
  BY <1>2, <1>4, <1>6

\* What a step adds to a sum.
LEMMA MoversAdded ==
  ASSUME NEW a \in Tries, applied' = applied \cup {a}, UNCHANGED body, NEW u, NEW ops
  PROVE  Movers(u, ops)' =
           IF User(a) = u /\ Op(a) \in ops THEN Movers(u, ops) \cup {a} ELSE Movers(u, ops)
BY DEF Movers, User, Op

LEMMA SumGrows ==
  ASSUME TypeOK, NEW a \in Tries, a \notin applied, applied' = applied \cup {a},
         UNCHANGED body, NEW u, NEW ops, IsFiniteSet(Coins(Movers(u, ops))),
         User(a) = u /\ Op(a) \in ops => Amount(a) \in Nat
  PROVE  /\ IsFiniteSet(Coins(Movers(u, ops))')
         /\ Moved(u, ops)' =
              IF User(a) = u /\ Op(a) \in ops THEN Moved(u, ops) + Amount(a)
              ELSE Moved(u, ops)
<1>1. Coins(Movers(u, ops))' = Coins(Movers(u, ops)')
  BY DEF Coins, Amount
<1>2. CASE User(a) = u /\ Op(a) \in ops
  <2>1. Coins(Movers(u, ops)') = Coins(Movers(u, ops) \cup {a})
    BY <1>2, MoversAdded
  <2>2. a \notin Movers(u, ops)
    BY DEF Movers
  <2> QED
    BY <1>1, <1>2, <2>1, <2>2, CoinsAdded DEF Moved, Movers
<1>3. CASE ~(User(a) = u /\ Op(a) \in ops)
  <2>1. Movers(u, ops)' = Movers(u, ops)
    BY <1>3, MoversAdded
  <2> QED
    BY <1>1, <1>3, <2>1 DEF Moved, Movers
<1> QED
  BY <1>2, <1>3

\* The parts of the invariant about one account.
Books(u) == Charged(u) + Holds(balance, u) <= PaidIn(u) + Holds(Opening, u)
Exact(u) ==
  ~Deleted(u) => Charged(u) + Holds(balance, u) = PaidIn(u) + Holds(Opening, u)

\* The sums are natural numbers, and so is what an account holds.
LEMMA SumTypes ==
  ASSUME TypeOK, Countable, NEW u \in Users
  PROVE  /\ Charged(u) \in Nat /\ PaidIn(u) \in Nat
         /\ Holds(balance, u) \in Nat /\ Holds(Opening, u) \in Nat
<1>1. Charged(u) \in Nat /\ PaidIn(u) \in Nat
  BY FS_CardinalityType
     DEF Countable, Charged, PaidIn, Moved, Movers, ChargeOps, DepositOps
<1>2. Holds(balance, u) \in Nat /\ Holds(Opening, u) \in Nat
  BY OpeningAssumption DEF TypeOK, Holds
<1> QED
  BY <1>1, <1>2

\* A step that moves nothing.
LEMMA NothingMoved ==
  ASSUME UNCHANGED <<body, balance, applied>>, NEW u
  PROVE  /\ Charged(u)' = Charged(u) /\ PaidIn(u)' = PaidIn(u)
         /\ Holds(balance, u)' = Holds(balance, u) /\ (Deleted(u)' <=> Deleted(u))
         /\ Coins(Movers(u, ChargeOps))' = Coins(Movers(u, ChargeOps))
         /\ Coins(Movers(u, DepositOps))' = Coins(Movers(u, DepositOps))
BY DEF Charged, PaidIn, Moved, Coins, Movers, Holds, Deleted, User, Op, Amount

\* A store moves what the operation says, in the sums and in the account, as
\* long as nothing has overtaken it.
LEMMA StoreMoves ==
  ASSUME TypeInv, UpToDate, Countable, NEW a \in Tries, a \notin applied,
         pc[a] = "store", Store(a), applied' = applied \cup {a}, UNCHANGED body,
         NEW u \in Users
  PROVE  /\ IsFiniteSet(Coins(Movers(u, ChargeOps))')
         /\ IsFiniteSet(Coins(Movers(u, DepositOps))')
         /\ u \notin overtaken /\ Books(u) => Books(u)'
         /\ u \notin overtaken /\ Exact(u) => Exact(u)'
<1> DEFINE C == Charged(u)  P == PaidIn(u)  H == Holds(balance, u)  n == Amount(a)
<1>1. TypeOK /\ User(a) \in Users /\ Op(a) \in Ops
  BY ValidAmounts DEF TypeInv
<1>2. Op(a) \in ChargeOps \cup DepositOps => n \in Nat
  <2>1. Op(a) \in ChargeOps \cup DepositOps => ValidAmount(a)
    BY DEF TypeInv, PendingValid, ChargeOps, DepositOps
  <2> QED
    BY <1>1, <2>1, ValidAmounts
<1>3. Charges(a) <=> Op(a) \in ChargeOps
  BY DEF Charges, ChargeOps
<1>5. /\ IsFiniteSet(Coins(Movers(u, ChargeOps))')
      /\ Charged(u)' = IF User(a) = u /\ Op(a) \in ChargeOps THEN C + n ELSE C
  <2>1. IsFiniteSet(Coins(Movers(u, ChargeOps)))
    BY DEF Countable
  <2>2. /\ IsFiniteSet(Coins(Movers(u, ChargeOps))')
        /\ Moved(u, ChargeOps)' =
             IF User(a) = u /\ Op(a) \in ChargeOps THEN Moved(u, ChargeOps) + n
             ELSE Moved(u, ChargeOps)
    BY <1>1, <1>2, <2>1, SumGrows
  <2> QED
    BY <2>2 DEF Charged, ChargeOps
<1>6. /\ IsFiniteSet(Coins(Movers(u, DepositOps))')
      /\ PaidIn(u)' = IF User(a) = u /\ Op(a) \in DepositOps THEN P + n ELSE P
  <2>1. IsFiniteSet(Coins(Movers(u, DepositOps)))
    BY DEF Countable
  <2>2. /\ IsFiniteSet(Coins(Movers(u, DepositOps))')
        /\ Moved(u, DepositOps)' =
             IF User(a) = u /\ Op(a) \in DepositOps THEN Moved(u, DepositOps) + n
             ELSE Moved(u, DepositOps)
    BY <1>1, <1>2, <2>1, SumGrows
  <2> QED
    BY <2>2 DEF PaidIn, DepositOps
<1>7. Deleted(u)' <=> Deleted(u) \/ (User(a) = u /\ Op(a) = "deleteAccount")
  BY DEF Deleted, User, Op
<1>8. C \in Nat /\ P \in Nat /\ H \in Nat /\ Holds(Opening, u) \in Nat
  BY <1>1, SumTypes
<1>9. balance' = IF Op(a) = "deleteAccount" THEN Ledger!Del(balance, User(a))
                 ELSE Ledger!Put(balance, User(a), NewBalance(a))
  BY DEF Store
<1>10. CASE User(a) # u
  <2>1. Holds(balance, u)' = H
    BY <1>9, <1>10 DEF Holds, Ledger!Put, Ledger!Del
  <2>2. Charged(u)' = C /\ PaidIn(u)' = P /\ (Deleted(u)' <=> Deleted(u))
    BY <1>5, <1>6, <1>7, <1>10
  <2> QED
    BY <1>5, <1>6, <2>1, <2>2 DEF Books, Exact
<1>11. CASE User(a) = u /\ u \in overtaken
  BY <1>5, <1>6, <1>11
<1>12. CASE User(a) = u /\ u \notin overtaken
  <2>1. read[a] = H /\ (Exists(a) <=> Op(a) # "createAccount")
    BY <1>12 DEF UpToDate
  <2>2. CASE Op(a) = "createAccount"
    <3>1. Holds(balance, u)' = 0 /\ H = 0
      BY <1>9, <1>12, <2>1, <2>2
         DEF Holds, Exists, NewBalance, Charges, Ledger!Put
    <3>2. Charged(u)' = C /\ PaidIn(u)' = P /\ (Deleted(u)' <=> Deleted(u))
      BY <1>5, <1>6, <1>7, <2>2 DEF ChargeOps, DepositOps
    <3> QED
      BY <1>5, <1>6, <3>1, <3>2 DEF Books, Exact
  <2>3. CASE Op(a) = "depositAccount"
    <3>1. Holds(balance, u)' = H + n
      BY <1>9, <1>12, <2>1, <2>3 DEF Holds, NewBalance, Charges, Ledger!Put
    <3>2. /\ Charged(u)' = C /\ PaidIn(u)' = P + n /\ (Deleted(u)' <=> Deleted(u))
          /\ n \in Nat
      BY <1>2, <1>5, <1>6, <1>7, <1>12, <2>3 DEF ChargeOps, DepositOps
    <3> HIDE DEF C, P, H, n
    <3> QED
      BY <1>5, <1>6, <1>8, <3>1, <3>2 DEF Books, Exact, C, P, H
  <2>4. CASE Op(a) \in ChargeOps
    <3>1. Holds(balance, u)' = H - n
      BY <1>3, <1>9, <1>12, <2>1, <2>4 DEF Holds, NewBalance, ChargeOps, Ledger!Put
    <3>2. /\ Charged(u)' = C + n /\ PaidIn(u)' = P /\ (Deleted(u)' <=> Deleted(u))
          /\ n \in Nat
      BY <1>2, <1>5, <1>6, <1>7, <1>12, <2>4 DEF ChargeOps, DepositOps
    <3> HIDE DEF C, P, H, n
    <3> QED
      BY <1>5, <1>6, <1>8, <3>1, <3>2 DEF Books, Exact, C, P, H
  <2>5. CASE Op(a) = "deleteAccount"
    <3>1. Holds(balance, u)' = 0
      BY <1>9, <1>12, <2>5 DEF Holds, Ledger!Del
    <3>2. Charged(u)' = C /\ PaidIn(u)' = P /\ Deleted(u)'
      BY <1>5, <1>6, <1>7, <1>12, <2>5 DEF ChargeOps, DepositOps
    <3> QED
      BY <1>5, <1>6, <1>8, <3>1, <3>2 DEF Books, Exact
  <2> QED
    BY <1>1, <2>2, <2>3, <2>4, <2>5 DEF Ops, ChargeOps
<1> QED
  BY <1>10, <1>11, <1>12

\* A try that the gateway comes to has changed nothing yet; a handler changes
\* the accounts in the step that leaves "store".
LEMMA NotYetStep == TypeOK /\ RepeatInv /\ NotYetApplied /\ [Next]_vars => NotYetApplied'
<1> SUFFICES ASSUME TypeOK, RepeatInv, NotYetApplied, [Next]_vars
             PROVE  NotYetApplied'
  OBVIOUS
<1> USE PolicyAssumption
<1>1. CASE UNCHANGED vars
  BY <1>1 DEF vars, NotYetApplied
<1>2. ASSUME NEW a \in Tries, Handle(a)
      PROVE  NotYetApplied'
  <2>1. /\ \A b \in Tries \ {a} : pc'[b] = pc[b]
        /\ applied' \subseteq applied \cup {a}
    BY <1>2, HandleShape
  <2>2. pc'[a] \in {"none", "start", "info", "charge", "store"} => a \notin applied'
    <3>1. CASE passThrough(a)
      BY <3>1 DEF TypeOK, passThrough, Load, Goto, Reply, NotYetApplied
    <3>2. CASE calculate2(a)
      BY <3>2 DEF TypeOK, calculate2, Reply, Goto, NotYetApplied
    <3>3. CASE get_account_info_(a)
      BY <3>3 DEF TypeOK, get_account_info_, Reply, Goto, NotYetApplied
    <3>4. CASE charge_account_(a)
      BY <3>4 DEF TypeOK, charge_account_, Load, Reply, Goto, NotYetApplied
    <3>5. CASE charge_response(a)
      BY <3>5 DEF TypeOK, charge_response, Reply, Goto
    <3>6. CASE requestCalculation(a)
      BY <3>6 DEF TypeOK, requestCalculation, Reply
    <3> QED
      BY <1>2, <3>1, <3>2, <3>3, <3>4, <3>5, <3>6 DEF Handle
  <2> QED
    BY <2>1, <2>2 DEF NotYetApplied
<1>3. CASE BillingRestart
  BY <1>3 DEF TypeOK, BillingRestart, NotYetApplied
<1>4. ASSUME NEW r \in Requests, NEW k \in 0..Attempts, Forward(r, k), UNCHANGED applied,
             (gw[r] = "new" /\ k = 0) \/ k = try[r] + 1
      PROVE  NotYetApplied'
  <2>1. <<r, k>> \in Tries /\ <<r, k>>[1] = r /\ <<r, k>>[2] = k /\ try[r] \in 0..Attempts
    BY DEF Tries, TypeOK
  <2>2. pc[<<r, k>>] = "none"
    BY <1>4, <2>1 DEF RepeatInv
  <2>3. \A a \in Tries \ {<<r, k>>} : pc'[a] = pc[a]
    BY <1>4 DEF TypeOK, Forward
  <2> QED
    BY <1>4, <2>1, <2>2, <2>3 DEF NotYetApplied
<1>5. ASSUME NEW r \in Requests, NEW c, Finish(r, c), UNCHANGED applied
      PROVE  NotYetApplied'
  BY <1>5 DEF Finish, NotYetApplied
<1>6. ASSUME NEW r \in Requests, Gateway(r)
      PROVE  NotYetApplied'
  <2>1. try[r] \in 0..Attempts /\ (try[r] < Attempts => try[r] + 1 \in 0..Attempts)
    BY DEF TypeOK
  <2>2. CASE Receive(r)
    BY <1>4, <2>2 DEF Receive
  <2>3. CASE Response(r)
    BY <1>4, <1>5, <2>1, <2>3 DEF Response
  <2>4. CASE TryTimeout(r)
    BY <1>4, <1>5, <2>1, <2>4 DEF TryTimeout
  <2> QED
    BY <1>6, <2>2, <2>3, <2>4 DEF Gateway
<1> QED
  BY <1>1, <1>2, <1>3, <1>6 DEF Next

\* A try reads what is there, and what the others have read stays so unless this
\* step overtakes them.
LEMMA UpToDateStep == TypeInv /\ UpToDate /\ [Next]_vars => UpToDate'
<1> SUFFICES ASSUME TypeInv, UpToDate, [Next]_vars
             PROVE  UpToDate'
  OBVIOUS
<1>0. TypeOK
  BY DEF TypeInv
<1>1. ASSUME UNCHANGED <<body, balance, overtaken>>,
             \A a \in Tries : pc'[a] = "store" => pc[a] = "store" /\ read'[a] = read[a]
      PROVE  UpToDate'
  BY <1>1 DEF UpToDate, User, Op, Exists, Holds
<1>2. ASSUME NEW a \in Tries, NEW c, Load(a, c)
      PROVE  UpToDate'
  <2>1. UNCHANGED <<body, balance, overtaken>>
    BY <1>2 DEF Load, Goto, Reply
  <2>2. CASE Granted(a)
    <3>1. /\ \A b \in Tries \ {a} : pc'[b] = pc[b] /\ read'[b] = read[b]
          /\ read'[a] = Holds(balance, User(a))
      BY <1>0, <1>2, <2>2 DEF TypeOK, Load, Goto
    <3>2. Exists(a) <=> Op(a) # "createAccount"
      BY <2>2 DEF Granted
    <3> QED
      BY <2>1, <3>1, <3>2 DEF UpToDate, User, Op, Exists, Holds
  <2>3. CASE ~Granted(a)
    BY <1>0, <1>1, <1>2, <2>1, <2>3 DEF TypeOK, Load, Reply
  <2> QED
    BY <2>2, <2>3
<1>3. ASSUME NEW a \in Tries, pc[a] = "store", Store(a),
             Reply(a, 200) \/ Goto(a, "charged")
      PROVE  UpToDate'
  <2>1. /\ UNCHANGED body
        /\ \A b \in Tries : pc'[b] = "store" =>
             b # a /\ pc[b] = "store" /\ read'[b] = read[b]
    BY <1>0, <1>3 DEF TypeOK, Store, Reply, Goto
  <2>2. CASE UNCHANGED <<balance, overtaken>>
    BY <1>1, <2>1, <2>2
  <2>3. CASE ~UNCHANGED <<balance, overtaken>>
    <3>1. /\ balance' = IF Op(a) = "deleteAccount" THEN Ledger!Del(balance, User(a))
                        ELSE Ledger!Put(balance, User(a), NewBalance(a))
          /\ overtaken' =
               IF \E b \in Tries \ {a} : pc[b] = "store" /\ User(b) = User(a)
                 THEN overtaken \cup {User(a)} ELSE overtaken
      BY <1>3, <2>3 DEF Store
    <3> SUFFICES ASSUME NEW b \in Tries, pc'[b] = "store", User(b)' \notin overtaken'
                 PROVE  /\ read'[b] = Holds(balance, User(b))'
                        /\ Exists(b)' <=> Op(b)' # "createAccount"
      BY DEF UpToDate
    <3>2. b # a /\ pc[b] = "store" /\ read'[b] = read[b] /\ User(b)' = User(b) /\ Op(b)' = Op(b)
      BY <2>1 DEF User, Op
    <3>3. User(b) # User(a) /\ User(b) \notin overtaken
      BY <3>1, <3>2
    <3>4. read[b] = Holds(balance, User(b)) /\ (Exists(b) <=> Op(b) # "createAccount")
      BY <3>2, <3>3 DEF UpToDate
    <3>5. /\ User(b) \in DOMAIN balance' <=> User(b) \in DOMAIN balance
          /\ Holds(balance', User(b)) = Holds(balance, User(b))
      BY <3>1, <3>3 DEF Holds, Ledger!Put, Ledger!Del
    <3>6. /\ Holds(balance, User(b))' = Holds(balance', User(b))
          /\ Exists(b)' <=> User(b) \in DOMAIN balance'
      BY <3>2 DEF Holds, Exists
    <3> QED
      BY <3>2, <3>4, <3>5, <3>6 DEF Exists
  <2> QED
    BY <2>2, <2>3
<1>4. ASSUME NEW a \in Tries, Handle(a)
      PROVE  UpToDate'
  <2>1. CASE passThrough(a)
    BY <1>2, <1>3, <2>1 DEF passThrough
  <2>2. CASE charge_account_(a)
    BY <1>2, <1>3, <2>2 DEF charge_account_
  <2>3. CASE calculate2(a)
    BY <1>0, <1>1, <2>3 DEF TypeOK, calculate2, Reply, Goto
  <2>4. CASE get_account_info_(a) \/ charge_response(a)
    BY <1>0, <1>1, <2>4 DEF TypeOK, get_account_info_, charge_response, Reply, Goto
  <2>5. CASE requestCalculation(a)
    BY <1>0, <1>1, <2>5 DEF TypeOK, requestCalculation, Reply
  <2> QED
    BY <1>4, <2>1, <2>2, <2>3, <2>4, <2>5 DEF Handle
<1>5. CASE BillingRestart
  <2>1. \A a \in Tries : pc'[a] # "store"
    BY <1>5 DEF BillingRestart
  <2> QED
    BY <2>1 DEF UpToDate
<1>6. ASSUME NEW r \in Requests, Gateway(r)
      PROVE  UpToDate'
  <2>1. UNCHANGED <<body, balance, read, overtaken>>
    BY <1>6 DEF Gateway, Receive, Response, TryTimeout, Forward, Finish
  <2>2. pc' = pc \/ \E a \in Requests \X Nat : pc' = [pc EXCEPT ![a] = "start"]
    <3>1. try[r] \in Nat
      BY <1>0, PolicyAssumption DEF TypeOK
    <3> QED
      BY <1>6, <3>1 DEF Gateway, Receive, Response, TryTimeout, Forward, Finish
  <2> QED
    BY <1>0, <1>1, <2>1, <2>2 DEF TypeOK
<1>7. CASE UNCHANGED vars
  BY <1>1, <1>7 DEF vars
<1> QED
  BY <1>4, <1>5, <1>6, <1>7 DEF Next

\* What a step does to the books: a store moves what its operation says unless
\* another change has overtaken it, and a restart only takes away.
LEMMA BooksStep ==
  ASSUME TypeInv, NotYetApplied, UpToDate, Countable, [Next]_vars
  PROVE  /\ Countable'
         /\ overtaken \subseteq overtaken'
         /\ \A u \in Users \ overtaken : Books(u) => Books(u)'
         /\ ~Restarts => \A u \in Users \ overtaken : Exact(u) => Exact(u)'
<1>0. TypeOK
  BY DEF TypeInv
<1>1. CASE UNCHANGED <<body, balance, applied, overtaken>>
  BY <1>1, NothingMoved DEF Countable, Books, Exact
<1>2. ASSUME NEW a \in Tries, pc[a] = "store", Store(a), UNCHANGED body
      PROVE  /\ Countable'
             /\ overtaken \subseteq overtaken'
             /\ \A u \in Users \ overtaken :
                  (Books(u) => Books(u)') /\ (Exact(u) => Exact(u)')
  <2>1. CASE UNCHANGED <<balance, applied, overtaken>>
    BY <1>2, <2>1, NothingMoved DEF Countable, Books, Exact
  <2>2. CASE ~UNCHANGED <<balance, applied, overtaken>>
    <3>1. applied' = applied \cup {a} /\ overtaken \subseteq overtaken'
      BY <1>2, <2>2 DEF Store
    <3>2. a \notin applied
      BY <1>2 DEF NotYetApplied
    <3> QED
      BY <1>2, <3>1, <3>2, StoreMoves DEF Countable
  <2> QED
    BY <2>1, <2>2
<1>3. ASSUME NEW a \in Tries, Handle(a)
      PROVE  \/ UNCHANGED <<body, balance, applied, overtaken>>
             \/ pc[a] = "store" /\ Store(a) /\ UNCHANGED body
  <2>1. CASE passThrough(a)
    BY <2>1 DEF passThrough, Load, Reply, Goto
  <2>2. CASE charge_account_(a)
    BY <2>2 DEF charge_account_, Load, Reply, Goto
  <2> QED
    BY <1>3, <2>1, <2>2 DEF Handle, calculate2, get_account_info_, charge_response,
                            requestCalculation, Reply, Goto
<1>4. CASE BillingRestart
  <2>1. Restarts /\ UNCHANGED <<body, applied, overtaken>> /\ balance' = Ledger!Empty
    BY <1>4 DEF BillingRestart
  <2>2. ASSUME NEW u \in Users
        PROVE  /\ Charged(u)' = Charged(u) /\ PaidIn(u)' = PaidIn(u)
               /\ Holds(balance, u)' = 0
               /\ Coins(Movers(u, ChargeOps))' = Coins(Movers(u, ChargeOps))
               /\ Coins(Movers(u, DepositOps))' = Coins(Movers(u, DepositOps))
    BY <2>1 DEF Charged, PaidIn, Moved, Coins, Movers, Holds, User, Op, Amount, Ledger!Empty
  <2>3. Countable'
    BY <2>2 DEF Countable
  <2>4. ASSUME NEW u \in Users, Books(u)
        PROVE  Books(u)'
    BY <1>0, <2>2, <2>4, SumTypes DEF Books
  <2> QED
    BY <2>1, <2>3, <2>4
<1>5. ASSUME NEW r \in Requests, Gateway(r)
      PROVE  UNCHANGED <<body, balance, applied, overtaken>>
  BY <1>5 DEF Gateway, Receive, Response, TryTimeout, Forward, Finish
<1>6. CASE \E a \in Tries : Handle(a)
  BY <1>1, <1>2, <1>3, <1>6
<1> QED
  BY <1>1, <1>4, <1>5, <1>6 DEF Next, vars

BooksInv ==
  NotYetApplied /\ UpToDate /\ Countable /\ \A u \in Users \ overtaken : Books(u)

LEMMA BooksInit == Init => BooksInv /\ \A u \in Users : Exact(u)
<1> SUFFICES ASSUME Init PROVE BooksInv /\ \A u \in Users : Exact(u)
  OBVIOUS
<1>1. NotYetApplied
  BY DEF Init, NotYetApplied
<1>2. ASSUME NEW u, NEW ops
      PROVE  Coins(Movers(u, ops)) = {} /\ Moved(u, ops) = 0
  BY FS_EmptySet DEF Init, Coins, Movers, Moved
<1>3. Countable /\ UpToDate
  BY <1>2, FS_EmptySet DEF Countable, Init, UpToDate
<1>4. ASSUME NEW u \in Users
      PROVE  /\ Charged(u) = 0 /\ PaidIn(u) = 0 /\ Holds(balance, u) = Holds(Opening, u)
             /\ Holds(Opening, u) \in Nat
  BY <1>2, OpeningAssumption DEF Init, Charged, PaidIn, Holds
<1> QED
  BY <1>1, <1>3, <1>4 DEF BooksInv, Books, Exact

\* What is known of the tries, for the theorems below.
LEMMA TriesInvariant == Spec => [](TypeInv /\ RepeatInv)
<1>1. Init => RepeatInv
  BY DEF Init, RepeatInv, Tries
<1>2. TypeInv /\ RepeatInv /\ [Next]_vars => RepeatInv'
  BY RepeatStep DEF TypeInv
<1> QED
  BY <1>1, <1>2, TypeInvariant, PTL DEF Spec

LEMMA BooksInvStep == TypeInv /\ RepeatInv /\ BooksInv /\ [Next]_vars => BooksInv'
<1> SUFFICES ASSUME TypeInv, RepeatInv, BooksInv, [Next]_vars
             PROVE  BooksInv'
  OBVIOUS
<1>1. NotYetApplied'
  BY NotYetStep DEF TypeInv, BooksInv
<1>2. UpToDate'
  BY UpToDateStep DEF BooksInv
<1>3. /\ Countable' /\ overtaken \subseteq overtaken'
      /\ \A u \in Users \ overtaken : Books(u) => Books(u)'
  BY BooksStep DEF BooksInv
<1>4. \A u \in Users \ overtaken' : Books(u)'
  BY <1>3 DEF BooksInv
<1> QED
  BY <1>1, <1>2, <1>3, <1>4 DEF BooksInv

\* Whatever is retried, abandoned, deleted or lost in a restart, a user is charged
\* more than was paid in only when one change of the account overtakes another.
THEOREM ChargesAreCovered == Spec => []Solvent
<1>1. BooksInv => Solvent
  BY DEF BooksInv, Books, Solvent
<1> QED
  BY <1>1, BooksInit, BooksInvStep, TriesInvariant, PTL DEF Spec

\* While the billing service does not restart, and no change of an account
\* overtakes another one of it, no order of tries makes or loses money of an
\* account that is not deleted: the books balance exactly.
THEOREM BooksBalance ==
  ASSUME ~Restarts
  PROVE  Spec => []Balanced
<1> DEFINE AllExact == \A u \in Users \ overtaken : Exact(u)
<1>1. TypeInv /\ RepeatInv /\ BooksInv /\ AllExact /\ [Next]_vars => AllExact'
  <2> SUFFICES ASSUME TypeInv, BooksInv, AllExact, [Next]_vars
               PROVE  AllExact'
    OBVIOUS
  <2>1. /\ overtaken \subseteq overtaken'
        /\ \A u \in Users \ overtaken : Exact(u) => Exact(u)'
    BY BooksStep DEF BooksInv
  <2> QED
    BY <2>1
<1>2. AllExact => Balanced
  BY DEF Exact, Deleted, Balanced
<1>3. Init => BooksInv /\ AllExact
  BY BooksInit
<1> HIDE DEF AllExact
<1> QED
  BY <1>1, <1>2, <1>3, BooksInvStep, TriesInvariant, PTL DEF Spec
=============================================================================
