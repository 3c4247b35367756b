--------------------------- MODULE CalculateFlow ---------------------------
(***************************************************************************)
(* A request on its way through the application: the Istio ingress gateway *)
(* with the retry policy of istio/retry.yaml, the handlers of the control  *)
(* center (docker/services/control-center/control-center.py), the accounts *)
(* of the billing service, and the answer of the calculation service.      *)
(*                                                                         *)
(* The control center is a threaded Flask process whose HTTP calls have no *)
(* timeout.  When the gateway gives up on a try, the handler of that try   *)
(* is not cancelled: it goes on beside the handler of the next one.        *)
(*                                                                         *)
(* An operation of the billing service takes two steps, the tests with the *)
(* read of the balance and then the store, as in module Billing.           *)
(***************************************************************************)
EXTENDS Integers, FiniteSets

CONSTANTS
  Requests,     \* the requests of the clients
  Bodies,       \* what a request can ask: operation, user, amount and type
  Users,
  Opening,      \* the accounts that exist already
  Fractional,   \* an amount such as 1.5: at least 1, but int() rejects it
  Malformed,    \* an amount that float() rejects, or a missing field
  Attempts,     \* retries.attempts: how often the gateway tries again
  Timeouts,     \* can a try exceed perTryTimeout?
  Restarts,     \* can the pod of the billing service restart?
  CalcCodes     \* the statuses the calculation service answers with

Ops == {"createAccount", "depositAccount", "chargeAccount", "deleteAccount",
        "calculate2"}
Types == {"add", "multiply", "prime", "fibonacci"}

ASSUME BodyAssumption ==
  \A b \in Bodies :
    /\ b.op \in Ops
    /\ b.user \in Users
    /\ b.amount \in Int \/ b.amount \in {Fractional, Malformed}
ASSUME OpeningAssumption ==
  DOMAIN Opening \subseteq Users /\ Opening \in [DOMAIN Opening -> Nat]
ASSUME PolicyAssumption ==
  Attempts \in Nat /\ Timeouts \in BOOLEAN /\ Restarts \in BOOLEAN
ASSUME CodesAssumption == CalcCodes \subseteq 100..599

VARIABLES
  body,       \* body[r]: what request r asks; it never changes
  balance,    \* the accounts of the billing service
  read,       \* read[a]: the balance that try a has read and not yet stored to
  gw,         \* gw[r]: "new", "waiting" or "answered"
  try,        \* try[r]: the number of the current try, from 0
  status,     \* status[r]: the status the client got, 0 before that
  pc,         \* pc[a]: where the control center is with try a = <<r, k>>
  code,       \* code[a]: the status it answered try a with, 0 before that
  applied,    \* history: the tries that changed the accounts
  executed,   \* history: the tries whose calculation was answered with 200
  late,       \* history: the tries that exceeded perTryTimeout
  overtaken   \* history: the users whose account was changed while another
              \* change of it was between its read and its store

vars == <<body, balance, read, gw, try, status, pc, code, applied, executed, late,
          overtaken>>

Ledger == INSTANCE AccountLedger
            WITH Names <- Users, Sums <- Nat \ {0}

Tries == Requests \X (0..Attempts)
Op(a) == body[a[1]].op
User(a) == body[a[1]].user
Amount(a) == body[a[1]].amount

Init ==
  /\ body \in [Requests -> Bodies]
  /\ balance = Opening
  /\ read = [a \in Tries |-> 0]
  /\ gw = [r \in Requests |-> "new"]
  /\ try = [r \in Requests |-> 0]
  /\ status = [r \in Requests |-> 0]
  /\ pc = [a \in Tries |-> "none"]
  /\ code = [a \in Tries |-> 0]
  /\ applied = {}
  /\ executed = {}
  /\ late = {}
  /\ overtaken = {}

-----------------------------------------------------------------------------
(* The control center.                                                     *)

Goto(a, label) ==
  /\ pc' = [pc EXCEPT ![a] = label]
  /\ UNCHANGED <<body, code, gw, try, status, late>>

Reply(a, c) ==
  /\ pc' = [pc EXCEPT ![a] = "done"]
  /\ code' = [code EXCEPT ![a] = c]
  /\ UNCHANGED <<body, gw, try, status, late>>

Exists(a) == User(a) \in DOMAIN balance
Holds(accounts, u) == IF u \in DOMAIN accounts THEN accounts[u] ELSE 0

\* billing.py: try_to_int, and the test amount <= 0.
ValidAmount(a) == Amount(a) \notin {Fractional, Malformed} /\ Amount(a) > 0

Charges(a) == Op(a) \in {"chargeAccount", "calculate2"}

\* A mutant of Granted: the test for sufficient funds is forgotten.
GrantedUnchecked(a) ==
  /\ Exists(a) <=> Op(a) # "createAccount"
  /\ Op(a) \notin {"createAccount", "deleteAccount"} => ValidAmount(a)

\* The tests of the billing service before it changes an account.
Granted(a) ==
  /\ Exists(a) <=> Op(a) # "createAccount"
  /\ Op(a) \notin {"createAccount", "deleteAccount"} => ValidAmount(a)
  /\ Charges(a) => balance[User(a)] >= Amount(a)

\* The first half of an operation of the billing service.
Load(a, refusal) ==
  /\ IF Granted(a)
       THEN Goto(a, "store") /\ read' = [read EXCEPT ![a] = Holds(balance, User(a))]
       ELSE Reply(a, refusal) /\ UNCHANGED read
  /\ UNCHANGED <<balance, applied, executed, overtaken>>

\* A mutant of NewBalance: the amount is charged the wrong way round.
NewBalanceSwapped(a) ==
  IF Charges(a) \/ Op(a) = "depositAccount" THEN read[a] + Amount(a) ELSE 0

\* What is stored: a new account has 0.
NewBalance(a) ==
  IF Charges(a) THEN read[a] - Amount(a)
  ELSE IF Op(a) = "depositAccount" THEN read[a] + Amount(a) ELSE 0

\* The second half: the store, or the removal, a KeyError when the account is
\* gone already.  It has not looked at the balance again.
Store(a) ==
  /\ read' = [read EXCEPT ![a] = 0]
  /\ IF Op(a) = "deleteAccount" /\ ~Exists(a)
       THEN UNCHANGED <<balance, applied, overtaken>>
       ELSE /\ balance' = IF Op(a) = "deleteAccount" THEN Ledger!Del(balance, User(a))
                          ELSE Ledger!Put(balance, User(a), NewBalance(a))
            /\ applied' = applied \cup {a}
            /\ overtaken' =
                 IF \E b \in Tries \ {a} : pc[b] = "store" /\ User(b) = User(a)
                   THEN overtaken \cup {User(a)} ELSE overtaken
  /\ UNCHANGED executed

\* createAccount, depositAccount, chargeAccount, deleteAccount: one call of
\* the billing service, whose answer is wrapped in a 200 whatever its status.
passThrough(a) ==
  \/ pc[a] = "start" /\ Op(a) # "calculate2" /\ Load(a, 200)
  \/ pc[a] = "store" /\ Op(a) # "calculate2" /\ Store(a) /\ Reply(a, 200)

\* calculate2 parses the body and tests the price.
calculate2(a) ==
  /\ pc[a] = "start"
  /\ Op(a) = "calculate2"
  /\ \/ Amount(a) = Malformed /\ Reply(a, 500)
     \/ Amount(a) \notin {Malformed, Fractional} /\ Amount(a) < 1 /\ Reply(a, 400)
     \/ (Amount(a) = Fractional \/ ValidAmount(a)) /\ Goto(a, "info")
  /\ UNCHANGED <<balance, read, applied, executed, overtaken>>

get_account_info_(a) ==
  /\ pc[a] = "info"
  /\ IF Exists(a) THEN Goto(a, "charge") ELSE Reply(a, 400)
  /\ UNCHANGED <<balance, read, applied, executed, overtaken>>

\* A mutant of charge_account_: calculate2 does not look at the status.
ChargeStatusIgnored(a) ==
  \/ pc[a] = "charge" /\ Granted(a) /\ Load(a, 400)
  \/ /\ pc[a] = "charge" /\ ~Granted(a) /\ Goto(a, "calculate")
     /\ UNCHANGED <<balance, read, applied, executed, overtaken>>
  \/ pc[a] = "store" /\ Op(a) = "calculate2" /\ Store(a) /\ Goto(a, "charged")

\* chargeAccount on behalf of calculate2.
charge_account_(a) ==
  \/ pc[a] = "charge" /\ Load(a, 400)
  \/ pc[a] = "store" /\ Op(a) = "calculate2" /\ Store(a) /\ Goto(a, "charged")

\* The billing service reads the balance again for its answer, a 500 when
\* the account has been deleted since, which calculate2 turns into a 400.
charge_response(a) ==
  /\ pc[a] = "charged"
  /\ IF Exists(a) THEN Goto(a, "calculate") ELSE Reply(a, 400)
  /\ UNCHANGED <<balance, read, applied, executed, overtaken>>

\* A mutant of requestCalculation: a 200 whatever the calculation service
\* says, as in microservices/control-center/control-center.py.
AlwaysOK(a) ==
  /\ pc[a] = "calculate"
  /\ Reply(a, IF body[a[1]].type \in Types THEN 200 ELSE 403)
  /\ \E c \in CalcCodes : executed' = IF c = 200 THEN executed \cup {a} ELSE executed
  /\ UNCHANGED <<balance, read, applied, overtaken>>

\* The POST to the calculation service; its status is passed on.  A type it
\* does not know ends in abort(403), after the charge.
requestCalculation(a) ==
  /\ pc[a] = "calculate"
  /\ \/ /\ body[a[1]].type \in Types
        /\ \E c \in CalcCodes :
             /\ Reply(a, c)
             /\ executed' = IF c = 200 THEN executed \cup {a} ELSE executed
     \/ /\ body[a[1]].type \notin Types
        /\ Reply(a, 403)
        /\ UNCHANGED executed
  /\ UNCHANGED <<balance, read, applied, overtaken>>

\* The pod of the billing service restarts: the accounts are gone, and the
\* operations it has not answered fail with a 503 of the sidecar, which
\* calculate2 turns into a 400 and the other handlers wrap in a 200.
BillingRestart ==
  /\ Restarts
  /\ LET lost == {a \in Tries : pc[a] \in {"store", "charged"}}
     IN  /\ pc' = [a \in Tries |-> IF a \in lost THEN "done" ELSE pc[a]]
         /\ code' = [a \in Tries |->
              IF a \notin lost THEN code[a]
              ELSE IF Op(a) = "calculate2" THEN 400 ELSE 200]
  /\ balance' = Ledger!Empty
  /\ read' = [a \in Tries |-> 0]
  /\ UNCHANGED <<body, gw, try, status, applied, executed, late, overtaken>>

-----------------------------------------------------------------------------
(* The ingress gateway.                                                    *)

\* A mutant of GatewayErrors: retryOn: 5xx.
AnyServerError == 500..599

\* retryOn: gateway-error
GatewayErrors == {502, 503, 504}

Forward(r, k) ==
  /\ gw' = [gw EXCEPT ![r] = "waiting"]
  /\ try' = [try EXCEPT ![r] = k]
  /\ pc' = [pc EXCEPT ![<<r, k>>] = "start"]
  /\ UNCHANGED <<body, status, code>>

Finish(r, c) ==
  /\ gw' = [gw EXCEPT ![r] = "answered"]
  /\ status' = [status EXCEPT ![r] = c]
  /\ UNCHANGED <<body, try, pc, code>>

Receive(r) ==
  /\ gw[r] = "new"
  /\ Forward(r, 0)
  /\ UNCHANGED <<balance, read, applied, executed, late, overtaken>>

\* The control center has answered the current try; what it says to earlier
\* tries is not listened to any more.
Response(r) ==
  /\ gw[r] = "waiting"
  /\ pc[<<r, try[r]>>] = "done"
  /\ LET c == code[<<r, try[r]>>]
     IN  IF c \in GatewayErrors /\ try[r] < Attempts
           THEN Forward(r, try[r] + 1)
           ELSE Finish(r, c)
  /\ UNCHANGED <<balance, read, applied, executed, late, overtaken>>

\* A mutant of TryTimeout: tries that time out are not counted.
UncountedTimeout(r) ==
  /\ Timeouts
  /\ gw[r] = "waiting"
  /\ Forward(r, try[r])
  /\ late' = late \cup {<<r, try[r]>>}
  /\ UNCHANGED <<balance, read, applied, executed, overtaken>>

\* perTryTimeout has passed; the answer may be on its way.
TryTimeout(r) ==
  /\ Timeouts
  /\ gw[r] = "waiting"
  /\ IF try[r] < Attempts THEN Forward(r, try[r] + 1) ELSE Finish(r, 504)
  /\ late' = late \cup {<<r, try[r]>>}
  /\ UNCHANGED <<balance, read, applied, executed, overtaken>>

-----------------------------------------------------------------------------
(* The application.                                                        *)

Handle(a) ==
  \/ passThrough(a) \/ calculate2(a) \/ get_account_info_(a)
  \/ charge_account_(a) \/ charge_response(a) \/ requestCalculation(a)

Gateway(r) == Receive(r) \/ Response(r) \/ TryTimeout(r)

Next ==
  \/ \E a \in Tries : Handle(a)
  \/ \E r \in Requests : Gateway(r)
  \/ BillingRestart

\* Fairness of the gateway only: its clock runs, whatever the services do.
Fairness ==
  \A r \in Requests : WF_vars(Response(r) \/ TryTimeout(r))

Spec == Init /\ [][Next]_vars /\ Fairness

-----------------------------------------------------------------------------

\* The status codes that can occur, and the shape of the state; balances are
\* natural numbers.
TypeOK ==
  /\ body \in [Requests -> Bodies]
  /\ DOMAIN balance \subseteq Users
  /\ balance \in [DOMAIN balance -> Nat]
  /\ read \in [Tries -> Nat]
  /\ gw \in [Requests -> {"new", "waiting", "answered"}]
  /\ try \in [Requests -> 0..Attempts]
  /\ status \in [Requests -> {0} \cup 100..599]
  /\ pc \in [Tries -> {"none", "start", "info", "charge", "store", "charged",
                       "calculate", "done"}]
  /\ code \in [Tries -> {0} \cup 100..599]
  /\ applied \subseteq Tries
  /\ executed \subseteq Tries
  /\ late \subseteq Tries
  /\ overtaken \subseteq Users

\* Nothing is computed for free: a try whose calculation was answered with
\* 200 has charged the user, whatever is deleted, restarted or retried while
\* calculate2 is between its calls.
PaidBeforeExecuted == executed \subseteq applied

\* When the client of calculate2 gets a 200, some try of its request charged
\* the user and got its calculation answered.
SuccessIsPaid ==
  \A r \in Requests :
    gw[r] = "answered" /\ body[r].op = "calculate2" /\ status[r] = 200 =>
      \E k \in 0..Attempts : <<r, k>> \in applied \cap executed

\* A request changes the accounts at most once: "each user should have a
\* simple virtual bank account which is charged for executing calculation
\* tasks" and "Tom is charged, e.g., 20 for executing his task".  Retries of
\* the gateway repeat the charge.
AppliedOnce ==
  \A a, b \in applied : a[1] = b[1] => a[2] = b[2]

\* A request changes the accounts again only if the gateway gave up on the try
\* before or got a gateway error from it: neither a refusal, nor the 400 that
\* follows a charge whose account is gone, nor a 500 of a calculation service
\* that has been paid makes it repeat a charge (retryOn: gateway-error).
RepeatsExplained ==
  \A a, b \in applied :
    a[1] = b[1] /\ a[2] < b[2] => a \in late \/ code[a] \in {502, 503, 504}

\* What the tries of S have moved: one coin for each unit of their amounts.
Coins(S) == UNION {{a} \X (1..Amount(a)) : a \in S}

\* The sum that operations of these kinds have moved for user u, over all tries.
Moved(u, ops) == Cardinality(Coins({a \in applied : User(a) = u /\ Op(a) \in ops}))
Charged(u) == Moved(u, {"chargeAccount", "calculate2"})
PaidIn(u) == Moved(u, {"depositAccount"})

\* What a user has, and what has been charged over all tries, has been paid in:
\* neither repeated and abandoned tries nor deletions and restarts charge more.
\* Only a change of the account that overtakes another one does, because the
\* other then stores a balance that is out of date.
Solvent ==
  \A u \in Users \ overtaken :
    Charged(u) + Holds(balance, u) <= PaidIn(u) + Holds(Opening, u)

\* Money only gets lost with its account or in a change that was overtaken: as
\* long as none of a user was deleted, what has been paid in is what is there
\* and what has been charged.
Balanced ==
  \A u \in Users \ overtaken :
    ~(\E a \in applied : User(a) = u /\ Op(a) = "deleteAccount") =>
      Charged(u) + Holds(balance, u) = PaidIn(u) + Holds(Opening, u)

\* Every request is answered in the end, even when no handler ever answers:
\* perTryTimeout and the bound on the attempts see to it.
EveryRequestAnswered ==
  \A r \in Requests : gw[r] = "waiting" ~> gw[r] = "answered"
=============================================================================
