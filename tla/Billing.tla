------------------------------ MODULE Billing ------------------------------
(***************************************************************************)
(* The billing service (docker/services/billing/billing.py): one Flask     *)
(* process whose request handlers run in threads and share the dictionary  *)
(* "users".  CPython makes a single dictionary access atomic and nothing   *)
(* more, so a handler is a sequence of steps with one dictionary access    *)
(* each, and the handlers interleave between them.                         *)
(***************************************************************************)
EXTENDS Integers

CONSTANTS
  Users,        \* values of the query parameter "user"
  NoUser,       \* its value when the parameter is absent (None)
  Handlers,     \* the threads of the WSGI server
  Amounts,      \* values of the query parameter "amount"
  NotANumber,   \* an amount that int() rejects with a ValueError
  Missing,      \* an absent amount: int(None) is a TypeError
  Overlap,      \* may two requests for one account be in flight together?
  MaxRequests   \* bound: the number of requests received

ASSUME AmountsAssumption ==
  \A a \in Amounts : a \in Int \/ a \in {NotANumber, Missing}
ASSUME UsersAssumption == NoUser \in Users
ASSUME BoundAssumption == MaxRequests \in Nat /\ Overlap \in BOOLEAN

VARIABLES
  users,      \* the dictionary: account name -> balance
  pc,         \* pc[h]: the next dictionary access of handler h
  req,        \* req[h]: the request h serves, or served last
  tmp,        \* tmp[h]: the new balance h has computed and not yet stored
  reply,      \* reply[h]: the status h answered with, 0 before it answers
  received,   \* the number of requests received so far
  applied,    \* history: has h changed the dictionary for req[h]?
  deposited   \* history: the sum of all deposits ever stored, by account

vars == <<users, pc, req, tmp, reply, received, applied, deposited>>

Ledger == INSTANCE AccountLedger
            WITH Names <- Users, balance <- users,
                 Sums <- {a \in Amounts \ {NotANumber, Missing} : a > 0}

AmountOps == {"depositAccount", "chargeAccount"}
PlainOps == {"createAccount", "getAccountInfo", "deleteAccount",
             "isUserExists"}
Request == [op : PlainOps, user : Users, amount : {Missing}]
             \cup [op : AmountOps, user : Users, amount : Amounts]

Init ==
  /\ users = Ledger!Empty
  /\ pc = [h \in Handlers |-> "idle"]
  /\ req = [h \in Handlers |->
              [op |-> "isUserExists", user |-> NoUser, amount |-> Missing]]
  /\ tmp = [h \in Handlers |-> 0]
  /\ reply = [h \in Handlers |-> 0]
  /\ received = 0
  /\ applied = [h \in Handlers |-> FALSE]
  /\ deposited = [u \in Users |-> 0]

At(h, label, op) == pc[h] = label /\ req[h].op = op
User(h) == req[h].user
Amount(h) == req[h].amount
Exists(h) == User(h) \in DOMAIN users

Goto(h, label) ==
  pc' = [pc EXCEPT ![h] = label] /\ UNCHANGED reply

Answer(h, code) ==
  /\ pc' = [pc EXCEPT ![h] = "idle"]
  /\ reply' = [reply EXCEPT ![h] = code]

\* The error texts are built with 'User ' + user, a TypeError (hence a 500)
\* when the parameter is absent.
Refuse(h, code) == Answer(h, IF User(h) = NoUser THEN 500 ELSE code)

\* The routing of one HTTP request to a handler thread.
Receive(h, r) ==
  /\ pc[h] = "idle"
  /\ received < MaxRequests
  /\ Overlap \/ \A g \in Handlers : pc[g] = "idle" \/ User(g) # r.user
  /\ pc' = [pc EXCEPT ![h] = "check"]
  /\ req' = [req EXCEPT ![h] = r]
  /\ reply' = [reply EXCEPT ![h] = 0]
  /\ received' = received + 1
  /\ applied' = [applied EXCEPT ![h] = FALSE]
  /\ UNCHANGED <<users, tmp, deposited>>

isUserExists(h) ==
  /\ At(h, "check", "isUserExists")
  /\ Answer(h, IF Exists(h) THEN 200 ELSE 404)
  /\ UNCHANGED <<users, req, tmp, received, applied, deposited>>

\* A mutant of add_account: the membership test is forgotten.
AddAccountUnchecked(h) ==
  /\ At(h, "check", "createAccount")
  /\ Goto(h, "store")
  /\ UNCHANGED <<users, req, tmp, received, applied, deposited>>

\* createAccount: the membership test, then the store of balance 0.
add_account(h) ==
  /\ At(h, "check", "createAccount")
  /\ \/ Exists(h) /\ Refuse(h, 400)
     \/ ~Exists(h) /\ Goto(h, "store")
  /\ UNCHANGED <<users, req, tmp, received, applied, deposited>>

AddAccountStore(h) ==
  /\ At(h, "store", "createAccount")
  /\ users' = Ledger!Put(users, User(h), 0)
  /\ applied' = [applied EXCEPT ![h] = TRUE]
  /\ Goto(h, "info")
  /\ UNCHANGED <<req, tmp, received, deposited>>

\* A mutant of ValidAmount: only zero is refused.
ValidAmountNonzero(a) == a # NotANumber /\ a # 0

\* "amount is None or amount <= 0" is refused.
ValidAmount(a) == a # NotANumber /\ a > 0

\* The opening of depositAccount and chargeAccount: the amount is parsed
\* before anything else (TypeError when absent), then the membership test,
\* then the test of the amount.
AmountRequest(h) ==
  /\ \/ Amount(h) = Missing /\ Answer(h, 500)
     \/ Amount(h) # Missing /\ ~Exists(h) /\ Refuse(h, 400)
     \/ Amount(h) # Missing /\ Exists(h) /\ ~ValidAmount(Amount(h))
          /\ Answer(h, 400)
     \/ Amount(h) # Missing /\ Exists(h) /\ ValidAmount(Amount(h))
          /\ Goto(h, "load")
  /\ UNCHANGED <<users, req, tmp, received, applied, deposited>>

deposit_account(h) == At(h, "check", "depositAccount") /\ AmountRequest(h)

\* The right-hand side of users[user] = users[user] + amount; a KeyError
\* when the account has gone since the membership test.
DepositLoad(h) ==
  /\ At(h, "load", "depositAccount")
  /\ \/ ~Exists(h) /\ Answer(h, 500) /\ UNCHANGED tmp
     \/ /\ Exists(h)
        /\ tmp' = [tmp EXCEPT ![h] = users[User(h)] + Amount(h)]
        /\ Goto(h, "store")
  /\ UNCHANGED <<users, req, received, applied, deposited>>

DepositStore(h) ==
  /\ At(h, "store", "depositAccount")
  /\ users' = Ledger!Put(users, User(h), tmp[h])
  /\ applied' = [applied EXCEPT ![h] = TRUE]
  /\ deposited' = [deposited EXCEPT ![User(h)] = @ + Amount(h)]
  /\ Goto(h, "info")
  /\ UNCHANGED <<req, tmp, received>>

charge_account(h) == At(h, "check", "chargeAccount") /\ AmountRequest(h)

\* A mutant of ChargeLoad: the test for insufficient funds is forgotten.
ChargeLoadUnchecked(h) ==
  /\ At(h, "load", "chargeAccount")
  /\ \/ ~Exists(h) /\ Answer(h, 500) /\ UNCHANGED tmp
     \/ /\ Exists(h)
        /\ tmp' = [tmp EXCEPT ![h] = users[User(h)] - Amount(h)]
        /\ Goto(h, "store")
  /\ UNCHANGED <<users, req, received, applied, deposited>>

\* diff = users[user] - amount, and the test for insufficient funds.
ChargeLoad(h) ==
  /\ At(h, "load", "chargeAccount")
  /\ \/ ~Exists(h) /\ Answer(h, 500) /\ UNCHANGED tmp
     \/ Exists(h) /\ users[User(h)] - Amount(h) < 0
          /\ Answer(h, 400) /\ UNCHANGED tmp
     \/ /\ Exists(h)
        /\ users[User(h)] - Amount(h) >= 0
        /\ tmp' = [tmp EXCEPT ![h] = users[User(h)] - Amount(h)]
        /\ Goto(h, "store")
  /\ UNCHANGED <<users, req, received, applied, deposited>>

ChargeStore(h) ==
  /\ At(h, "store", "chargeAccount")
  /\ users' = Ledger!Put(users, User(h), tmp[h])
  /\ applied' = [applied EXCEPT ![h] = TRUE]
  /\ Goto(h, "info")
  /\ UNCHANGED <<req, tmp, received, deposited>>

get_account_info(h) ==
  /\ At(h, "check", "getAccountInfo")
  /\ \/ Exists(h) /\ Goto(h, "info")
     \/ ~Exists(h) /\ Refuse(h, 400)
  /\ UNCHANGED <<users, req, tmp, received, applied, deposited>>

\* A mutant of get_account_info_by_username: an account that has gone is
\* reported as not found although the operation has taken effect.
InfoNotFound(h) ==
  /\ pc[h] = "info"
  /\ Answer(h, IF Exists(h) THEN 200 ELSE 404)
  /\ UNCHANGED <<users, req, tmp, received, applied, deposited>>

\* The read of the balance for the response body, at the end of four of the
\* operations; a KeyError when the account has gone meanwhile.
get_account_info_by_username(h) ==
  /\ pc[h] = "info"
  /\ Answer(h, IF Exists(h) THEN 200 ELSE 500)
  /\ UNCHANGED <<users, req, tmp, received, applied, deposited>>

remove_account(h) ==
  /\ At(h, "check", "deleteAccount")
  /\ \/ Exists(h) /\ Goto(h, "store")
     \/ ~Exists(h) /\ Refuse(h, 404)
  /\ UNCHANGED <<users, req, tmp, received, applied, deposited>>

\* users.__delitem__(user); a KeyError when another handler was faster.
RemoveAccountStore(h) ==
  /\ At(h, "store", "deleteAccount")
  /\ \/ Exists(h) /\ users' = Ledger!Del(users, User(h))
          /\ applied' = [applied EXCEPT ![h] = TRUE] /\ Answer(h, 200)
     \/ ~Exists(h) /\ UNCHANGED <<users, applied>> /\ Answer(h, 500)
  /\ UNCHANGED <<req, tmp, received, deposited>>

\* The process dies and Kubernetes starts it again (restartPolicy: Always):
\* the dictionary is empty and the requests in flight are lost, which their
\* callers see as a 503 of the sidecar.
Restart ==
  /\ users' = Ledger!Empty
  /\ pc' = [h \in Handlers |-> "idle"]
  /\ reply' = [h \in Handlers |-> IF pc[h] = "idle" THEN reply[h] ELSE 503]
  /\ UNCHANGED <<req, tmp, received, applied, deposited>>

Step(h) ==
  \/ isUserExists(h)
  \/ add_account(h) \/ AddAccountStore(h)
  \/ deposit_account(h) \/ DepositLoad(h) \/ DepositStore(h)
  \/ charge_account(h) \/ ChargeLoad(h) \/ ChargeStore(h)
  \/ get_account_info(h) \/ get_account_info_by_username(h)
  \/ remove_account(h) \/ RemoveAccountStore(h)

Next ==
  \/ \E h \in Handlers : Step(h) \/ \E r \in Request : Receive(h, r)
  \/ Restart

Spec == Init /\ [][Next]_vars

-----------------------------------------------------------------------------

\* Every balance is a natural number: whatever the interleaving, no stale
\* difference that charge_account stores can take an account below zero.
TypeOK ==
  /\ DOMAIN users \subseteq Users
  /\ users \in [DOMAIN users -> Nat]
  /\ pc \in [Handlers -> {"idle", "check", "load", "store", "info"}]
  /\ req \in [Handlers -> Request]
  /\ tmp \in [Handlers -> Nat]
  /\ reply \in [Handlers -> {0, 200, 400, 404, 500, 503}]
  /\ received \in 0..MaxRequests
  /\ applied \in [Handlers -> BOOLEAN]
  /\ deposited \in [Users -> Nat]

\* Money does not come from nowhere: even when concurrent handlers overwrite
\* each other's balances, an account never holds more than was ever paid in
\* by depositAccount.
NoMoneyCreated == \A u \in DOMAIN users : users[u] <= deposited[u]

\* A caller may trust the status of an operation that changes an account: a
\* 200 means it took effect and a 400 or 404 that it did not (a 500 of
\* chargeAccount tells the caller nothing).
RepliesTruthful ==
  \A h \in Handlers :
    pc[h] = "idle" /\ req[h].op \in AmountOps \cup {"createAccount", "deleteAccount"} =>
      /\ reply[h] = 200 => applied[h]
      /\ reply[h] \in {400, 404} => ~applied[h]

\* When requests for one account do not overlap, the handlers implement the
\* atomic ledger although each of them takes several steps.
AtomicLedger == Ledger!Spec

\* What the assignment says of a charge: "Tom is charged, e.g., 20 for
\* executing his task (accordingly, his new balance becomes 80)".  A charge
\* of an account lowers the balance it has at that moment by exactly the
\* amount; handlers that load and store in turn lose each other's updates.
ChargeDebits ==
  [][\A h \in Handlers :
       ChargeStore(h) /\ Exists(h) =>
         users'[User(h)] = users[User(h)] - Amount(h)]_vars
=============================================================================
