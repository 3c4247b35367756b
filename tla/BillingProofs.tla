--------------------------- MODULE BillingProofs ---------------------------
(***************************************************************************)
(* Theorems about the billing service, for any set of users, of handler    *)
(* threads and of amounts, and for any number of requests.                 *)
(***************************************************************************)
EXTENDS Billing, TLAPS

-----------------------------------------------------------------------------
(* Type correctness.  What makes TypeOK inductive is that a handler that   *)
(* has passed AmountRequest holds a positive integer.                      *)

\* depositAccount and chargeAccount compute with positive integers only.
AmountsValid ==
  \A h \in Handlers :
    pc[h] \in {"load", "store"} /\ req[h].op \in AmountOps =>
      /\ Amount(h) \in Amounts \ {NotANumber, Missing}
      /\ Amount(h) \in Int
      /\ Amount(h) > 0

\* The fields of a request.
LEMMA RequestFields ==
  ASSUME NEW r \in Request
  PROVE  /\ r.op \in AmountOps \cup PlainOps
         /\ r.user \in Users
         /\ r.amount \in Amounts \cup {Missing}
BY DEF Request

\* What AmountRequest lets through is a positive integer.
LEMMA ValidAmountPositive ==
  ASSUME NEW a \in Amounts \cup {Missing}, a # Missing, ValidAmount(a)
  PROVE  a \in Amounts \ {NotANumber, Missing} /\ a \in Int /\ a > 0
BY AmountsAssumption DEF ValidAmount

\* The inductive step of type correctness.
LEMMA TypeStep == TypeOK /\ AmountsValid /\ [Next]_vars => (TypeOK /\ AmountsValid)'
<1> SUFFICES ASSUME TypeOK, AmountsValid, [Next]_vars
             PROVE  TypeOK' /\ AmountsValid'
  OBVIOUS
<1> USE DEF Goto, Answer, Refuse, At, User, Amount, Exists
<1>f. \A g \in Handlers : /\ req[g] \in Request
                          /\ req[g].user \in Users
                          /\ req[g].amount \in Amounts \cup {Missing}
  BY RequestFields DEF TypeOK
<1>1. CASE UNCHANGED vars
  BY <1>1 DEF TypeOK, AmountsValid, vars
<1>2. ASSUME NEW h \in Handlers, NEW r \in Request, Receive(h, r)
      PROVE  TypeOK' /\ AmountsValid'
  BY <1>2, BoundAssumption DEF TypeOK, AmountsValid, Receive
<1>3. ASSUME NEW h \in Handlers, isUserExists(h)
      PROVE  TypeOK' /\ AmountsValid'
  BY <1>3 DEF TypeOK, AmountsValid, isUserExists
<1>4. ASSUME NEW h \in Handlers, add_account(h)
      PROVE  TypeOK' /\ AmountsValid'
  BY <1>4 DEF TypeOK, AmountsValid, add_account, AmountOps
<1>5. ASSUME NEW h \in Handlers, AddAccountStore(h)
      PROVE  TypeOK' /\ AmountsValid'
  <2>1. DOMAIN users' = DOMAIN users \cup {User(h)} /\ users' \in [DOMAIN users' -> Nat]
    BY <1>5, <1>f DEF TypeOK, AddAccountStore, Ledger!Put
  <2> QED
    BY <1>5, <1>f, <2>1 DEF TypeOK, AmountsValid, AddAccountStore
<1>6. ASSUME NEW h \in Handlers, AmountRequest(h)
      PROVE  TypeOK' /\ AmountsValid'
  BY <1>6, <1>f, ValidAmountPositive DEF TypeOK, AmountsValid, AmountRequest
<1>7. ASSUME NEW h \in Handlers, DepositLoad(h)
      PROVE  TypeOK' /\ AmountsValid'
  BY <1>7 DEF TypeOK, AmountsValid, DepositLoad, AmountOps
<1>8. ASSUME NEW h \in Handlers, DepositStore(h)
      PROVE  TypeOK' /\ AmountsValid'
  <2>1. DOMAIN users' = DOMAIN users \cup {User(h)} /\ users' \in [DOMAIN users' -> Nat]
    BY <1>8, <1>f DEF TypeOK, DepositStore, Ledger!Put
  <2> QED
    BY <1>8, <1>f, <2>1 DEF TypeOK, AmountsValid, DepositStore, AmountOps
<1>9. ASSUME NEW h \in Handlers, ChargeLoad(h)
      PROVE  TypeOK' /\ AmountsValid'
  BY <1>9 DEF TypeOK, AmountsValid, ChargeLoad, AmountOps
<1>10. ASSUME NEW h \in Handlers, ChargeStore(h)
       PROVE  TypeOK' /\ AmountsValid'
  <2>1. DOMAIN users' = DOMAIN users \cup {User(h)} /\ users' \in [DOMAIN users' -> Nat]
    BY <1>10, <1>f DEF TypeOK, ChargeStore, Ledger!Put
  <2> QED
    BY <1>10, <1>f, <2>1 DEF TypeOK, AmountsValid, ChargeStore
<1>11. ASSUME NEW h \in Handlers, get_account_info(h)
       PROVE  TypeOK' /\ AmountsValid'
  BY <1>11 DEF TypeOK, AmountsValid, get_account_info
<1>12. ASSUME NEW h \in Handlers, get_account_info_by_username(h)
       PROVE  TypeOK' /\ AmountsValid'
  BY <1>12 DEF TypeOK, AmountsValid, get_account_info_by_username
<1>13. ASSUME NEW h \in Handlers, remove_account(h)
       PROVE  TypeOK' /\ AmountsValid'
  BY <1>13 DEF TypeOK, AmountsValid, remove_account, AmountOps
<1>14. ASSUME NEW h \in Handlers, RemoveAccountStore(h)
       PROVE  TypeOK' /\ AmountsValid'
  <2>1. DOMAIN users' \subseteq DOMAIN users /\ users' \in [DOMAIN users' -> Nat]
    BY <1>14, <1>f DEF TypeOK, RemoveAccountStore, Ledger!Del
  <2>2. applied' \in [Handlers -> BOOLEAN]
    <3>1. applied' = applied \/ applied' = [applied EXCEPT ![h] = TRUE]
      BY <1>14 DEF RemoveAccountStore
    <3>2. CASE applied' = applied
      BY <3>2 DEF TypeOK
    <3>3. CASE applied' = [applied EXCEPT ![h] = TRUE]
      BY <3>3 DEF TypeOK
    <3> QED
      BY <3>1, <3>2, <3>3
  <2>3. /\ pc' = [pc EXCEPT ![h] = "idle"]
        /\ reply' \in [Handlers -> {0, 200, 400, 404, 500, 503}]
        /\ UNCHANGED <<req, tmp, received, deposited>>
    BY <1>14 DEF TypeOK, RemoveAccountStore
  <2> QED
    BY <2>1, <2>2, <2>3 DEF TypeOK, AmountsValid
<1>15. CASE Restart
  BY <1>15 DEF TypeOK, AmountsValid, Restart, Ledger!Empty
<1> QED
  BY <1>1, <1>2, <1>3, <1>4, <1>5, <1>6, <1>7, <1>8, <1>9, <1>10, <1>11,
     <1>12, <1>13, <1>14, <1>15
  DEF Next, Step, deposit_account, charge_account

\* The initial state is well-typed.
LEMMA TypeInit == Init => TypeOK /\ AmountsValid
<1> SUFFICES ASSUME Init PROVE TypeOK /\ AmountsValid
  OBVIOUS
<1>1. [op |-> "isUserExists", user |-> NoUser, amount |-> Missing] \in Request
  BY UsersAssumption DEF Request, PlainOps
<1> QED
  BY <1>1, BoundAssumption DEF Init, TypeOK, AmountsValid, Ledger!Empty

\* Every reachable state of the billing service is well-typed: in particular
\* no interleaving of deposits, charges, creations and deletions takes a
\* balance below zero.
THEOREM TypeCorrect == Spec => [](TypeOK /\ AmountsValid)
BY TypeInit, TypeStep, PTL DEF Spec

-----------------------------------------------------------------------------
(* Conservation of money.  A balance can only be raised by DepositStore,   *)
(* which stores a sum computed earlier, from a balance that another        *)
(* handler may have overwritten since.  The strengthening therefore bounds *)
(* the value every handler is about to store, not only the balances.       *)

\* What a charge is about to store was covered by deposits when it was
\* computed; what a deposit is about to store, by deposits and its amount.
PendingCovered ==
  \A h \in Handlers :
    /\ At(h, "store", "chargeAccount") => tmp[h] <= deposited[User(h)]
    /\ At(h, "store", "depositAccount") =>
         tmp[h] <= deposited[User(h)] + Amount(h)

\* The inductive step of the conservation of money.
LEMMA MoneyStep ==
  TypeOK /\ AmountsValid /\ NoMoneyCreated /\ PendingCovered /\ [Next]_vars
    => (NoMoneyCreated /\ PendingCovered)'
<1> SUFFICES ASSUME TypeOK, AmountsValid, NoMoneyCreated, PendingCovered, [Next]_vars
             PROVE  NoMoneyCreated' /\ PendingCovered'
  OBVIOUS
<1> USE DEF Goto, Answer, Refuse, At, User, Amount, Exists
<1>f. \A g \in Handlers : req[g].user \in Users
  BY RequestFields DEF TypeOK
<1>1. CASE UNCHANGED vars
  BY <1>1 DEF NoMoneyCreated, PendingCovered, vars
<1>2. ASSUME NEW h \in Handlers, NEW r \in Request, Receive(h, r)
      PROVE  NoMoneyCreated' /\ PendingCovered'
  BY <1>2 DEF TypeOK, NoMoneyCreated, PendingCovered, Receive
<1>3. ASSUME NEW h \in Handlers,
             \/ isUserExists(h) \/ add_account(h) \/ AmountRequest(h)
             \/ get_account_info(h) \/ get_account_info_by_username(h)
             \/ remove_account(h)
      PROVE  NoMoneyCreated' /\ PendingCovered'
  <2>1. UNCHANGED <<users, req, tmp, deposited>>
    BY <1>3 DEF isUserExists, add_account, AmountRequest, get_account_info,
                get_account_info_by_username, remove_account
  <2>2. \A g \in Handlers : pc'[g] = "store" /\ req[g].op \in AmountOps => pc[g] = "store"
    BY <1>3 DEF TypeOK, isUserExists, add_account, AmountRequest, get_account_info,
                get_account_info_by_username, remove_account, AmountOps
  <2> QED
    BY <2>1, <2>2 DEF NoMoneyCreated, PendingCovered, AmountOps
<1>4. ASSUME NEW h \in Handlers, AddAccountStore(h)
      PROVE  NoMoneyCreated' /\ PendingCovered'
  <2>1. NoMoneyCreated'
    BY <1>4, <1>f DEF TypeOK, NoMoneyCreated, AddAccountStore, Ledger!Put
  <2>2. PendingCovered'
    BY <1>4 DEF TypeOK, PendingCovered, AddAccountStore
  <2> QED
    BY <2>1, <2>2
<1>5. ASSUME NEW h \in Handlers, DepositLoad(h)
      PROVE  NoMoneyCreated' /\ PendingCovered'
  <2>1. NoMoneyCreated'
    BY <1>5 DEF NoMoneyCreated, DepositLoad
  <2>2. PendingCovered'
    BY <1>5, <1>f DEF TypeOK, AmountsValid, AmountOps, NoMoneyCreated,
                      PendingCovered, DepositLoad
  <2> QED
    BY <2>1, <2>2
<1>6. ASSUME NEW h \in Handlers, DepositStore(h)
      PROVE  NoMoneyCreated' /\ PendingCovered'
  <2>1. Amount(h) \in Int /\ Amount(h) > 0
    BY <1>6 DEF AmountsValid, AmountOps, DepositStore
  <2>2. \A u \in Users : deposited'[u] >= deposited[u] /\ deposited'[u] \in Nat
    BY <1>6, <1>f, <2>1 DEF TypeOK, DepositStore
  <2>3. deposited'[User(h)] >= tmp[h]
    BY <1>6, <1>f, <2>1 DEF TypeOK, PendingCovered, DepositStore
  <2>4. NoMoneyCreated'
    BY <1>6, <1>f, <2>2, <2>3 DEF TypeOK, NoMoneyCreated, DepositStore, Ledger!Put
  <2>5. PendingCovered'
    <3> SUFFICES ASSUME NEW g \in Handlers
                 PROVE  /\ At(g, "store", "chargeAccount")' =>
                             tmp'[g] <= deposited'[User(g)']
                        /\ At(g, "store", "depositAccount")' =>
                             tmp'[g] <= deposited'[User(g)'] + Amount(g)'
      BY DEF PendingCovered
    <3>1. UNCHANGED <<req, tmp>> /\ (pc'[g] = "store" => pc[g] = "store")
      BY <1>6 DEF TypeOK, DepositStore
    <3>2. pc'[g] = "store" /\ req[g].op \in AmountOps => Amount(g) \in Int
      BY <3>1 DEF AmountsValid
    <3> QED
      BY <1>f, <2>2, <3>1, <3>2 DEF TypeOK, PendingCovered, AmountOps
  <2> QED
    BY <2>4, <2>5
<1>7. ASSUME NEW h \in Handlers, ChargeLoad(h)
      PROVE  NoMoneyCreated' /\ PendingCovered'
  <2>1. NoMoneyCreated'
    BY <1>7 DEF NoMoneyCreated, ChargeLoad
  <2>2. PendingCovered'
    BY <1>7, <1>f DEF TypeOK, AmountsValid, AmountOps, NoMoneyCreated,
                      PendingCovered, ChargeLoad
  <2> QED
    BY <2>1, <2>2
<1>8. ASSUME NEW h \in Handlers, ChargeStore(h)
      PROVE  NoMoneyCreated' /\ PendingCovered'
  <2>1. NoMoneyCreated'
    BY <1>8, <1>f DEF TypeOK, NoMoneyCreated, PendingCovered, ChargeStore, Ledger!Put
  <2>2. PendingCovered'
    BY <1>8 DEF TypeOK, PendingCovered, ChargeStore
  <2> QED
    BY <2>1, <2>2
<1>9. ASSUME NEW h \in Handlers, RemoveAccountStore(h)
      PROVE  NoMoneyCreated' /\ PendingCovered'
  <2>1. NoMoneyCreated'
    BY <1>9, <1>f DEF TypeOK, NoMoneyCreated, RemoveAccountStore, Ledger!Del
  <2>2. PendingCovered'
    BY <1>9 DEF TypeOK, PendingCovered, RemoveAccountStore
  <2> QED
    BY <2>1, <2>2
<1>10. CASE Restart
  BY <1>10 DEF TypeOK, NoMoneyCreated, PendingCovered, Restart, Ledger!Empty
<1> QED
  BY <1>1, <1>2, <1>3, <1>4, <1>5, <1>6, <1>7, <1>8, <1>9, <1>10
  DEF Next, Step, deposit_account, charge_account

\* Whatever updates concurrent handlers lose, no account ever holds more than
\* has been paid in: the load and the store of deposit_account and of
\* charge_account may be torn apart by any number of other handlers.
THEOREM MoneyConserved == Spec => []NoMoneyCreated
<1>1. Init => NoMoneyCreated /\ PendingCovered
  BY DEF Init, NoMoneyCreated, PendingCovered, At, Ledger!Empty
<1> QED
  BY <1>1, MoneyStep, TypeCorrect, PTL DEF Spec

-----------------------------------------------------------------------------
(* What a status tells the caller.                                         *)

\* A handler changes the dictionary in its store step and not before it;
\* only the read for the response body follows.
AppliedAtInfo ==
  \A h \in Handlers :
    /\ pc[h] \in {"check", "load", "store"} => ~applied[h]
    /\ pc[h] = "info" /\ req[h].op # "getAccountInfo" => applied[h]

\* The inductive step of the truth of the replies.
LEMMA RepliesStep ==
  TypeOK /\ AppliedAtInfo /\ RepliesTruthful /\ [Next]_vars
    => (AppliedAtInfo /\ RepliesTruthful)'
<1> SUFFICES ASSUME TypeOK, AppliedAtInfo, RepliesTruthful, [Next]_vars
             PROVE  AppliedAtInfo' /\ RepliesTruthful'
  OBVIOUS
<1> USE DEF Goto, Answer, Refuse, At, AppliedAtInfo, RepliesTruthful
<1>1. CASE UNCHANGED vars
  BY <1>1 DEF vars
<1>2. ASSUME NEW h \in Handlers, NEW r \in Request, Receive(h, r)
      PROVE  AppliedAtInfo' /\ RepliesTruthful'
  BY <1>2 DEF TypeOK, Receive
<1>3. ASSUME NEW h \in Handlers, isUserExists(h)
      PROVE  AppliedAtInfo' /\ RepliesTruthful'
  BY <1>3 DEF TypeOK, isUserExists, AmountOps
<1>4. ASSUME NEW h \in Handlers, add_account(h)
      PROVE  AppliedAtInfo' /\ RepliesTruthful'
  BY <1>4 DEF TypeOK, add_account
<1>5. ASSUME NEW h \in Handlers, AddAccountStore(h)
      PROVE  AppliedAtInfo' /\ RepliesTruthful'
  BY <1>5 DEF TypeOK, AddAccountStore
<1>6. ASSUME NEW h \in Handlers,
             AmountRequest(h), pc[h] = "check", req[h].op \in AmountOps
      PROVE  AppliedAtInfo' /\ RepliesTruthful'
  BY <1>6 DEF TypeOK, AmountRequest
<1>7. ASSUME NEW h \in Handlers, DepositLoad(h) \/ ChargeLoad(h)
      PROVE  AppliedAtInfo' /\ RepliesTruthful'
  BY <1>7 DEF TypeOK, DepositLoad, ChargeLoad
<1>8. ASSUME NEW h \in Handlers, DepositStore(h) \/ ChargeStore(h)
      PROVE  AppliedAtInfo' /\ RepliesTruthful'
  BY <1>8 DEF TypeOK, DepositStore, ChargeStore
<1>9. ASSUME NEW h \in Handlers, get_account_info(h)
      PROVE  AppliedAtInfo' /\ RepliesTruthful'
  BY <1>9 DEF TypeOK, get_account_info, AmountOps
<1>10. ASSUME NEW h \in Handlers, get_account_info_by_username(h)
       PROVE  AppliedAtInfo' /\ RepliesTruthful'
  BY <1>10 DEF TypeOK, get_account_info_by_username, AmountOps
<1>11. ASSUME NEW h \in Handlers, remove_account(h)
       PROVE  AppliedAtInfo' /\ RepliesTruthful'
  BY <1>11 DEF TypeOK, remove_account
<1>12. ASSUME NEW h \in Handlers, RemoveAccountStore(h)
       PROVE  AppliedAtInfo' /\ RepliesTruthful'
  BY <1>12 DEF TypeOK, RemoveAccountStore
<1>13. CASE Restart
  BY <1>13 DEF TypeOK, Restart
<1> QED
  BY <1>1, <1>2, <1>3, <1>4, <1>5, <1>6, <1>7, <1>8, <1>9, <1>10, <1>11,
     <1>12, <1>13
  DEF Next, Step, deposit_account, charge_account, AmountOps

\* A 200 is only sent for an operation that changed the dictionary and a 400
\* or a 404 only for one that did not; the KeyError of
\* get_account_info_by_username after the store is why nothing of the kind
\* holds of a 500.
THEOREM StatusesMeanWhatTheySay == Spec => []RepliesTruthful
<1>1. Init => AppliedAtInfo /\ RepliesTruthful
  BY DEF Init, AppliedAtInfo, RepliesTruthful, AmountOps
<1>2. Spec => []TypeOK
  BY TypeCorrect, PTL
<1> QED
  BY <1>1, <1>2, RepliesStep, PTL DEF Spec

-----------------------------------------------------------------------------
(* Refinement.  When requests for one account do not overlap, what a       *)
(* handler has checked or loaded still holds when it stores, because every *)
(* other active handler works on another account.                          *)

\* Two active handlers never serve the same account.
OneHandlerPerUser ==
  \A g, h \in Handlers :
    pc[g] # "idle" /\ pc[h] # "idle" /\ User(g) = User(h) => g = h

\* What a handler knows between its check or load and its store.
KnowledgeFresh ==
  \A h \in Handlers :
    /\ At(h, "store", "createAccount") => ~Exists(h)
    /\ pc[h] \in {"load", "store"} /\ req[h].op \in AmountOps => Exists(h)
    /\ At(h, "store", "depositAccount") => tmp[h] = users[User(h)] + Amount(h)
    /\ At(h, "store", "chargeAccount") => tmp[h] = users[User(h)] - Amount(h)

\* The invariant of the refinement proof.
SerialInv == TypeOK /\ AmountsValid /\ OneHandlerPerUser /\ KnowledgeFresh

\* Requests for one account stay apart.
LEMMA ExclusionStep ==
  ASSUME ~Overlap
  PROVE  TypeOK /\ OneHandlerPerUser /\ [Next]_vars => OneHandlerPerUser'
<1> SUFFICES ASSUME TypeOK, OneHandlerPerUser, [Next]_vars
             PROVE  OneHandlerPerUser'
  OBVIOUS
<1> USE DEF User, OneHandlerPerUser
<1>1. ASSUME NEW h \in Handlers, NEW r \in Request, Receive(h, r)
      PROVE  OneHandlerPerUser'
  BY <1>1 DEF TypeOK, Receive
<1>2. ASSUME NEW h \in Handlers, Step(h)
      PROVE  OneHandlerPerUser'
  <2>1. req' = req
    BY <1>2 DEF Step, isUserExists, add_account, AddAccountStore,
      deposit_account, DepositLoad, DepositStore, charge_account, ChargeLoad,
      ChargeStore, get_account_info, get_account_info_by_username,
      remove_account, RemoveAccountStore, AmountRequest
  <2>2. \A g \in Handlers : pc'[g] # "idle" => pc[g] # "idle"
    BY <1>2 DEF TypeOK, Step, isUserExists, add_account, AddAccountStore,
      deposit_account, DepositLoad, DepositStore, charge_account, ChargeLoad,
      ChargeStore, get_account_info, get_account_info_by_username,
      remove_account, RemoveAccountStore, AmountRequest, At, Goto, Answer, Refuse
  <2> QED
    BY <2>1, <2>2
<1>3. CASE Restart
  BY <1>3 DEF Restart
<1>4. CASE UNCHANGED vars
  BY <1>4 DEF vars
<1> QED
  BY <1>1, <1>2, <1>3, <1>4 DEF Next

\* A store to the account of one handler leaves the knowledge of every other
\* active handler alone.
LEMMA OthersUnaffected ==
  ASSUME TypeOK, OneHandlerPerUser, KnowledgeFresh,
         NEW h \in Handlers, pc[h] # "idle",
         UNCHANGED <<req, tmp>>,
         \/ pc' = [pc EXCEPT ![h] = "idle"]
         \/ pc' = [pc EXCEPT ![h] = "info"],
         \A u \in Users \ {User(h)} :
           /\ u \in DOMAIN users' <=> u \in DOMAIN users
           /\ u \in DOMAIN users => users'[u] = users[u]
  PROVE  KnowledgeFresh'
<1> SUFFICES ASSUME NEW g \in Handlers, pc'[g] \in {"load", "store"}
             PROVE  /\ At(g, "store", "createAccount")' => ~Exists(g)'
                    /\ pc'[g] \in {"load", "store"} /\ req'[g].op \in AmountOps => Exists(g)'
                    /\ At(g, "store", "depositAccount")' =>
                         tmp'[g] = users'[User(g)'] + Amount(g)'
                    /\ At(g, "store", "chargeAccount")' =>
                         tmp'[g] = users'[User(g)'] - Amount(g)'
  BY DEF KnowledgeFresh, At
<1>1. g # h /\ pc[g] = pc'[g]
  BY DEF TypeOK
<1>2. User(g) \in Users \ {User(h)}
  BY <1>1, RequestFields DEF TypeOK, OneHandlerPerUser, User
<1> QED
  BY <1>1, <1>2 DEF KnowledgeFresh, At, Exists, User, Amount, AmountOps

\* The inductive step of KnowledgeFresh.
LEMMA KnowledgeStep ==
  TypeOK /\ AmountsValid /\ OneHandlerPerUser /\ KnowledgeFresh /\ [Next]_vars
    => KnowledgeFresh'
<1> SUFFICES ASSUME TypeOK, AmountsValid, OneHandlerPerUser, KnowledgeFresh, [Next]_vars
             PROVE  KnowledgeFresh'
  OBVIOUS
<1> USE DEF Goto, Answer, Refuse, At, User, Amount, Exists
<1>f. \A g \in Handlers : req[g].user \in Users
  BY RequestFields DEF TypeOK
<1>1. CASE UNCHANGED vars
  BY <1>1 DEF KnowledgeFresh, vars
<1>2. ASSUME NEW h \in Handlers, NEW r \in Request, Receive(h, r)
      PROVE  KnowledgeFresh'
  BY <1>2 DEF TypeOK, KnowledgeFresh, Receive
<1>3. ASSUME NEW h \in Handlers,
             \/ isUserExists(h) \/ get_account_info(h)
             \/ get_account_info_by_username(h) \/ remove_account(h)
      PROVE  KnowledgeFresh'
  <2>1. UNCHANGED <<users, req, tmp>>
    BY <1>3 DEF isUserExists, get_account_info, get_account_info_by_username,
                remove_account
  <2>2. \A g \in Handlers : \/ pc'[g] = pc[g]
                            \/ pc'[g] \notin {"load", "store"}
                            \/ req[g].op = "deleteAccount"
    BY <1>3 DEF TypeOK, isUserExists, get_account_info,
                get_account_info_by_username, remove_account
  <2> QED
    BY <2>1, <2>2 DEF KnowledgeFresh, AmountOps
<1>4. ASSUME NEW h \in Handlers, add_account(h)
      PROVE  KnowledgeFresh'
  BY <1>4 DEF TypeOK, KnowledgeFresh, add_account, AmountOps
<1>5. ASSUME NEW h \in Handlers, AmountRequest(h), req[h].op \in AmountOps
      PROVE  KnowledgeFresh'
  BY <1>5 DEF TypeOK, KnowledgeFresh, AmountRequest, AmountOps
<1>6. ASSUME NEW h \in Handlers, DepositLoad(h) \/ ChargeLoad(h)
      PROVE  KnowledgeFresh'
  BY <1>6 DEF TypeOK, KnowledgeFresh, DepositLoad, ChargeLoad, AmountOps
<1>7. ASSUME NEW h \in Handlers,
             AddAccountStore(h) \/ DepositStore(h) \/ ChargeStore(h)
      PROVE  KnowledgeFresh'
  <2>1. PICK n : users' = Ledger!Put(users, User(h), n)
    BY <1>7 DEF AddAccountStore, DepositStore, ChargeStore
  <2>2. \A u \in Users \ {User(h)} :
          /\ u \in DOMAIN users' <=> u \in DOMAIN users
          /\ u \in DOMAIN users => users'[u] = users[u]
    BY <2>1 DEF Ledger!Put
  <2>3. /\ pc[h] # "idle"
        /\ UNCHANGED <<req, tmp>>
        /\ pc' = [pc EXCEPT ![h] = "info"]
    BY <1>7 DEF AddAccountStore, DepositStore, ChargeStore
  <2> QED
    BY <2>2, <2>3, OthersUnaffected
<1>8. ASSUME NEW h \in Handlers, RemoveAccountStore(h)
      PROVE  KnowledgeFresh'
  <2>1. \A u \in Users \ {User(h)} :
          /\ u \in DOMAIN users' <=> u \in DOMAIN users
          /\ u \in DOMAIN users => users'[u] = users[u]
    BY <1>8 DEF RemoveAccountStore, Ledger!Del
  <2>2. /\ pc[h] # "idle"
        /\ UNCHANGED <<req, tmp>>
        /\ pc' = [pc EXCEPT ![h] = "idle"]
    BY <1>8 DEF RemoveAccountStore
  <2> QED
    BY <2>1, <2>2, OthersUnaffected
<1>9. CASE Restart
  BY <1>9 DEF KnowledgeFresh, Restart
<1> QED
  BY <1>1, <1>2, <1>3, <1>4, <1>5, <1>6, <1>7, <1>8, <1>9
  DEF Next, Step, deposit_account, charge_account, AmountOps

\* Every step of the billing service is one operation of the ledger, or
\* leaves the ledger alone.
LEMMA LedgerStep == SerialInv /\ [Next]_vars => [Ledger!Next]_users
<1> SUFFICES ASSUME SerialInv, [Next]_vars
             PROVE  [Ledger!Next]_users
  OBVIOUS
<1> USE DEF SerialInv, At
<1>f. \A g \in Handlers : /\ User(g) \in Users
                          /\ Amount(g) \in Amounts \cup {Missing}
  BY RequestFields DEF TypeOK, User, Amount
<1>1. ASSUME NEW h \in Handlers, AddAccountStore(h)
      PROVE  Ledger!Next
  <2>1. Ledger!Open(User(h))
    BY <1>1 DEF AddAccountStore, KnowledgeFresh, Exists, Ledger!Open
  <2> QED
    BY <1>f, <2>1 DEF Ledger!Next
<1>2. ASSUME NEW h \in Handlers, DepositStore(h)
      PROVE  Ledger!Next
  <2>1. Ledger!Credit(User(h), Amount(h))
    BY <1>2 DEF DepositStore, KnowledgeFresh, AmountOps, Exists, Ledger!Credit
  <2>2. Amount(h) \in {a \in Amounts \ {NotANumber, Missing} : a > 0}
    BY <1>2, <1>f DEF DepositStore, AmountsValid, AmountOps
  <2> QED
    BY <1>f, <2>1, <2>2 DEF Ledger!Next
<1>3. ASSUME NEW h \in Handlers, ChargeStore(h)
      PROVE  Ledger!Next
  <2>1. Amount(h) \in {a \in Amounts \ {NotANumber, Missing} : a > 0}
    BY <1>3, <1>f DEF ChargeStore, AmountsValid, AmountOps
  <2>2. Ledger!Debit(User(h), Amount(h))
    BY <1>3, <2>1 DEF ChargeStore, KnowledgeFresh, AmountOps, AmountsValid, Exists,
                      TypeOK, Ledger!Debit
  <2> QED
    BY <1>f, <2>1, <2>2 DEF Ledger!Next
<1>4. ASSUME NEW h \in Handlers, RemoveAccountStore(h)
      PROVE  [Ledger!Next]_users
  BY <1>4, <1>f DEF RemoveAccountStore, Exists, Ledger!Next, Ledger!Close
<1>5. CASE Restart
  BY <1>5 DEF Restart, Ledger!Next, Ledger!Wipe
<1>6. ASSUME NEW h \in Handlers,
             \/ isUserExists(h) \/ add_account(h) \/ AmountRequest(h)
             \/ DepositLoad(h) \/ ChargeLoad(h) \/ get_account_info(h)
             \/ get_account_info_by_username(h) \/ remove_account(h)
             \/ \E r \in Request : Receive(h, r)
      PROVE  UNCHANGED users
  BY <1>6 DEF isUserExists, add_account, AmountRequest, DepositLoad, ChargeLoad,
              get_account_info, get_account_info_by_username, remove_account, Receive
<1>7. CASE UNCHANGED vars
  BY <1>7 DEF vars
<1> QED
  BY <1>1, <1>2, <1>3, <1>4, <1>5, <1>6, <1>7
  DEF Next, Step, deposit_account, charge_account

\* While no two requests for one account overlap, the multi-step handlers of
\* the billing service implement the atomic ledger; the run
\* billing_lost_update shows that they do not otherwise.
THEOREM SerialRefinesLedger == ASSUME ~Overlap PROVE Spec => AtomicLedger
<1>1. Init => SerialInv /\ Ledger!Init
  <2>1. Init => OneHandlerPerUser /\ KnowledgeFresh /\ Ledger!Init
    BY DEF Init, OneHandlerPerUser, KnowledgeFresh, At, Ledger!Init
  <2> QED
    BY <2>1, TypeInit DEF SerialInv
<1>2. SerialInv /\ [Next]_vars => SerialInv'
  BY TypeStep, ExclusionStep, KnowledgeStep DEF SerialInv
<1> QED
  BY <1>1, <1>2, LedgerStep, PTL DEF Spec, AtomicLedger, Ledger!Spec

\* While no two requests for one account overlap, a charge takes exactly its
\* amount from the balance the account has at that moment, although the handler
\* loaded the balance in an earlier step and the other accounts change meanwhile.
\* The run billing_lost_update violates this as soon as requests overlap.
THEOREM SerialChargesDebit == ASSUME ~Overlap PROVE Spec => ChargeDebits
<1>1. Init => SerialInv
  <2>1. Init => OneHandlerPerUser /\ KnowledgeFresh
    BY DEF Init, OneHandlerPerUser, KnowledgeFresh, At
  <2> QED
    BY <2>1, TypeInit DEF SerialInv
<1>2. SerialInv /\ [Next]_vars => SerialInv'
  BY TypeStep, ExclusionStep, KnowledgeStep DEF SerialInv
<1>3. ASSUME SerialInv, NEW h \in Handlers, ChargeStore(h), Exists(h)
      PROVE  users'[User(h)] = users[User(h)] - Amount(h)
  BY <1>3 DEF SerialInv, KnowledgeFresh, ChargeStore, Exists, Ledger!Put
<1>4. SerialInv /\ [Next]_vars =>
        [\A h \in Handlers :
           ChargeStore(h) /\ Exists(h) =>
             users'[User(h)] = users[User(h)] - Amount(h)]_vars
  BY <1>3
<1> QED
  BY <1>1, <1>2, <1>4, PTL DEF Spec, ChargeDebits
=============================================================================
