--------------------------- MODULE AccountLedger ---------------------------
(***************************************************************************)
(* What the billing service promises its callers: named accounts, each     *)
(* with a balance that never goes below zero, where every operation takes  *)
(* effect at one instant.  This is the abstract specification that module  *)
(* Billing is compared with; it corresponds to no code of its own.         *)
(***************************************************************************)
EXTENDS Integers

CONSTANTS
  Names,  \* the names an account can have
  Sums    \* the sums that can be credited or debited

VARIABLE balance  \* a partial function: account name -> balance

Empty == [n \in {} |-> 0]

\* The dictionary d after d[k] = v, and after del d[k].
Put(d, k, v) == [x \in DOMAIN d \cup {k} |-> IF x = k THEN v ELSE d[x]]
Del(d, k)    == [x \in DOMAIN d \ {k} |-> d[x]]

Open(n) == n \notin DOMAIN balance /\ balance' = Put(balance, n, 0)

Credit(n, s) ==
  /\ n \in DOMAIN balance
  /\ balance' = Put(balance, n, balance[n] + s)

Debit(n, s) ==
  /\ n \in DOMAIN balance
  /\ balance[n] >= s
  /\ balance' = Put(balance, n, balance[n] - s)

Close(n) == n \in DOMAIN balance /\ balance' = Del(balance, n)

\* The ledger lives in the memory of one process: a restart empties it.
Wipe == balance' = Empty

Init == balance = Empty

Next ==
  \/ \E n \in Names : Open(n) \/ Close(n)
  \/ \E n \in Names, s \in Sums : Credit(n, s) \/ Debit(n, s)
  \/ Wipe

Spec == Init /\ [][Next]_balance
=============================================================================
