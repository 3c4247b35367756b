--------------------------- MODULE RegistryProofs ---------------------------
(***************************************************************************)
(* Theorems about the service repository, for any services, any number of  *)
(* registering threads and of attempts, and any order of failures.         *)
(***************************************************************************)
EXTENDS ServiceRegistry, FiniteSetTheorems, TLAPS

-----------------------------------------------------------------------------
(* Type correctness.                                                       *)

Threads ==
  [at : {"idle", "get", "add", "write", "put", "link", "set"},
   ms : Services \cup {{}}, gone : BOOLEAN, list : Nat, size : Nat, since : SUBSET Urls]
Scans ==
  [at : {"idle", "next", "check", "remove", "unlink", "again", "unlinkAgain"},
   todo : SUBSET Urls, url : Urls \cup {{}}, tries : 0..(maxAttempts - 1),
   dead : SUBSET Urls, changed : BOOLEAN, none : BOOLEAN, since : SUBSET Urls]
ListsOf(S) == [slots : Seq(S), size : Nat]

\* What a thread holds fits the lists ls.
Fits(c, ls) ==
  /\ c.at # "idle" => c.ms \in Services
  /\ c.at # "write" => c.size = 0
  /\ c.at \notin {"idle", "get"} =>
       c.list \in DOMAIN ls /\ c.size <= Len(ls[c.list].slots)

\* The parts of the state that the groups of actions change.
MapTyped == Registered \subseteq Urls /\ \A u \in Registered : registered[u] \in DOMAIN lists
ListsTyped ==
  /\ lists \in Seq(ListsOf(DOMAIN entries))
  /\ \A l \in DOMAIN lists : lists[l].size <= Len(lists[l].slots)
  /\ entries \in Seq([ms : Services, workload : Workloads \cup {0}])
UpTyped ==
  /\ up \subseteq Urls \ Malformed /\ steady \subseteq up
  /\ granted \subseteq {s \in Services : Url[s] \in up}
CallersTyped ==
  caller \in [Callers -> Threads] /\ \A t \in Callers : Fits(caller[t], lists)

\* A service whose thread is registering it, and that has not stopped, runs.
CallersUp ==
  \A t \in Callers : caller[t].at # "idle" /\ ~caller[t].gone => Url[caller[t].ms] \in up

\* The threads that have yet to add their entry keep room for it.
Waiting == {t \in Callers : caller[t].at \in {"get", "add", "write"}}
RoomLeft == Len(entries) + Cardinality(Waiting) <= MaxEntries

TypeInv == TypeOK /\ CallersUp /\ RoomLeft

LEMMA TypeParts ==
  TypeOK <=> /\ MapTyped /\ ListsTyped /\ UpTyped /\ CallersTyped
             /\ Len(entries) <= MaxEntries /\ scan \in Scans
BY DEF TypeOK, MapTyped, ListsTyped, ListsOf, UpTyped, CallersTyped, Threads, Fits, Scans

LEMMA TypePartsNext ==
  ASSUME MapTyped', ListsTyped', UpTyped', CallersTyped', Len(entries') <= MaxEntries,
         scan' \in Scans
  PROVE  TypeOK'
BY DEF TypeOK, MapTyped, ListsTyped, ListsOf, UpTyped, CallersTyped, Threads, Fits, Scans

\* The waiting threads are finitely many; one that is done makes room.
LEMMA WaitingFinite ==
  /\ IsFiniteSet(Waiting) /\ Cardinality(Waiting) \in Nat
  /\ IsFiniteSet(Waiting') /\ Cardinality(Waiting') \in Nat
<1>1. Waiting \in SUBSET Callers /\ Waiting' \in SUBSET Callers
  BY DEF Waiting
<1> QED
  BY <1>1, RegistryAssumption, FS_Subset, FS_CardinalityType

LEMMA WaitingShrinks ==
  ASSUME Waiting' \subseteq Waiting, NEW t \in Waiting, t \notin Waiting'
  PROVE  Cardinality(Waiting') + 1 <= Cardinality(Waiting)
<1>1. Waiting' \subseteq Waiting \ {t}
  OBVIOUS
<1>2. IsFiniteSet(Waiting \ {t}) /\ Cardinality(Waiting \ {t}) = Cardinality(Waiting) - 1
  BY WaitingFinite, FS_RemoveElement
<1>3. Cardinality(Waiting') <= Cardinality(Waiting \ {t})
  BY <1>1, <1>2, FS_Subset
<1> QED
  BY <1>2, <1>3, WaitingFinite

\* A sequence over a set is one over a larger set.
LEMMA SeqWidens ==
  ASSUME NEW S, NEW T, S \subseteq T, NEW s \in Seq(S)
  PROVE  s \in Seq(T)
OBVIOUS

\* What a list is made of.
LEMMA ListTypes ==
  ASSUME ListsTyped, NEW l \in DOMAIN lists
  PROVE  /\ lists[l] = [slots |-> lists[l].slots, size |-> lists[l].size]
         /\ lists[l].slots \in Seq(DOMAIN entries) /\ lists[l].size \in Nat
         /\ lists[l].size <= Len(lists[l].slots)
<1>1. ASSUME NEW S, NEW s \in Seq(S), NEW i \in DOMAIN s
      PROVE  s[i] \in S
  BY <1>1
<1>2. lists[l] \in ListsOf(DOMAIN entries)
  BY <1>1 DEF ListsTyped
<1> QED
  BY <1>2 DEF ListsTyped, ListsOf

\* A thread goes on in its registration; the lists have not become shorter.
LEMMA ThreadMoves ==
  ASSUME CallersTyped, NEW t \in Callers, NEW c \in Threads, Fits(c, lists'),
         caller' = [caller EXCEPT ![t] = c],
         \A x \in Callers : Fits(caller[x], lists) => Fits(caller[x], lists')
  PROVE  CallersTyped'
BY DEF CallersTyped

\* A write into the slot behind the size that a thread has read.
LEMMA SlotWritten ==
  ASSUME NEW S, NEW l \in ListsOf(S), l.size <= Len(l.slots),
         NEW n \in Nat, n <= Len(l.slots), NEW e \in S
  PROVE  /\ WithSlot(l, n, e) \in ListsOf(S)
         /\ WithSlot(l, n, e).size = n + 1
         /\ n + 1 <= Len(WithSlot(l, n, e).slots)
         /\ Len(l.slots) <= Len(WithSlot(l, n, e).slots)
         /\ WithSlot(l, n, e).slots[n + 1] = e
         /\ \A i \in 1..n : WithSlot(l, n, e).slots[i] = l.slots[i]
<1>1. l.slots \in Seq(S) /\ Len(l.slots) \in Nat
  BY DEF ListsOf
<1>2. CASE n < Len(l.slots)
  <2>1. /\ WithSlot(l, n, e) = [slots |-> [l.slots EXCEPT ![n + 1] = e], size |-> n + 1]
        /\ n + 1 \in 1..Len(l.slots)
    BY <1>1, <1>2 DEF WithSlot
  <2>2. /\ [l.slots EXCEPT ![n + 1] = e] \in Seq(S)
        /\ Len([l.slots EXCEPT ![n + 1] = e]) = Len(l.slots)
    BY <1>1, <2>1
  <2>3. /\ [l.slots EXCEPT ![n + 1] = e][n + 1] = e
        /\ \A i \in 1..n : [l.slots EXCEPT ![n + 1] = e][i] = l.slots[i]
    BY <1>1, <2>1
  <2>4. /\ WithSlot(l, n, e).slots = [l.slots EXCEPT ![n + 1] = e]
        /\ WithSlot(l, n, e).size = n + 1
        /\ WithSlot(l, n, e) \in ListsOf(S)
    BY <2>1, <2>2 DEF ListsOf
  <2>5. n + 1 <= Len(l.slots)
    BY <2>1
  <2> QED
    BY <1>1, <2>2, <2>3, <2>4, <2>5
<1>3. CASE n = Len(l.slots)
  <2>1. WithSlot(l, n, e) = [slots |-> Append(l.slots, e), size |-> n + 1]
    <3>1. ~(n < Len(l.slots))
      BY <1>1, <1>3
    <3> QED
      BY <3>1, Zenon DEF WithSlot
  <2>2. /\ Append(l.slots, e) \in Seq(S) /\ Len(Append(l.slots, e)) = n + 1
        /\ Append(l.slots, e)[n + 1] = e
        /\ \A i \in 1..n : Append(l.slots, e)[i] = l.slots[i]
    BY <1>1, <1>3
  <2>3. /\ WithSlot(l, n, e).slots = Append(l.slots, e)
        /\ WithSlot(l, n, e).size = n + 1
        /\ WithSlot(l, n, e) \in ListsOf(S)
    BY <2>1, <2>2 DEF ListsOf
  <2> QED
    BY <1>1, <1>3, <2>2, <2>3
<1> QED
  BY <1>1, <1>2, <1>3

\* A thread begins to register a service.
LEMMA BeginTypes ==
  ASSUME TypeInv, NEW t \in Callers, NEW s \in Services, registerMicroservice(t, s)
  PROVE  TypeInv'
<1> DEFINE c == [Idle EXCEPT !.at = "get", !.ms = s, !.gone = Url[s] \notin up]
<1>1. /\ caller[t] = Idle /\ caller' = [caller EXCEPT ![t] = c]
      /\ UNCHANGED <<registered, lists, entries, up, scan, steady, granted>>
  BY DEF registerMicroservice
<1>2. /\ c \in Threads /\ Fits(c, lists)
      /\ c.at = "get" /\ c.ms = s /\ c.gone = (Url[s] \notin up)
  BY DEF Idle, Threads, Fits
<1> HIDE DEF c
<1>3. CallersTyped'
  BY <1>1, <1>2, TypeParts, ThreadMoves DEF TypeInv
<1>4. CallersUp'
  BY <1>1, <1>2, TypeParts DEF TypeInv, CallersTyped, CallersUp
<1>5. RoomLeft'
  <2>1. Len(entries) + Cardinality(Waiting) < MaxEntries
    BY DEF registerMicroservice, Waiting
  <2>2. Waiting' = Waiting \cup {t} /\ t \notin Waiting
    BY <1>1, <1>2, TypeParts DEF Waiting, TypeInv, CallersTyped, Idle
  <2>3. Cardinality(Waiting') = Cardinality(Waiting) + 1
    BY <2>2, WaitingFinite, FS_AddElement
  <2>4. Len(entries) \in Nat /\ MaxEntries \in Nat
    BY RegistryAssumption DEF TypeInv, TypeOK
  <2> QED
    BY <1>1, <2>1, <2>3, <2>4, WaitingFinite DEF RoomLeft
<1>6. TypeOK'
  <2>1. MapTyped' /\ ListsTyped' /\ UpTyped'
    BY <1>1, TypeParts DEF TypeInv, MapTyped, ListsTyped, UpTyped, Registered
  <2> QED
    BY <1>1, <1>3, <2>1, TypeParts, TypePartsNext DEF TypeInv
<1> QED
  BY <1>4, <1>5, <1>6 DEF TypeInv

\* A thread takes a step on its own that adds nothing yet.
LEMMA StepTypes ==
  ASSUME TypeInv, NEW t \in Callers, NEW c \in Threads,
         caller' = [caller EXCEPT ![t] = c], Fits(c, lists'),
         caller[t].at # "idle", c.ms = caller[t].ms, c.gone = caller[t].gone,
         c.at \in {"get", "add", "write"} <=> caller[t].at \in {"get", "add", "write"},
         ListsTyped', \A l \in DOMAIN lists : l \in DOMAIN lists' /\ lists'[l] = lists[l],
         UNCHANGED <<registered, entries, up, scan, steady, granted>>
  PROVE  TypeInv'
<1>1. MapTyped /\ UpTyped /\ CallersTyped /\ scan \in Scans /\ Len(entries) <= MaxEntries
  BY TypeParts DEF TypeInv
<1>2. \A x \in Callers : Fits(caller[x], lists) => Fits(caller[x], lists')
  BY DEF Fits
<1>3. CallersTyped'
  BY <1>1, <1>2, ThreadMoves
<1>4. CallersUp'
  BY <1>1 DEF TypeInv, CallersUp, CallersTyped
<1>5. Waiting' = Waiting
  BY <1>1 DEF Waiting, CallersTyped
<1>6. RoomLeft'
  BY <1>5 DEF RoomLeft, TypeInv
<1>7. MapTyped' /\ UpTyped'
  BY <1>1 DEF MapTyped, UpTyped, Registered
<1>8. TypeOK'
  BY <1>1, <1>3, <1>7, TypePartsNext
<1> QED
  BY <1>4, <1>6, <1>8 DEF TypeInv

\* It finds the list of its URL, or makes one.
LEMMA GetEffect ==
  ASSUME TypeInv, NEW t \in Callers, GetList(t)
  PROVE  /\ caller[t].at = "get" /\ caller[t].ms \in Services
         /\ caller'[t] \in Threads /\ caller' = [caller EXCEPT ![t] = caller'[t]]
         /\ caller'[t].at \in {"add", "write"} /\ caller'[t].ms = caller[t].ms
         /\ caller'[t].gone = caller[t].gone /\ caller'[t].size = 0
         /\ caller'[t].since = caller[t].since
         /\ caller'[t].list \in DOMAIN lists'
         /\ UNCHANGED <<registered, entries, up, scan, steady, granted>>
         /\ \A l \in DOMAIN lists : l \in DOMAIN lists' /\ lists'[l] = lists[l]
         /\ ListsTyped'
         /\ \/ /\ Url[caller[t].ms] \in Registered /\ lists' = lists
               /\ caller'[t].at = "add" /\ caller'[t].list = registered[Url[caller[t].ms]]
            \/ /\ Url[caller[t].ms] \notin Registered /\ caller'[t].at = "write"
               /\ caller'[t].list \notin DOMAIN lists
               /\ DOMAIN lists' = DOMAIN lists \cup {caller'[t].list}
               /\ lists'[caller'[t].list] = [slots |-> <<>>, size |-> 0]
<1>1. /\ MapTyped /\ ListsTyped /\ CallersTyped
      /\ caller[t].at = "get"
      /\ UNCHANGED <<registered, entries, up, scan, steady, granted>>
  BY TypeParts DEF TypeInv, GetList
<1>2. caller[t] \in Threads /\ caller[t].ms \in Services /\ caller[t].size = 0
  BY <1>1 DEF CallersTyped, Fits
<1> DEFINE u == Url[caller[t].ms]
<1>3. Len(lists) \in Nat /\ DOMAIN lists = 1..Len(lists)
      /\ lists \in Seq(ListsOf(DOMAIN entries))
  BY <1>1 DEF ListsTyped
<1>4. CASE u \in Registered
  <2>1. /\ lists' = lists /\ registered[u] \in DOMAIN lists /\ registered[u] \in Nat
        /\ caller' = [caller EXCEPT ![t].at = "add", ![t].list = registered[u]]
    BY <1>1, <1>3, <1>4 DEF GetList, MapTyped
  <2>2. /\ caller'[t] = [caller[t] EXCEPT !.at = "add", !.list = registered[u]]
        /\ caller' = [caller EXCEPT ![t] = caller'[t]]
    BY <1>1, <2>1 DEF CallersTyped
  <2>3. /\ caller'[t] \in Threads /\ caller'[t].at = "add" /\ caller'[t].ms = caller[t].ms
        /\ caller'[t].gone = caller[t].gone /\ caller'[t].size = 0
        /\ caller'[t].list = registered[u] /\ caller'[t].since = caller[t].since
    <3>1. registered[u] \in Nat /\ caller'[t] = [caller[t] EXCEPT !.at = "add", !.list = registered[u]]
      BY <2>1, <2>2
    <3> HIDE DEF u
    <3> QED
      BY <1>2, <3>1 DEF Threads
  <2> QED
    BY <1>1, <1>2, <1>4, <2>1, <2>2, <2>3 DEF ListsTyped
<1>5. CASE u \notin Registered
  <2>1. /\ lists' = Append(lists, [slots |-> <<>>, size |-> 0])
        /\ caller' = [caller EXCEPT ![t].at = "write", ![t].list = Len(lists) + 1]
    BY <1>1, <1>5 DEF GetList
  <2>2. /\ caller'[t] = [caller[t] EXCEPT !.at = "write", !.list = Len(lists) + 1]
        /\ caller' = [caller EXCEPT ![t] = caller'[t]]
    BY <1>1, <2>1 DEF CallersTyped
  <2>3. /\ caller'[t] \in Threads /\ caller'[t].at = "write" /\ caller'[t].ms = caller[t].ms
        /\ caller'[t].gone = caller[t].gone /\ caller'[t].size = 0
        /\ caller'[t].list = Len(lists) + 1 /\ caller'[t].since = caller[t].since
    <3>1. Len(lists) + 1 \in Nat /\ caller'[t] = [caller[t] EXCEPT !.at = "write", !.list = Len(lists) + 1]
      BY <1>3, <2>2
    <3> QED
      BY <1>2, <3>1 DEF Threads
  <2>4. [slots |-> <<>>, size |-> 0] \in ListsOf(DOMAIN entries)
    BY DEF ListsOf
  <2>5. /\ lists' \in Seq(ListsOf(DOMAIN entries))
        /\ DOMAIN lists' = 1..(Len(lists) + 1)
        /\ \A l \in DOMAIN lists : lists'[l] = lists[l]
        /\ lists'[Len(lists) + 1] = [slots |-> <<>>, size |-> 0]
    BY <1>3, <2>1, <2>4
  <2>6. /\ Len(lists) + 1 \notin DOMAIN lists
        /\ DOMAIN lists' = DOMAIN lists \cup {Len(lists) + 1}
    BY <1>3, <2>5
  <2>7. ListsTyped'
    <3>1. \A l \in DOMAIN lists' : lists'[l].size <= Len(lists'[l].slots)
      BY <1>1, <2>5, <2>6 DEF ListsTyped
    <3> QED
      BY <1>1, <2>5, <3>1 DEF ListsTyped
  <2> QED
    BY <1>1, <1>2, <1>5, <2>2, <2>3, <2>5, <2>6, <2>7
<1> QED
  BY <1>4, <1>5

LEMMA GetTypes ==
  ASSUME TypeInv, NEW t \in Callers, GetList(t)
  PROVE  TypeInv'
<1>1. Fits(caller'[t], lists')
  <2>1. caller'[t].size = 0 /\ caller'[t].at # "idle" /\ caller'[t].ms \in Services
        /\ caller'[t].list \in DOMAIN lists'
    BY GetEffect
  <2>2. Len(lists'[caller'[t].list].slots) \in Nat
    <3>1. ListsTyped'
      BY GetEffect
    <3>2. lists' \in Seq(ListsOf(DOMAIN entries'))
      BY <3>1 DEF ListsTyped
    <3>3. lists'[caller'[t].list] \in ListsOf(DOMAIN entries')
      BY <2>1, <3>2
    <3> QED
      BY <3>3 DEF ListsOf
  <2> QED
    BY <2>1, <2>2 DEF Fits
<1> QED
  BY <1>1, GetEffect, StepTypes

\* It reads the size of the list.
LEMMA SizeEffect ==
  ASSUME TypeInv, NEW t \in Callers, ReadSize(t)
  PROVE  /\ caller[t].at = "add" /\ caller[t].ms \in Services
         /\ caller[t].list \in DOMAIN lists
         /\ caller'[t] \in Threads /\ caller' = [caller EXCEPT ![t] = caller'[t]]
         /\ caller'[t].at = "write" /\ caller'[t].ms = caller[t].ms
         /\ caller'[t].gone = caller[t].gone /\ caller'[t].list = caller[t].list
         /\ caller'[t].size = lists[caller[t].list].size
         /\ caller'[t].since = caller[t].since
         /\ UNCHANGED <<registered, lists, entries, up, scan, steady, granted>>
<1>1. /\ ListsTyped /\ CallersTyped /\ caller[t].at = "add"
      /\ caller' = [caller EXCEPT ![t].at = "write", ![t].size = lists[caller[t].list].size]
      /\ UNCHANGED <<registered, lists, entries, up, scan, steady, granted>>
  BY TypeParts DEF TypeInv, ReadSize
<1>2. caller[t] \in Threads /\ caller[t].ms \in Services /\ caller[t].list \in DOMAIN lists
  BY <1>1 DEF CallersTyped, Fits
<1>3. lists[caller[t].list].size \in Nat
  BY <1>1, <1>2, ListTypes
<1>4. /\ caller'[t] = [caller[t] EXCEPT !.at = "write", !.size = lists[caller[t].list].size]
      /\ caller' = [caller EXCEPT ![t] = caller'[t]]
  BY <1>1 DEF CallersTyped
<1>5. /\ caller'[t] \in Threads /\ caller'[t].at = "write" /\ caller'[t].ms = caller[t].ms
      /\ caller'[t].gone = caller[t].gone /\ caller'[t].list = caller[t].list
      /\ caller'[t].size = lists[caller[t].list].size
      /\ caller'[t].since = caller[t].since
  BY <1>2, <1>3, <1>4 DEF Threads
<1> QED
  BY <1>1, <1>2, <1>4, <1>5

LEMMA SizeTypes ==
  ASSUME TypeInv, NEW t \in Callers, ReadSize(t)
  PROVE  TypeInv'
<1>1. ListsTyped
  BY TypeParts DEF TypeInv
<1>2. Fits(caller'[t], lists')
  BY <1>1, ListTypes, SizeEffect DEF Fits
<1>3. ListsTyped'
  BY <1>1, SizeEffect DEF ListsTyped
<1> QED
  BY <1>2, <1>3, SizeEffect, StepTypes

\* It looks for the key in the table.
LEMMA FindEffect ==
  ASSUME TypeInv, NEW t \in Callers, FindKey(t)
  PROVE  /\ caller[t].at = "put" /\ caller[t].ms \in Services
         /\ caller[t].list \in DOMAIN lists
         /\ caller'[t] \in Threads /\ caller' = [caller EXCEPT ![t] = caller'[t]]
         /\ caller'[t].at = IF Url[caller[t].ms] \in Registered THEN "set" ELSE "link"
         /\ caller'[t].ms = caller[t].ms /\ caller'[t].gone = caller[t].gone
         /\ caller'[t].list = caller[t].list /\ caller'[t].size = 0
         /\ caller'[t].since = caller[t].since
         /\ Fits(caller'[t], lists)
         /\ UNCHANGED <<registered, lists, entries, up, scan, steady, granted>>
<1> DEFINE k == IF Url[caller[t].ms] \in Registered THEN "set" ELSE "link"
<1>1. /\ ListsTyped /\ CallersTyped /\ caller[t].at = "put"
      /\ caller' = [caller EXCEPT ![t].at = k]
      /\ UNCHANGED <<registered, lists, entries, up, scan, steady, granted>>
  BY TypeParts DEF TypeInv, FindKey
<1>2. /\ caller[t] \in Threads /\ caller[t].ms \in Services /\ caller[t].list \in DOMAIN lists
      /\ caller[t].size = 0 /\ caller[t].size <= Len(lists[caller[t].list].slots)
  BY <1>1 DEF CallersTyped, Fits
<1>3. k \in {"set", "link"}
  OBVIOUS
<1> HIDE DEF k
<1>4. caller'[t] = [caller[t] EXCEPT !.at = k] /\ caller' = [caller EXCEPT ![t] = caller'[t]]
  BY <1>1 DEF CallersTyped
<1>5. /\ caller'[t] \in Threads /\ caller'[t].at = k /\ caller'[t].ms = caller[t].ms
      /\ caller'[t].gone = caller[t].gone /\ caller'[t].list = caller[t].list
      /\ caller'[t].size = 0 /\ caller'[t].since = caller[t].since
  BY <1>2, <1>3, <1>4 DEF Threads
<1>6. Fits(caller'[t], lists)
  BY <1>2, <1>3, <1>5 DEF Fits
<1> QED
  BY <1>1, <1>2, <1>4, <1>5, <1>6 DEF k

LEMMA FindTypes ==
  ASSUME TypeInv, NEW t \in Callers, FindKey(t)
  PROVE  TypeInv'
<1>1. ListsTyped'
  BY FindEffect, TypeParts DEF TypeInv, ListsTyped
<1> QED
  BY <1>1, FindEffect, StepTypes

\* It writes its entry into the list.
LEMMA EntryMade ==
  ASSUME NEW c \in Threads, NEW d, d = [c EXCEPT !.at = "put", !.size = 0]
  PROVE  /\ d \in Threads /\ d.at = "put" /\ d.ms = c.ms /\ d.gone = c.gone
         /\ d.list = c.list /\ d.size = 0 /\ d.since = c.since
BY DEF Threads

LEMMA AddEffect ==
  ASSUME TypeInv, NEW t \in Callers, AddEntry(t)
  PROVE  /\ caller[t].at = "write" /\ caller[t].list \in DOMAIN lists
         /\ caller[t].ms \in Services
         /\ caller'[t] \in Threads /\ caller' = [caller EXCEPT ![t] = caller'[t]]
         /\ caller'[t].at = "put" /\ caller'[t].ms = caller[t].ms
         /\ caller'[t].gone = caller[t].gone
         /\ caller'[t].list = caller[t].list /\ caller'[t].size = 0
         /\ caller'[t].since = caller[t].since
         /\ UNCHANGED <<registered, up, scan, steady, granted>>
         /\ DOMAIN lists' = DOMAIN lists
         /\ \A l \in DOMAIN lists \ {caller[t].list} : lists'[l] = lists[l]
         /\ \A l \in DOMAIN lists : Len(lists[l].slots) <= Len(lists'[l].slots)
         /\ lists'[caller[t].list].size = caller[t].size + 1
         /\ \A i \in 1..caller[t].size :
              lists'[caller[t].list].slots[i] = lists[caller[t].list].slots[i]
         /\ ListsTyped' /\ Len(entries') = Len(entries) + 1
         /\ \E e : /\ e \notin DOMAIN entries /\ DOMAIN entries' = DOMAIN entries \cup {e}
                   /\ entries'[e] = Entry(caller[t].ms, 0)
                   /\ \A x \in DOMAIN entries : entries'[x] = entries[x]
                   /\ lists'[caller[t].list].slots[caller[t].size + 1] = e
<1>1. /\ ListsTyped /\ CallersTyped /\ caller[t].at = "write"
      /\ caller' = [caller EXCEPT ![t].at = "put", ![t].size = 0]
      /\ UNCHANGED <<registered, up, scan, steady, granted>>
  BY TypeParts DEF TypeInv, AddEntry
<1> DEFINE l == caller[t].list
           n == caller[t].size
           e == Len(entries) + 1
<1>2. /\ caller[t] \in Threads /\ caller[t].ms \in Services
      /\ l \in DOMAIN lists /\ n \in Nat /\ n <= Len(lists[l].slots)
  BY <1>1 DEF CallersTyped, Fits, Threads
<1>3. /\ entries \in Seq([ms : Services, workload : Workloads \cup {0}])
      /\ Entry(caller[t].ms, 0) \in [ms : Services, workload : Workloads \cup {0}]
      /\ entries' = Append(entries, Entry(caller[t].ms, 0))
  BY <1>1, <1>2 DEF ListsTyped, Entry, AddEntry
<1>4. /\ entries' \in Seq([ms : Services, workload : Workloads \cup {0}])
      /\ Len(entries) \in Nat /\ Len(entries') = e
      /\ DOMAIN entries = 1..Len(entries) /\ DOMAIN entries' = 1..e
      /\ entries'[e] = Entry(caller[t].ms, 0)
      /\ \A x \in DOMAIN entries : entries'[x] = entries[x]
  BY <1>3
<1>5. e \notin DOMAIN entries /\ DOMAIN entries' = DOMAIN entries \cup {e}
  BY <1>4
<1>6. lists \in Seq(ListsOf(DOMAIN entries'))
  <2>1. Seq(DOMAIN entries) \subseteq Seq(DOMAIN entries')
    BY <1>5, SeqWidens
  <2>2. ListsOf(DOMAIN entries) \subseteq ListsOf(DOMAIN entries')
    BY <2>1 DEF ListsOf
  <2> QED
    BY <1>1, <2>2, SeqWidens DEF ListsTyped
<1>7. lists[l] \in ListsOf(DOMAIN entries') /\ lists[l].size <= Len(lists[l].slots)
  <2>1. \A S : \A s \in Seq(S) : \A i \in DOMAIN s : s[i] \in S
    OBVIOUS
  <2> QED
    BY <1>1, <1>2, <1>6, <2>1 DEF ListsTyped
<1> DEFINE w == WithSlot(lists[l], n, e)
<1>8. /\ w \in ListsOf(DOMAIN entries') /\ w.size = n + 1 /\ n + 1 <= Len(w.slots)
      /\ Len(lists[l].slots) <= Len(w.slots) /\ w.slots[n + 1] = e
      /\ \A i \in 1..n : w.slots[i] = lists[l].slots[i]
  <2>1. e \in DOMAIN entries'
    BY <1>5
  <2> HIDE DEF e, n, l
  <2> QED
    BY <1>2, <1>7, <2>1, SlotWritten
<1>9. lists' = [lists EXCEPT ![l] = w]
  BY DEF AddEntry
<1> HIDE DEF w
<1>10. /\ lists' \in Seq(ListsOf(DOMAIN entries')) /\ DOMAIN lists' = DOMAIN lists
       /\ lists'[l] = w /\ \A k \in DOMAIN lists \ {l} : lists'[k] = lists[k]
  BY <1>2, <1>6, <1>8, <1>9
<1>11. /\ \A k \in DOMAIN lists' : lists'[k].size <= Len(lists'[k].slots)
       /\ \A k \in DOMAIN lists : Len(lists[k].slots) <= Len(lists'[k].slots)
  <2>1. \A k \in DOMAIN lists : Len(lists[k].slots) \in Nat /\ lists[k].size <= Len(lists[k].slots)
    BY <1>1, ListTypes
  <2> QED
    <3>1. \A k \in DOMAIN lists \ {l} : lists'[k].slots = lists[k].slots /\ lists'[k].size = lists[k].size
      BY <1>10
    <3>2. /\ lists'[l].size <= Len(lists'[l].slots)
          /\ Len(lists[l].slots) <= Len(lists'[l].slots)
      BY <1>8, <1>10
    <3> HIDE DEF l, w
    <3>3. ASSUME NEW k \in DOMAIN lists
          PROVE  /\ lists'[k].size <= Len(lists'[k].slots)
                 /\ Len(lists[k].slots) <= Len(lists'[k].slots)
      <4>1. CASE k = l
        BY <3>2, <4>1
      <4>2. CASE k # l
        BY <2>1, <3>1, <4>2
      <4> QED
        BY <4>1, <4>2
    <3> QED
      BY <1>10, <3>3
<1>12. ListsTyped'
  BY <1>4, <1>10, <1>11 DEF ListsTyped
<1>13. /\ caller'[t] = [caller[t] EXCEPT !.at = "put", !.size = 0]
       /\ caller' = [caller EXCEPT ![t] = caller'[t]]
  BY <1>1 DEF CallersTyped
<1>14. /\ caller'[t] \in Threads /\ caller'[t].at = "put" /\ caller'[t].ms = caller[t].ms
       /\ caller'[t].gone = caller[t].gone /\ caller'[t].list = l /\ caller'[t].size = 0
       /\ caller'[t].since = caller[t].since
  <2>1. caller[t] \in Threads /\ caller'[t] = [caller[t] EXCEPT !.at = "put", !.size = 0]
    BY <1>2, <1>13
  <2> QED
    BY <2>1, EntryMade
<1> QED
  BY <1>1, <1>2, <1>4, <1>5, <1>8, <1>10, <1>11, <1>12, <1>13, <1>14

LEMMA AddTypes ==
  ASSUME TypeInv, NEW t \in Callers, AddEntry(t)
  PROVE  TypeInv'
<1>1. MapTyped /\ ListsTyped /\ UpTyped /\ CallersTyped /\ scan \in Scans
  BY TypeParts DEF TypeInv
<1>2. \A l \in DOMAIN lists : Len(lists[l].slots) \in Nat /\ Len(lists'[l].slots) \in Nat
  <2>1. \A l \in DOMAIN lists : Len(lists[l].slots) \in Nat
    BY <1>1, ListTypes
  <2>2. lists' \in Seq(ListsOf(DOMAIN entries')) /\ DOMAIN lists' = DOMAIN lists
    BY AddEffect DEF ListsTyped
  <2>3. \A l \in DOMAIN lists : lists'[l] \in ListsOf(DOMAIN entries')
    BY <2>2
  <2> QED
    BY <2>1, <2>3 DEF ListsOf
<1>3. CallersTyped'
  <2>1. \A x \in Callers : Fits(caller[x], lists) => Fits(caller[x], lists')
    <3>1. \A x \in Callers : caller[x].size \in Nat
      BY <1>1 DEF CallersTyped, Threads
    <3>2. \A l \in DOMAIN lists : l \in DOMAIN lists' /\ Len(lists[l].slots) <= Len(lists'[l].slots)
      BY AddEffect
    <3> QED
      BY <1>2, <3>1, <3>2 DEF Fits
  <2>2. Fits(caller'[t], lists')
    BY <1>2, AddEffect DEF Fits
  <2> QED
    BY <1>1, <2>1, <2>2, AddEffect, ThreadMoves
<1>4. CallersUp'
  BY <1>1, AddEffect DEF TypeInv, CallersUp, CallersTyped
<1>5. RoomLeft'
  <2>1. \A x \in Callers \ {t} : caller'[x] = caller[x]
    BY <1>1, AddEffect DEF CallersTyped
  <2>2. Waiting' \subseteq Waiting /\ t \in Waiting /\ t \notin Waiting'
    BY <2>1, AddEffect DEF Waiting
  <2>3. Cardinality(Waiting') + 1 <= Cardinality(Waiting)
    BY <2>2, WaitingShrinks
  <2>4. Len(entries) \in Nat /\ MaxEntries \in Nat /\ Len(entries') = Len(entries) + 1
    BY <1>1, AddEffect, RegistryAssumption DEF ListsTyped
  <2> QED
    BY <2>3, <2>4, WaitingFinite DEF RoomLeft, TypeInv
<1>6. Len(entries') <= MaxEntries
  <2>1. Len(entries') \in Nat /\ MaxEntries \in Nat
    BY <1>1, AddEffect, RegistryAssumption DEF ListsTyped
  <2> QED
    BY <1>5, <2>1, WaitingFinite DEF RoomLeft
<1>7. MapTyped' /\ UpTyped'
  BY <1>1, AddEffect DEF MapTyped, UpTyped, Registered
<1>8. TypeOK'
  BY <1>1, <1>3, <1>6, <1>7, AddEffect, TypePartsNext
<1> QED
  BY <1>4, <1>5, <1>8 DEF TypeInv

\* What a call between its look and its store takes note of.
LEMMA ThreadMisses ==
  ASSUME NEW c \in Threads, NEW m, Registered \subseteq Urls, DOMAIN m \subseteq Urls
  PROVE  /\ Missing(c, m) \in Threads
         /\ Missing(c, m).at = c.at /\ Missing(c, m).ms = c.ms
         /\ Missing(c, m).gone = c.gone /\ Missing(c, m).list = c.list
         /\ Missing(c, m).size = c.size
BY DEF Missing, Threads

LEMMA ScanMisses ==
  ASSUME scan \in Scans, NEW m, Registered \subseteq Urls, DOMAIN m \subseteq Urls
  PROVE  /\ Missing(scan, m) \in Scans
         /\ Missing(scan, m).at = scan.at /\ Missing(scan, m).todo = scan.todo
         /\ Missing(scan, m).url = scan.url /\ Missing(scan, m).dead = scan.dead
         /\ Missing(scan, m).none = scan.none
         /\ scan.since \subseteq Missing(scan, m).since
         /\ Missing(scan, m).since \subseteq
              scan.since \cup (DOMAIN m \ Registered) \cup (Registered \ DOMAIN m)
BY DEF Missing, Scans

\* The keys of S come or go: the threads stay what they are.
LEMMA MissingTypes ==
  ASSUME TypeInv, NEW m, DOMAIN m \subseteq Urls, NEW T \in SUBSET Callers,
         caller' = [x \in Callers |-> IF x \in T THEN Idle ELSE Missing(caller[x], m)],
         \A x \in T : x \notin Waiting,
         MapTyped', UpTyped', scan' \in Scans, UNCHANGED <<lists, entries, up>>
  PROVE  TypeInv'
<1>1. ListsTyped /\ CallersTyped /\ MapTyped /\ Len(entries) <= MaxEntries
  BY TypeParts DEF TypeInv
<1>2. ASSUME NEW x \in Callers
      PROVE  /\ caller'[x] \in Threads /\ Fits(caller'[x], lists)
             /\ caller'[x].at # "idle" => /\ caller'[x].at = caller[x].at
                                          /\ caller'[x].ms = caller[x].ms
                                          /\ caller'[x].gone = caller[x].gone
             /\ x \in Waiting' <=> x \in Waiting
  <2>1. CASE x \in T
    <3>1. caller'[x] = Idle /\ x \notin Waiting
      BY <2>1
    <3> QED
      <4>1. Idle \in Threads /\ Fits(Idle, lists) /\ Idle.at = "idle"
        BY DEF Idle, Threads, Fits
      <4>2. x \notin Waiting'
        BY <3>1, <4>1 DEF Waiting
      <4> QED
        BY <3>1, <4>1, <4>2
  <2>2. CASE x \notin T
    <3>1. caller'[x] = Missing(caller[x], m) /\ caller[x] \in Threads /\ Fits(caller[x], lists)
      BY <1>1, <2>2 DEF CallersTyped
    <3>2. /\ caller'[x] \in Threads /\ caller'[x].at = caller[x].at
          /\ caller'[x].ms = caller[x].ms /\ caller'[x].gone = caller[x].gone
          /\ caller'[x].list = caller[x].list /\ caller'[x].size = caller[x].size
      BY <1>1, <3>1, ThreadMisses DEF MapTyped
    <3> QED
      BY <3>1, <3>2 DEF Fits, Waiting
  <2> QED
    BY <2>1, <2>2
<1>3. CallersTyped'
  BY <1>2 DEF CallersTyped
<1>4. CallersUp'
  BY <1>2 DEF TypeInv, CallersUp
<1>5. Waiting' = Waiting
  BY <1>2 DEF Waiting
<1>6. RoomLeft'
  BY <1>5 DEF RoomLeft, TypeInv
<1>7. TypeOK'
  BY <1>1, <1>3, TypePartsNext DEF ListsTyped
<1> QED
  BY <1>4, <1>6, <1>7 DEF TypeInv

\* A thread that stores answers, whatever became of its key in the map.
LEMMA AnswerTypes ==
  ASSUME TypeInv, NEW t \in Callers, caller[t].at \in {"link", "set"},
         NEW m, DOMAIN m \subseteq Urls, Answer(t, m), MapTyped', scan' \in Scans,
         UNCHANGED <<lists, entries, up, steady>>
  PROVE  TypeInv'
<1>1. /\ caller' = [x \in Callers |-> IF x \in {t} THEN Idle ELSE Missing(caller[x], m)]
      /\ granted' = granted \cup IF caller[t].gone THEN {} ELSE {caller[t].ms}
      /\ t \notin Waiting /\ CallersTyped /\ UpTyped
  BY TypeParts DEF Answer, Waiting, TypeInv
<1>2. ~caller[t].gone => caller[t].ms \in Services /\ Url[caller[t].ms] \in up
  BY <1>1 DEF TypeInv, CallersUp, CallersTyped, Fits
<1>3. UpTyped'
  BY <1>1, <1>2 DEF UpTyped
<1> QED
  BY <1>1, <1>3, MissingTypes

\* The scheduled thread knows which URL it is asking or removing.
ScanInv == scan.at \in {"check", "unlink", "again", "unlinkAgain"} => scan.url \in Urls

RegistryInv == TypeInv /\ ScanInv

\* A thread about to store, and what it stores.
LEMMA Storing ==
  ASSUME TypeInv, NEW t \in Callers, caller[t].at \in {"link", "set"}
  PROVE  /\ caller[t].ms \in Services /\ Url[caller[t].ms] \in Urls
         /\ caller[t].list \in DOMAIN lists /\ caller[t].since \subseteq Urls
         /\ scan \in Scans /\ MapTyped /\ Registered \subseteq Urls
BY TypeParts DEF TypeInv, CallersTyped, Fits, Urls, MapTyped, Threads

LEMMA LinkEffect ==
  ASSUME TypeInv, NEW t \in Callers, LinkNode(t)
  PROVE  \E m : /\ caller[t].at = "link" /\ registered' = m /\ Answer(t, m)
                /\ DOMAIN m \subseteq Urls /\ MapTyped'
                /\ \/ m = registered
                   \/ \E lost \in SUBSET caller[t].since :
                        m = Put(lost, Url[caller[t].ms], caller[t].list)
                /\ caller[t].since = {} => m = Put({}, Url[caller[t].ms], caller[t].list)
                /\ scan' = [Missing(scan, m) EXCEPT !.changed = scan.at \in {"next", "check"}]
                /\ UNCHANGED <<lists, entries, up, steady>>
<1>1. PICK m \in Linked(t) :
        /\ registered' = m /\ Answer(t, m)
        /\ scan' = [Missing(scan, m) EXCEPT !.changed = scan.at \in {"next", "check"}]
  BY DEF LinkNode
<1>2. caller[t].at = "link" /\ UNCHANGED <<lists, entries, up, steady>>
  BY DEF LinkNode
<1>3. \/ \E lost \in SUBSET caller[t].since :
           m = Put(lost, Url[caller[t].ms], caller[t].list)
      \/ caller[t].since # {} /\ m = registered
  BY DEF Linked
<1>4. DOMAIN m \subseteq Urls /\ MapTyped'
  <2>1. MapTyped /\ caller[t].list \in DOMAIN lists /\ Url[caller[t].ms] \in Urls
    BY <1>2, Storing
  <2>2. CASE m = registered
    BY <1>1, <1>2, <2>1, <2>2 DEF MapTyped, Registered
  <2>3. CASE \E lost \in SUBSET caller[t].since :
               m = Put(lost, Url[caller[t].ms], caller[t].list)
    <3>1. PICK lost : registered' = Put(lost, Url[caller[t].ms], caller[t].list)
      BY <1>1, <2>3
    <3> QED
      BY <1>1, <1>2, <2>1, <3>1 DEF Put, MapTyped, Registered
  <2> QED
    BY <1>3, <2>2, <2>3
<1>5. caller[t].since = {} => m = Put({}, Url[caller[t].ms], caller[t].list)
  BY <1>3
<1> QED
  BY <1>1, <1>2, <1>3, <1>4, <1>5

LEMMA SetEffect ==
  ASSUME TypeInv, NEW t \in Callers, SetValue(t)
  PROVE  /\ caller[t].at = "set" /\ Answer(t, registered) /\ MapTyped'
         /\ Registered \subseteq Urls /\ Registered' = Registered
         /\ \A x \in Registered \ {Url[caller[t].ms]} : registered'[x] = registered[x]
         /\ \/ /\ Url[caller[t].ms] \in Registered \ caller[t].since
               /\ registered'[Url[caller[t].ms]] = caller[t].list
            \/ /\ Url[caller[t].ms] \notin Registered \ caller[t].since
               /\ registered' = registered
         /\ UNCHANGED <<lists, entries, up, scan, steady>>
<1> DEFINE u == Url[caller[t].ms]
<1>1. /\ caller[t].at = "set" /\ Answer(t, registered)
      /\ registered' = IF u \in Registered \ caller[t].since
                         THEN Put({}, u, caller[t].list) ELSE registered
      /\ UNCHANGED <<lists, entries, up, scan, steady>>
  BY DEF SetValue
<1>2. MapTyped /\ Registered \subseteq Urls /\ caller[t].list \in DOMAIN lists /\ u \in Urls
  BY <1>1, Storing
<1>3. CASE u \in Registered \ caller[t].since
  <2>1. registered' = Put({}, u, caller[t].list)
    BY <1>1, <1>3
  <2>2. DOMAIN registered' = Registered /\ registered'[u] = caller[t].list
    BY <1>2, <1>3, <2>1 DEF Put
  <2>3. \A x \in Registered \ {u} : registered'[x] = registered[x]
    BY <1>2, <2>1 DEF Put
  <2>4. MapTyped'
    BY <1>1, <1>2, <2>2, <2>3 DEF MapTyped, Registered
  <2> QED
    BY <1>1, <1>2, <1>3, <2>2, <2>3, <2>4 DEF Registered
<1>4. CASE u \notin Registered \ caller[t].since
  <2>1. registered' = registered
    BY <1>1, <1>4
  <2> QED
    BY <1>1, <1>2, <1>4, <2>1 DEF MapTyped, Registered
<1> QED
  BY <1>3, <1>4

LEMMA StoreStep ==
  ASSUME RegistryInv, NEW t \in Callers, LinkNode(t) \/ SetValue(t)
  PROVE  RegistryInv'
<1>1. CASE LinkNode(t)
  <2>1. PICK m : /\ caller[t].at = "link" /\ registered' = m /\ Answer(t, m)
                 /\ DOMAIN m \subseteq Urls /\ MapTyped'
                 /\ scan' = [Missing(scan, m) EXCEPT !.changed = scan.at \in {"next", "check"}]
                 /\ UNCHANGED <<lists, entries, up, steady>>
    BY <1>1, LinkEffect DEF RegistryInv
  <2>2. scan \in Scans /\ Registered \subseteq Urls
    BY <2>1, Storing DEF RegistryInv
  <2>3. /\ Missing(scan, m) \in Scans /\ Missing(scan, m).at = scan.at
        /\ Missing(scan, m).url = scan.url
    BY <2>1, <2>2, ScanMisses
  <2>4. scan' \in Scans /\ scan'.at = scan.at /\ scan'.url = scan.url
    <3> DEFINE b == scan.at \in {"next", "check"}
    <3>1. b \in BOOLEAN /\ scan' = [Missing(scan, m) EXCEPT !.changed = b]
      BY <2>1
    <3> HIDE DEF b
    <3> QED
      BY <2>3, <3>1 DEF Scans
  <2>5. TypeInv'
    BY <2>1, <2>4, AnswerTypes DEF RegistryInv
  <2> QED
    BY <2>4, <2>5 DEF RegistryInv, ScanInv
<1>2. CASE SetValue(t)
  <2>1. /\ caller[t].at = "set" /\ Answer(t, registered) /\ MapTyped'
        /\ DOMAIN registered \subseteq Urls /\ UNCHANGED <<lists, entries, up, scan, steady>>
    BY <1>2, SetEffect DEF RegistryInv, Registered
  <2>2. scan' \in Scans
    BY <2>1, Storing DEF RegistryInv
  <2>3. TypeInv'
    BY <2>1, <2>2, AnswerTypes DEF RegistryInv
  <2> QED
    BY <2>1, <2>3 DEF RegistryInv, ScanInv
<1> QED
  BY <1>1, <1>2

LEMMA RegisterStep ==
  ASSUME RegistryInv, NEW t \in Callers, Register(t)
  PROVE  RegistryInv'
<1>1. ASSUME NEW s \in Services, registerMicroservice(t, s)
      PROVE  RegistryInv'
  BY <1>1, BeginTypes DEF RegistryInv, ScanInv, registerMicroservice
<1>2. CASE GetList(t) \/ ReadSize(t) \/ AddEntry(t) \/ FindKey(t)
  <2>1. TypeInv'
    BY <1>2, GetTypes, SizeTypes, AddTypes, FindTypes DEF RegistryInv
  <2>2. UNCHANGED scan
    BY <1>2 DEF GetList, ReadSize, AddEntry, FindKey
  <2> QED
    BY <2>1, <2>2 DEF RegistryInv, ScanInv
<1>3. CASE LinkNode(t) \/ SetValue(t)
  BY <1>3, StoreStep
<1> QED
  BY <1>1, <1>2, <1>3 DEF Register

\* A query writes the workload of a service into its entry.
LEMMA QueryTypes ==
  ASSUME TypeInv, Query
  PROVE  TypeInv'
<1>1. PICK e \in DOMAIN entries, w \in Workloads :
        entries' = [entries EXCEPT ![e].workload = w]
  BY DEF Query, SetWorkload
<1>2. UNCHANGED <<registered, lists, up, caller, scan, steady, granted>>
  BY DEF Query, SetWorkload
<1>3. ListsTyped
  BY TypeParts DEF TypeInv
<1>4. /\ entries' \in Seq([ms : Services, workload : Workloads \cup {0}])
      /\ Len(entries') = Len(entries) /\ DOMAIN entries' = DOMAIN entries
  <2> DEFINE R == [ms : Services, workload : Workloads \cup {0}]
             x == [entries[e] EXCEPT !.workload = w]
  <2>1. entries \in Seq(R) /\ entries[e] \in R
    <3>1. entries \in Seq(R)
      BY <1>3 DEF ListsTyped
    <3> HIDE DEF R
    <3> QED
      BY <3>1
  <2>2. x \in R
    BY <2>1
  <2>3. entries' = [entries EXCEPT ![e] = x]
    BY <1>1
  <2> HIDE DEF R, x
  <2> QED
    BY <2>1, <2>2, <2>3 DEF R
<1>5. MapTyped' /\ ListsTyped' /\ UpTyped' /\ CallersTyped'
  <2>1. ListsTyped'
    BY <1>2, <1>3, <1>4 DEF ListsTyped
  <2>2. CallersTyped'
    BY <1>2, TypeParts DEF TypeInv, CallersTyped, Fits
  <2> QED
    BY <1>2, <2>1, <2>2, TypeParts DEF TypeInv, MapTyped, UpTyped, Registered
<1>6. TypeOK'
  BY <1>2, <1>4, <1>5, TypeParts, TypePartsNext DEF TypeInv
<1>7. CallersUp' /\ RoomLeft'
  BY <1>2, <1>4 DEF TypeInv, CallersUp, RoomLeft, Waiting
<1> QED
  BY <1>6, <1>7 DEF TypeInv

-----------------------------------------------------------------------------
(* The scheduled thread and the services.                                  *)

\* A step of the scheduled thread that leaves the map alone.
LEMMA ScanTypes ==
  ASSUME RegistryInv, scan' \in Scans, ScanInv', steady' \subseteq up,
         UNCHANGED <<registered, lists, entries, up, caller, granted>>
  PROVE  RegistryInv'
<1>1. MapTyped' /\ ListsTyped' /\ UpTyped' /\ CallersTyped'
  BY TypeParts DEF RegistryInv, TypeInv, MapTyped, ListsTyped, UpTyped, CallersTyped, Fits,
     Registered
<1>2. TypeOK'
  BY <1>1, TypeParts, TypePartsNext DEF RegistryInv, TypeInv
<1>3. CallersUp' /\ RoomLeft'
  BY DEF RegistryInv, TypeInv, CallersUp, RoomLeft, Waiting
<1> QED
  BY <1>2, <1>3 DEF RegistryInv, TypeInv

LEMMA NoScanTyped == NoScan \in Scans /\ NoScan.at = "idle"
<1>1. 0 \in 0..(maxAttempts - 1)
  BY RegistryAssumption
<1> QED
  BY <1>1 DEF NoScan, Scans

LEMMA StartScanStep ==
  ASSUME RegistryInv, StartScan
  PROVE  RegistryInv'
<1>1. /\ scan' = [NoScan EXCEPT !.at = "next", !.todo = Registered] /\ steady' = up
      /\ UNCHANGED <<registered, lists, entries, up, caller, granted>>
      /\ Registered \subseteq Urls
  BY TypeParts DEF StartScan, RegistryInv, TypeInv, MapTyped
<1>2. scan' \in Scans /\ scan'.at = "next"
  BY <1>1, NoScanTyped DEF Scans
<1>3. ScanInv'
  BY <1>2 DEF ScanInv
<1> QED
  BY <1>1, <1>2, <1>3, ScanTypes

LEMMA NextUrlStep ==
  ASSUME RegistryInv, NextUrl
  PROVE  RegistryInv'
<1>1. scan \in Scans /\ steady \subseteq up
  BY TypeParts DEF RegistryInv, TypeInv, UpTyped
<1>2. UNCHANGED <<registered, lists, entries, up, caller, steady, granted>>
  BY DEF NextUrl
<1>3. scan' \in Scans /\ ScanInv'
  <2>1. CASE scan' = [scan EXCEPT !.at = "remove", !.changed = FALSE]
    <3>1. scan' \in Scans /\ scan'.at = "remove"
      BY <1>1, <2>1 DEF Scans
    <3> QED
      BY <3>1 DEF ScanInv
  <2>2. CASE scan' = NoScan
    BY <2>2, NoScanTyped DEF ScanInv
  <2>3. ASSUME NEW u \in scan.todo,
               scan' = [scan EXCEPT !.at = "check", !.todo = @ \ {u}, !.url = u, !.tries = 0]
        PROVE  scan' \in Scans /\ ScanInv'
    <3>1. u \in Urls /\ 0 \in 0..(maxAttempts - 1)
      BY <1>1, RegistryAssumption DEF Scans
    <3> QED
      BY <1>1, <2>3, <3>1 DEF Scans, ScanInv
  <2> QED
    BY <2>1, <2>2, <2>3 DEF NextUrl
<1> QED
  BY <1>1, <1>2, <1>3, ScanTypes

\* What a failed call of /health leaves, whether it is the last one or not.
LEMMA FailedTyped ==
  ASSUME scan \in Scans, scan.url \in Urls
  PROVE  /\ Dead \in Scans /\ Dead.at = "next" /\ Dead.dead = scan.dead \cup {scan.url}
         /\ Failed \in Scans
         /\ \/ Failed = Dead
            \/ /\ scan.tries + 1 < maxAttempts /\ Failed.at = scan.at
               /\ Failed.url = scan.url /\ Failed.dead = scan.dead
         /\ scan.tries + 1 < maxAttempts => Failed.dead = scan.dead
<1>1. Dead \in Scans /\ Dead.at = "next" /\ Dead.dead = scan.dead \cup {scan.url}
  BY DEF Dead, Scans
<1>2. scan.tries \in 0..(maxAttempts - 1) /\ maxAttempts \in Nat
  BY RegistryAssumption DEF Scans
<1>3. CASE scan.tries + 1 < maxAttempts
  <2>1. scan.tries + 1 \in 0..(maxAttempts - 1) /\ Failed = [scan EXCEPT !.tries = @ + 1]
    BY <1>2, <1>3 DEF Failed
  <2>2. /\ Failed \in Scans /\ Failed.at = scan.at /\ Failed.url = scan.url
        /\ Failed.dead = scan.dead
    BY <2>1 DEF Scans
  <2> QED
    BY <1>1, <1>3, <2>2
<1>4. CASE ~(scan.tries + 1 < maxAttempts)
  BY <1>1, <1>4 DEF Failed
<1> QED
  BY <1>3, <1>4

LEMMA CheckStep ==
  ASSUME RegistryInv, checkHealth
  PROVE  RegistryInv'
<1>1. scan \in Scans /\ scan.at = "check" /\ scan.url \in Urls /\ steady \subseteq up
  BY TypeParts DEF RegistryInv, TypeInv, UpTyped, checkHealth, ScanInv
<1>2. UNCHANGED <<registered, lists, entries, up, caller, steady, granted>>
  BY DEF checkHealth
<1>3. scan' \in Scans /\ ScanInv'
  <2>1. CASE scan' = NoScan
    BY <2>1, NoScanTyped DEF ScanInv
  <2>2. CASE scan' = [scan EXCEPT !.at = "next"]
    <3>1. scan' \in Scans /\ scan'.at = "next"
      BY <1>1, <2>2 DEF Scans
    <3> QED
      BY <3>1 DEF ScanInv
  <2>3. CASE scan' = Failed \/ scan' = Dead
    <3>1. scan' \in Scans /\ (scan'.at = "next" \/ scan'.url = scan.url)
      BY <1>1, <2>3, FailedTyped
    <3> QED
      BY <1>1, <3>1 DEF ScanInv
  <2> QED
    BY <2>1, <2>2, <2>3 DEF checkHealth
<1> QED
  BY <1>1, <1>2, <1>3, ScanTypes

LEMMA LoggedTyped ==
  ASSUME scan \in Scans
  PROVE  /\ Logged \in Scans
         /\ \/ Logged = NoScan /\ scan.none
            \/ /\ Logged.at = "remove" /\ ~scan.none /\ Logged.none = scan.none
               /\ Logged.dead = scan.dead /\ Logged.since = {}
<1>1. CASE scan.none
  BY <1>1, NoScanTyped DEF Logged
<1>2. CASE ~scan.none
  BY <1>2 DEF Logged, Scans
<1> QED
  BY <1>1, <1>2

LEMMA RemoveStep ==
  ASSUME RegistryInv, deregisterMicroservice \/ RemoveAgain
  PROVE  RegistryInv'
<1>1. scan \in Scans /\ steady \subseteq up
  BY TypeParts DEF RegistryInv, TypeInv, UpTyped
<1>2. UNCHANGED <<registered, lists, entries, up, caller, steady, granted>>
  BY DEF deregisterMicroservice, RemoveAgain
<1>3. CASE deregisterMicroservice
  <2>1. CASE scan' = NoScan
    BY <1>1, <1>2, <2>1, NoScanTyped, ScanTypes DEF ScanInv
  <2>2. ASSUME NEW u \in scan.dead,
               scan' = [scan EXCEPT !.at = IF u \in Registered THEN "unlink" ELSE "again",
                          !.url = u, !.dead = @ \ {u}, !.none = u \notin Registered]
        PROVE  RegistryInv'
    <3> DEFINE a == IF u \in Registered THEN "unlink" ELSE "again"
               b == u \notin Registered
    <3>1. /\ a \in {"unlink", "again"} /\ b \in BOOLEAN /\ u \in Urls
          /\ scan' = [scan EXCEPT !.at = a, !.url = u, !.dead = @ \ {u}, !.none = b]
      BY <1>1, <2>2 DEF Scans
    <3> HIDE DEF a, b
    <3>2. scan' \in Scans /\ scan'.url = u
      BY <1>1, <3>1 DEF Scans
    <3>3. ScanInv'
      BY <3>1, <3>2 DEF ScanInv
    <3> QED
      BY <1>1, <1>2, <3>2, <3>3, ScanTypes
  <2> QED
    BY <1>3, <2>1, <2>2 DEF deregisterMicroservice
<1>4. CASE RemoveAgain
  <2>1. scan.at = "again" /\ scan.url \in Urls
    BY <1>4 DEF RemoveAgain, RegistryInv, ScanInv
  <2>2. CASE scan' = [scan EXCEPT !.at = "unlinkAgain"]
    <3>1. scan' \in Scans /\ scan'.url = scan.url
      BY <1>1, <2>2 DEF Scans
    <3> QED
      BY <1>1, <1>2, <2>1, <3>1, ScanTypes DEF ScanInv
  <2>3. CASE scan' = Logged
    <3>1. scan' \in Scans /\ scan'.at \in {"idle", "remove"}
      BY <1>1, <2>3, LoggedTyped, NoScanTyped
    <3>2. ScanInv'
      BY <3>1 DEF ScanInv
    <3> QED
      BY <1>1, <1>2, <3>1, <3>2, ScanTypes
  <2> QED
    BY <1>4, <2>2, <2>3 DEF RemoveAgain
<1> QED
  BY <1>3, <1>4

\* The map after an unlink: keys only leave it.
LEMMA UnlinkEffect ==
  ASSUME MapTyped, Unlink
  PROVE  \E m : /\ registered' = m /\ DOMAIN m \subseteq Registered
                /\ \A u \in DOMAIN m : m[u] = registered[u]
                /\ Registered \ DOMAIN m \subseteq scan.since \cup {scan.url}
                /\ caller' = [t \in Callers |-> Missing(caller[t], m)]
                /\ MapTyped'
<1>1. PICK m \in Unlinked : /\ registered' = m
                            /\ caller' = [t \in Callers |-> Missing(caller[t], m)]
  BY DEF Unlink
<1>2. PICK lost \in SUBSET scan.since :
        m = Within(registered, Registered \ (lost \cup ({scan.url} \ scan.since)))
  BY DEF Unlinked
<1>3. /\ DOMAIN m = Registered \ (lost \cup ({scan.url} \ scan.since))
      /\ \A u \in DOMAIN m : m[u] = registered[u]
  BY <1>2 DEF Within
<1>4. MapTyped'
  BY <1>1, <1>3 DEF MapTyped, Registered, Unlink
<1> QED
  BY <1>1, <1>3, <1>4

LEMMA UnlinkStep ==
  ASSUME RegistryInv, Unlink
  PROVE  RegistryInv'
<1>1. scan \in Scans /\ MapTyped /\ UpTyped /\ scan.at \in {"unlink", "unlinkAgain"}
      /\ scan.url \in Urls /\ Registered \subseteq Urls
  BY TypeParts DEF RegistryInv, TypeInv, Unlink, ScanInv, MapTyped
<1>2. PICK m : /\ registered' = m /\ DOMAIN m \subseteq Registered /\ MapTyped'
               /\ caller' = [t \in Callers |-> Missing(caller[t], m)]
  BY <1>1, UnlinkEffect
<1>3. UNCHANGED <<lists, entries, up, steady, granted>>
  BY DEF Unlink
<1>4. scan' \in Scans /\ ScanInv'
  <2>1. CASE scan' = [scan EXCEPT !.at = "again", !.since = {}]
    <3>1. scan' \in Scans /\ scan'.url = scan.url
      BY <1>1, <2>1 DEF Scans
    <3> QED
      BY <1>1, <3>1 DEF ScanInv
  <2>2. CASE scan' = Logged
    <3>1. scan' \in Scans /\ scan'.at \in {"idle", "remove"}
      BY <1>1, <2>2, LoggedTyped, NoScanTyped
    <3> QED
      BY <3>1 DEF ScanInv
  <2> QED
    BY <2>1, <2>2 DEF Unlink
<1>5. TypeInv'
  <2>1. caller' = [x \in Callers |-> IF x \in {} THEN Idle ELSE Missing(caller[x], m)]
    BY <1>2
  <2>2. UpTyped' /\ DOMAIN m \subseteq Urls /\ {} \in SUBSET Callers
    BY <1>1, <1>2, <1>3 DEF UpTyped
  <2> QED
    BY <1>2, <1>3, <1>4, <2>1, <2>2, MissingTypes DEF RegistryInv
<1> QED
  BY <1>4, <1>5 DEF RegistryInv

\* A service that stops leaves what its threads are doing, but for the flag.
LEMMA StopKeeps ==
  ASSUME TypeInv, NEW u, Stop(u), NEW t \in Callers
  PROVE  /\ caller'[t] \in Threads
         /\ caller'[t].at = caller[t].at /\ caller'[t].ms = caller[t].ms
         /\ caller'[t].list = caller[t].list /\ caller'[t].size = caller[t].size
         /\ caller'[t].since = caller[t].since
         /\ caller[t].at # "idle" /\ Url[caller[t].ms] = u => caller'[t].gone
         /\ caller[t].gone => caller'[t].gone
<1>1. /\ caller[t] \in Threads
      /\ caller'[t] = IF caller[t] # Idle /\ Url[caller[t].ms] = u
                        THEN [caller[t] EXCEPT !.gone = TRUE] ELSE caller[t]
  BY TypeParts DEF TypeInv, CallersTyped, Stop
<1>2. CASE caller[t] # Idle /\ Url[caller[t].ms] = u
  <2>1. caller'[t] = [caller[t] EXCEPT !.gone = TRUE]
    BY <1>1, <1>2
  <2> QED
    BY <1>1, <2>1 DEF Threads
<1>3. CASE ~(caller[t] # Idle /\ Url[caller[t].ms] = u)
  <2>1. caller'[t] = caller[t]
    BY <1>1, <1>3
  <2> QED
    BY <1>1, <1>3, <2>1 DEF Idle
<1> QED
  BY <1>2, <1>3

LEMMA StopStep ==
  ASSUME RegistryInv, NEW u \in Urls, Stop(u)
  PROVE  RegistryInv'
<1>1. /\ up' = up \ {u} /\ steady' = steady \ {u}
      /\ granted' = {s \in granted : Url[s] # u}
      /\ UNCHANGED <<registered, lists, entries, scan>>
      /\ DOMAIN caller' = Callers /\ caller' = [x \in Callers |-> caller'[x]]
  BY DEF Stop
<1>2. CallersTyped /\ CallersUp
  BY TypeParts DEF RegistryInv, TypeInv
<1>3. CallersTyped'
  <2>1. \A t \in Callers : caller'[t] \in Threads
    BY StopKeeps DEF RegistryInv
  <2>2. \A t \in Callers : Fits(caller'[t], lists)
    BY <1>2, StopKeeps DEF RegistryInv, CallersTyped, Fits
  <2> QED
    BY <1>1, <2>1, <2>2 DEF CallersTyped
<1>4. CallersUp'
  BY <1>1, <1>2, StopKeeps DEF CallersUp, RegistryInv, CallersTyped, Threads
<1>5. Waiting' = Waiting
  BY StopKeeps DEF Waiting, RegistryInv
<1>6. MapTyped' /\ ListsTyped' /\ UpTyped'
  BY <1>1, TypeParts DEF RegistryInv, TypeInv, MapTyped, ListsTyped, UpTyped, Registered
<1>7. TypeOK'
  BY <1>1, <1>3, <1>6, TypeParts, TypePartsNext DEF RegistryInv, TypeInv
<1>8. RoomLeft' /\ ScanInv'
  BY <1>1, <1>5 DEF RegistryInv, TypeInv, RoomLeft, ScanInv
<1> QED
  BY <1>4, <1>7, <1>8 DEF RegistryInv, TypeInv

LEMMA StartStep ==
  ASSUME RegistryInv, NEW u \in Urls, Start(u)
  PROVE  RegistryInv'
<1>1. /\ up' = up \cup {u} /\ u \notin Malformed
      /\ UNCHANGED <<registered, lists, entries, caller, scan, steady, granted>>
  BY DEF Start
<1>2. MapTyped' /\ ListsTyped' /\ UpTyped' /\ CallersTyped'
  BY <1>1, TypeParts DEF RegistryInv, TypeInv, MapTyped, ListsTyped, UpTyped, CallersTyped,
     Fits, Registered
<1>3. TypeOK'
  BY <1>1, <1>2, TypeParts, TypePartsNext DEF RegistryInv, TypeInv
<1>4. CallersUp' /\ RoomLeft' /\ ScanInv'
  BY <1>1 DEF RegistryInv, TypeInv, CallersUp, RoomLeft, Waiting, ScanInv
<1> QED
  BY <1>3, <1>4 DEF RegistryInv, TypeInv

LEMMA InitStep == Init => RegistryInv
<1> SUFFICES ASSUME Init PROVE RegistryInv
  OBVIOUS
<1>1. MapTyped /\ ListsTyped /\ UpTyped
  BY DEF Init, MapTyped, ListsTyped, UpTyped, Registered
<1>2. scan \in Scans /\ scan.at = "idle"
  BY NoScanTyped DEF Init
<1>3. CallersTyped
  BY DEF Init, Idle, CallersTyped, Threads, Fits
<1>4. Len(entries) = 0 /\ MaxEntries \in Nat
  BY RegistryAssumption DEF Init
<1>5. TypeOK
  BY <1>1, <1>2, <1>3, <1>4, TypeParts
<1>6. Waiting = {}
  BY DEF Init, Waiting, Idle
<1>7. RoomLeft
  BY <1>4, <1>6, FS_EmptySet DEF RoomLeft
<1>8. CallersUp /\ ScanInv
  BY <1>2 DEF Init, CallersUp, ScanInv, Idle
<1> QED
  BY <1>5, <1>7, <1>8 DEF RegistryInv, TypeInv

LEMMA NextStep ==
  ASSUME RegistryInv, [Next]_vars
  PROVE  RegistryInv'
<1>1. ASSUME NEW t \in Callers, Register(t)
      PROVE  RegistryInv'
  BY <1>1, RegisterStep
<1>2. CASE Query
  <2>1. UNCHANGED scan
    BY <1>2 DEF Query, SetWorkload
  <2> QED
    BY <1>2, <2>1, QueryTypes DEF RegistryInv, ScanInv
<1>3. CASE removeDeadMicroservices
  BY <1>3, StartScanStep, NextUrlStep, CheckStep, RemoveStep, UnlinkStep
     DEF removeDeadMicroservices
<1>4. ASSUME NEW u \in Urls, Stop(u) \/ Start(u)
      PROVE  RegistryInv'
  BY <1>4, StopStep, StartStep
<1>5. CASE UNCHANGED vars
  <2>1. /\ UNCHANGED <<registered, lists, entries, up, caller, granted, scan, steady>>
        /\ steady \subseteq up /\ scan \in Scans
    BY <1>5, TypeParts DEF vars, RegistryInv, TypeInv, UpTyped
  <2>2. ScanInv'
    BY <2>1 DEF RegistryInv, ScanInv
  <2> QED
    BY <2>1, <2>2, ScanTypes
<1> QED
  BY <1>1, <1>2, <1>3, <1>4, <1>5 DEF Next

\* The fields of the repository keep their types, and what is in its map is a
\* list that was made (registerMicroservice and everything it calls), however the
\* calls of its threads overlap.
THEOREM RegistryTypeCorrect == Spec => []TypeOK
<1>1. RegistryInv => TypeOK
  BY DEF RegistryInv, TypeInv
<1> QED
  BY <1>1, InitStep, NextStep, PTL DEF Spec

-----------------------------------------------------------------------------
(* A service that runs stays listed.                                       *)

\* Nothing that has been up since a round began is found dead by it, and nothing
\* that it cannot ask.
SteadyAlive ==
  /\ \A u \in scan.dead : u \notin steady \cup Malformed
  /\ scan.at \in {"unlink", "again", "unlinkAgain"} => scan.url \notin steady \cup Malformed

LEMMA SteadyStep ==
  ASSUME LostCalls < maxAttempts, RegistryInv, SteadyAlive, [Next]_vars
  PROVE  SteadyAlive'
<1>1. scan \in Scans /\ steady \subseteq up /\ Registered \subseteq Urls /\ MapTyped
  BY TypeParts DEF RegistryInv, TypeInv, UpTyped, MapTyped
<1>2. ASSUME NEW t \in Callers, Register(t)
      PROVE  SteadyAlive'
  <2>1. CASE LinkNode(t)
    <3>1. PICK m : /\ DOMAIN m \subseteq Urls /\ UNCHANGED steady
                   /\ scan' = [Missing(scan, m) EXCEPT !.changed = scan.at \in {"next", "check"}]
      BY <2>1, LinkEffect DEF RegistryInv
    <3>2. /\ Missing(scan, m) \in Scans /\ Missing(scan, m).at = scan.at
          /\ Missing(scan, m).url = scan.url /\ Missing(scan, m).dead = scan.dead
      BY <1>1, <3>1, ScanMisses
    <3>3. scan'.at = scan.at /\ scan'.url = scan.url /\ scan'.dead = scan.dead
      BY <3>1, <3>2 DEF Scans
    <3> QED
      BY <3>1, <3>3 DEF SteadyAlive
  <2>2. CASE ~LinkNode(t)
    <3>1. UNCHANGED <<scan, steady>>
      BY <1>2, <2>2 DEF Register, registerMicroservice, GetList, ReadSize, AddEntry, FindKey,
                        SetValue
    <3> QED
      BY <3>1 DEF SteadyAlive
  <2> QED
    BY <2>1, <2>2
<1>3. CASE Query
  BY <1>3 DEF Query, SetWorkload, SteadyAlive
<1>4. CASE scan' = NoScan
  BY <1>4 DEF NoScan, SteadyAlive
<1>5. CASE StartScan
  BY <1>5 DEF StartScan, NoScan, SteadyAlive
<1>6. CASE NextUrl /\ scan' # NoScan
  <2>1. steady' = steady /\ scan'.dead = scan.dead /\ scan'.at \in {"check", "remove"}
    BY <1>1, <1>6 DEF NextUrl, Scans
  <2> QED
    BY <2>1 DEF SteadyAlive
<1>7. CASE checkHealth /\ scan' # NoScan
  <2>1. steady' = steady /\ scan.at = "check" /\ scan.url \in Urls
    BY <1>7 DEF checkHealth, RegistryInv, ScanInv
  <2>2. CASE scan' = [scan EXCEPT !.at = "next"]
    <3>1. scan'.at = "next" /\ scan'.dead = scan.dead
      BY <1>1, <2>2 DEF Scans
    <3> QED
      BY <2>1, <3>1 DEF SteadyAlive
  <2>3. CASE scan.url \notin up \cup Malformed /\ (scan' = Failed \/ scan' = Dead)
    <3>1. /\ scan'.dead \subseteq scan.dead \cup {scan.url}
          /\ scan'.at \in {"next", "check"}
      BY <1>1, <2>1, <2>3, FailedTyped
    <3> QED
      BY <1>1, <2>1, <2>3, <3>1 DEF SteadyAlive
  <2>4. CASE scan.tries < LostCalls /\ scan' = Failed
    <3>1. scan.tries + 1 < maxAttempts
      BY <1>1, <2>4, RegistryAssumption DEF Scans
    <3>2. scan'.dead = scan.dead /\ scan'.at \in {"next", "check"}
      BY <1>1, <2>1, <2>4, <3>1, FailedTyped
    <3> QED
      BY <2>1, <3>2 DEF SteadyAlive
  <2> QED
    BY <1>7, <2>2, <2>3, <2>4 DEF checkHealth
<1>8. CASE deregisterMicroservice /\ scan' # NoScan
  <2>1. PICK u \in scan.dead :
          scan' = [scan EXCEPT !.at = IF u \in Registered THEN "unlink" ELSE "again",
                     !.url = u, !.dead = @ \ {u}, !.none = u \notin Registered]
    BY <1>8 DEF deregisterMicroservice
  <2>2. scan'.url = u /\ scan'.dead = scan.dead \ {u} /\ steady' = steady
    BY <1>1, <1>8, <2>1 DEF Scans, deregisterMicroservice
  <2> QED
    BY <2>1, <2>2 DEF SteadyAlive
<1>9. CASE (Unlink \/ RemoveAgain) /\ scan' # NoScan
  <2>1. /\ steady' = steady /\ scan.at \in {"unlink", "again", "unlinkAgain"}
        /\ \/ scan' = [scan EXCEPT !.at = "again", !.since = {}]
           \/ scan' = [scan EXCEPT !.at = "unlinkAgain"]
           \/ scan' = Logged
    BY <1>9 DEF Unlink, RemoveAgain
  <2>2. scan'.dead = scan.dead /\ (scan'.url = scan.url \/ scan'.at = "remove")
    BY <1>1, <1>9, <2>1, LoggedTyped DEF Scans
  <2> QED
    BY <2>1, <2>2 DEF SteadyAlive
<1>10. ASSUME NEW u \in Urls, Stop(u) \/ Start(u)
       PROVE  SteadyAlive'
  BY <1>10 DEF Stop, Start, SteadyAlive
<1>11. CASE UNCHANGED vars
  BY <1>11 DEF vars, SteadyAlive
<1> QED
  BY <1>2, <1>3, <1>4, <1>5, <1>6, <1>7, <1>8, <1>9, <1>10, <1>11
     DEF Next, removeDeadMicroservices

\* A key leaves the map only by the removal of a round that has found it dead, or
\* because a call still under way has not seen it come.
LEMMA OnlyDeadLeave ==
  ASSUME RegistryInv, [Next]_vars, NEW u \in Registered, u \notin DOMAIN registered'
  PROVE  \/ u = scan.url /\ scan.at \in {"unlink", "unlinkAgain"}
         \/ u \in scan.since
         \/ \E t \in Callers : LinkNode(t) /\ u \in caller[t].since
<1>1. MapTyped
  BY TypeParts DEF RegistryInv, TypeInv
<1>2. ASSUME NEW t \in Callers, LinkNode(t)
      PROVE  u \in caller[t].since
  <2>1. PICK m : /\ registered' = m
                 /\ \/ m = registered
                    \/ \E lost \in SUBSET caller[t].since :
                         m = Put(lost, Url[caller[t].ms], caller[t].list)
    BY <1>2, LinkEffect DEF RegistryInv
  <2> QED
    BY <2>1 DEF Put, Registered
<1>3. CASE Unlink
  BY <1>1, <1>3, UnlinkEffect DEF Unlink
<1>4. ASSUME NEW t \in Callers, Register(t), ~LinkNode(t)
      PROVE  DOMAIN registered' = Registered
  <2>1. CASE SetValue(t)
    BY <2>1, SetEffect DEF RegistryInv, Registered
  <2>2. CASE ~SetValue(t)
    BY <1>4, <2>2 DEF Register, registerMicroservice, GetList, ReadSize, AddEntry, FindKey,
                      Registered
  <2> QED
    BY <2>1, <2>2
<1>5. CASE \/ Query \/ StartScan \/ NextUrl \/ checkHealth \/ deregisterMicroservice
           \/ RemoveAgain \/ UNCHANGED vars
  BY <1>5 DEF Query, SetWorkload, StartScan, NextUrl, checkHealth, deregisterMicroservice,
              RemoveAgain, vars, Registered
<1>6. ASSUME NEW x \in Urls, Stop(x) \/ Start(x)
      PROVE  DOMAIN registered' = Registered
  BY <1>6 DEF Stop, Start, Registered
<1> QED
  BY <1>2, <1>3, <1>4, <1>5, <1>6 DEF Next, removeDeadMicroservices

\* As long as fewer calls of a health check get lost than it has attempts, a
\* round removes no service that has been running since it began, unless it was
\* put while another call of put or remove was under way.
THEOREM SteadyServicesStay ==
  ASSUME LostCalls < maxAttempts
  PROVE  Spec => SteadyStays
<1> DEFINE Stays == \A u \in Registered :
                      u \notin DOMAIN registered' => u \notin steady \/ u \in Overtaken
<1>1. Init => SteadyAlive
  BY DEF Init, SteadyAlive, NoScan
<1>2. RegistryInv /\ SteadyAlive /\ [Next]_vars => SteadyAlive'
  BY SteadyStep
<1>3. RegistryInv /\ SteadyAlive /\ [Next]_vars => [Stays]_vars
  BY OnlyDeadLeave DEF SteadyAlive, Overtaken
<1> QED
  BY <1>1, <1>2, <1>3, InitStep, NextStep, PTL DEF Spec, SteadyStays

-----------------------------------------------------------------------------
(* What isServiceRegistered recognises, for any number of threads.         *)

\* The entries of a list, and what they are made of.
LEMMA EntryTypes ==
  ASSUME ListsTyped
  PROVE  /\ \A e \in DOMAIN entries : /\ entries[e].ms \in Services
                                     /\ entries[e] = [ms |-> entries[e].ms,
                                                      workload |-> entries[e].workload]
         /\ \A l \in DOMAIN lists : lists[l].size \in Nat
         /\ \A l \in DOMAIN lists : \A i \in 1..lists[l].size :
              lists[l].slots[i] \in DOMAIN entries
<1>1. ASSUME NEW S, NEW s \in Seq(S), NEW i \in DOMAIN s
      PROVE  s[i] \in S
  BY <1>1
<1> DEFINE R == [ms : Services, workload : Workloads \cup {0}]
<1>2. entries \in Seq(R)
  BY DEF ListsTyped
<1>3. \A e \in DOMAIN entries : entries[e] \in R
  <2> HIDE DEF R
  <2> QED
    BY <1>1, <1>2
<1>4. ASSUME NEW l \in DOMAIN lists
      PROVE  lists[l].size \in Nat /\ \A i \in 1..lists[l].size : lists[l].slots[i] \in DOMAIN entries
  <2>1. /\ lists[l].slots \in Seq(DOMAIN entries) /\ lists[l].size \in Nat
        /\ lists[l].size <= Len(lists[l].slots)
    BY ListTypes
  <2>2. \A i \in 1..lists[l].size : i \in DOMAIN lists[l].slots
    BY <2>1
  <2> QED
    BY <1>1, <2>1, <2>2
<1> QED
  BY <1>3, <1>4

\* Nobody writes a workload into the entry of anything but a calculation.
WorkloadsApart ==
  \A e \in DOMAIN entries : entries[e].ms \notin Calculations => entries[e].workload = 0

LEMMA Recognised ==
  ASSUME RegistryInv, WorkloadsApart, NEW s, s \notin Calculations,
         NEW e \in ListedAt(Url[s]), entries[e].ms = s
  PROVE  isServiceRegistered(s)
<1>1. Url[s] \in Registered /\ registered[Url[s]] \in DOMAIN lists /\ ListsTyped
  BY TypeParts DEF RegistryInv, TypeInv, MapTyped, ListedAt
<1>2. e \in DOMAIN entries
  BY <1>1, EntryTypes DEF ListedAt, Contents
<1>3. entries[e] = [ms |-> entries[e].ms, workload |-> entries[e].workload]
  BY <1>1, <1>2, EntryTypes
<1>4. entries[e] = Entry(s, 0)
  BY <1>2, <1>3 DEF WorkloadsApart, Entry
<1> QED
  BY <1>4 DEF isServiceRegistered

LEMMA WorkloadsStep ==
  ASSUME RegistryInv, WorkloadsApart, [Next]_vars
  PROVE  WorkloadsApart'
<1>1. entries \in Seq([ms : Services, workload : Workloads \cup {0}]) /\ ListsTyped
  BY TypeParts DEF RegistryInv, TypeInv, ListsTyped
<1>2. CASE UNCHANGED entries
  BY <1>2 DEF WorkloadsApart
<1>3. ASSUME NEW t \in Callers, AddEntry(t)
      PROVE  WorkloadsApart'
  <2>1. PICK e : /\ DOMAIN entries' = DOMAIN entries \cup {e}
                 /\ entries'[e] = Entry(caller[t].ms, 0)
                 /\ e \notin DOMAIN entries
                 /\ \A x \in DOMAIN entries : entries'[x] = entries[x]
    BY <1>3, AddEffect DEF RegistryInv
  <2> QED
    BY <2>1 DEF WorkloadsApart, Entry
<1>4. ASSUME NEW e \in DOMAIN entries, NEW w \in Workloads, SetWorkload(e, w)
      PROVE  WorkloadsApart'
  <2>1. /\ entries[e].ms \in Calculations
        /\ entries[e] = [ms |-> entries[e].ms, workload |-> entries[e].workload]
        /\ entries' = [entries EXCEPT ![e].workload = w]
    BY <1>1, <1>4, EntryTypes DEF SetWorkload
  <2>2. /\ DOMAIN entries' = DOMAIN entries
        /\ entries'[e].ms = entries[e].ms
        /\ \A x \in DOMAIN entries \ {e} : entries'[x] = entries[x]
    BY <2>1
  <2> QED
    BY <2>1, <2>2 DEF WorkloadsApart
<1>5. ASSUME NEW t \in Callers, Register(t)
      PROVE  WorkloadsApart'
  <2>1. CASE ~AddEntry(t)
    BY <1>2, <1>5, <2>1 DEF Register, registerMicroservice, GetList, ReadSize, FindKey,
                            LinkNode, SetValue
  <2> QED
    BY <1>3, <1>5, <2>1
<1>6. CASE Query
  BY <1>4, <1>6 DEF Query
<1>7. CASE \/ removeDeadMicroservices \/ UNCHANGED vars
           \/ \E u \in Urls : Stop(u) \/ Start(u)
  BY <1>2, <1>7 DEF removeDeadMicroservices, StartScan, NextUrl, checkHealth,
                    deregisterMicroservice, Unlink, RemoveAgain, Stop, Start, vars
<1> QED
  BY <1>5, <1>6, <1>7 DEF Next

\* What is listed is refused a second registration, whatever the queries write
\* and however the calls of the threads overlap, unless it is a calculation.
THEOREM ListedAreRecognised == Spec => []ListedIsRecognised
<1>1. Init => WorkloadsApart
  BY DEF Init, WorkloadsApart
<1>2. RegistryInv /\ WorkloadsApart /\ [Next]_vars => WorkloadsApart'
  BY WorkloadsStep
<1>3. RegistryInv /\ WorkloadsApart => ListedIsRecognised
  BY Recognised DEF ListedIsRecognised
<1> QED
  BY <1>1, <1>2, <1>3, InitStep, NextStep, PTL DEF Spec

-----------------------------------------------------------------------------
(* One registration at a time.  When a single thread serves /register, what *)
(* it has found in the map or read of a list holds until it writes, but for *)
(* the keys that the scheduled thread removes.                              *)

Serial == \A t, v \in Callers : t = v

\* List l has an entry of service s.
Has(ls, es, l, s) == \E i \in 1..ls[l].size : es[ls[l].slots[i]].ms = s
Lists(l, s) == Has(lists, entries, l, s)
Listed(s) == Url[s] \in Registered /\ Lists(registered[Url[s]], s)

\* The thread knows of the map and of its list what is there.
Alone(c, map, ls) ==
  /\ c.at \notin {"link", "set"} => c.since = {}
  /\ c.since \cap DOMAIN map = {}
  /\ c.at = "link" => Url[c.ms] \notin DOMAIN map
  /\ c.at \notin {"idle", "get"} /\ Url[c.ms] \in DOMAIN map => c.list = map[Url[c.ms]]
  /\ c.at = "write" => c.size = ls[c.list].size

ThreadsAlone == \A t \in Callers : Alone(caller[t], registered, lists)

\* The steps that matter to the map and to the lists.
LEMMA OtherSteps ==
  ASSUME [Next]_vars
  PROVE  \/ \E t \in Callers : Register(t)
         \/ Query \/ Unlink \/ \E u \in Urls : Stop(u)
         \/ UNCHANGED <<registered, lists, entries, caller>>
BY DEF Next, removeDeadMicroservices, StartScan, NextUrl, checkHealth,
       deregisterMicroservice, RemoveAgain, Start, vars

LEMMA BeginEffect ==
  ASSUME RegistryInv, NEW t \in Callers, NEW s \in Services, registerMicroservice(t, s)
  PROVE  /\ caller'[t].at = "get" /\ caller'[t].ms = s /\ caller'[t].since = {}
         /\ ~isServiceRegistered(s)
         /\ UNCHANGED <<registered, lists, entries, up, scan, steady, granted>>
<1>1. /\ caller' = [caller EXCEPT ![t] = [Idle EXCEPT !.at = "get", !.ms = s,
                                                      !.gone = Url[s] \notin up]]
      /\ CallersTyped /\ ~isServiceRegistered(s)
      /\ UNCHANGED <<registered, lists, entries, up, scan, steady, granted>>
  BY TypeParts DEF registerMicroservice, RegistryInv, TypeInv
<1>2. caller'[t] = [Idle EXCEPT !.at = "get", !.ms = s, !.gone = Url[s] \notin up]
  BY <1>1 DEF CallersTyped
<1>3. caller'[t].at = "get" /\ caller'[t].ms = s /\ caller'[t].since = {}
  <2> DEFINE b == Url[s] \notin up
  <2>1. caller'[t] = [Idle EXCEPT !.at = "get", !.ms = s, !.gone = b]
    BY <1>2
  <2> HIDE DEF b
  <2> QED
    BY <2>1 DEF Idle
<1> QED
  BY <1>1, <1>3

\* A thread that has stored is done.
LEMMA Answered ==
  ASSUME NEW t \in Callers, LinkNode(t) \/ SetValue(t)
  PROVE  /\ caller'[t] = Idle /\ UNCHANGED <<lists, entries, up, steady>>
         /\ granted' = granted \cup IF caller[t].gone THEN {} ELSE {caller[t].ms}
BY DEF LinkNode, SetValue, Answer

\* A thread that is alone links a new node, or none if the scheduled thread has
\* removed a key meanwhile; no key is lost.
LEMMA SerialLink ==
  ASSUME RegistryInv, ThreadsAlone, NEW t \in Callers, LinkNode(t)
  PROVE  /\ Url[caller[t].ms] \notin Registered
         /\ Registered \subseteq DOMAIN registered'
         /\ DOMAIN registered' \subseteq Registered \cup {Url[caller[t].ms]}
         /\ \A u \in Registered : registered'[u] = registered[u]
         /\ Url[caller[t].ms] \in DOMAIN registered' =>
              registered'[Url[caller[t].ms]] = caller[t].list
         /\ caller[t].since = {} => Url[caller[t].ms] \in DOMAIN registered'
         /\ scan' = [Missing(scan, registered') EXCEPT !.changed = scan.at \in {"next", "check"}]
<1>1. PICK m : /\ caller[t].at = "link" /\ registered' = m
               /\ \/ m = registered
                  \/ \E lost \in SUBSET caller[t].since :
                       m = Put(lost, Url[caller[t].ms], caller[t].list)
               /\ caller[t].since = {} => m = Put({}, Url[caller[t].ms], caller[t].list)
               /\ scan' = [Missing(scan, m) EXCEPT !.changed = scan.at \in {"next", "check"}]
  BY LinkEffect DEF RegistryInv
<1>2. Url[caller[t].ms] \notin Registered /\ caller[t].since \cap Registered = {}
  BY <1>1 DEF ThreadsAlone, Alone, Registered
<1>3. CASE m = registered
  <2>1. caller[t].since # {}
    <3>1. Url[caller[t].ms] \in DOMAIN Put({}, Url[caller[t].ms], caller[t].list)
      BY DEF Put
    <3> QED
      BY <1>1, <1>2, <1>3, <3>1 DEF Registered
  <2> QED
    BY <1>1, <1>2, <1>3, <2>1 DEF Registered
<1>4. ASSUME NEW lost \in SUBSET caller[t].since,
             m = Put(lost, Url[caller[t].ms], caller[t].list)
      PROVE  /\ DOMAIN m = Registered \cup {Url[caller[t].ms]}
             /\ m[Url[caller[t].ms]] = caller[t].list
             /\ \A u \in Registered : m[u] = registered[u]
  BY <1>2, <1>4 DEF Put
<1> QED
  BY <1>1, <1>2, <1>3, <1>4

\* A thread that is alone replaces the value of its key by what it is already.
LEMMA SerialSet ==
  ASSUME RegistryInv, ThreadsAlone, NEW t \in Callers, SetValue(t)
  PROVE  /\ Registered' = Registered
         /\ \A u \in Registered : registered'[u] = registered[u]
         /\ UNCHANGED scan
<1>1. Alone(caller[t], registered, lists)
  BY DEF ThreadsAlone
<1> QED
  BY <1>1, SetEffect DEF RegistryInv, Alone, Registered

LEMMA AloneStep ==
  ASSUME Serial, RegistryInv, ThreadsAlone, [Next]_vars
  PROVE  ThreadsAlone'
<1>1. ASSUME NEW t \in Callers, Alone(caller'[t], registered', lists')
      PROVE  ThreadsAlone'
  BY <1>1 DEF ThreadsAlone, Serial
<1>2. ASSUME NEW t \in Callers, Register(t)
      PROVE  Alone(caller'[t], registered', lists')
  <2>1. Alone(caller[t], registered, lists) /\ TypeInv
    BY DEF ThreadsAlone, RegistryInv
  <2>2. ASSUME NEW s \in Services, registerMicroservice(t, s)
        PROVE  Alone(caller'[t], registered', lists')
    BY <2>2, BeginEffect DEF Alone
  <2>3. CASE GetList(t)
    <3>1. /\ caller'[t].since = {} /\ caller'[t].at \in {"add", "write"}
          /\ UNCHANGED registered
      BY <2>1, <2>3, GetEffect DEF Alone
    <3>2. CASE caller'[t].at = "add"
      <4>1. caller'[t].ms = caller[t].ms /\ caller'[t].list = registered[Url[caller[t].ms]]
        BY <2>1, <2>3, <3>2, GetEffect
      <4> QED
        BY <3>1, <3>2, <4>1 DEF Alone
    <3>3. CASE caller'[t].at = "write"
      <4>1. /\ caller'[t].ms = caller[t].ms /\ Url[caller[t].ms] \notin Registered
            /\ lists'[caller'[t].list] = [slots |-> <<>>, size |-> 0] /\ caller'[t].size = 0
        BY <2>1, <2>3, <3>3, GetEffect
      <4> QED
        BY <3>1, <3>3, <4>1 DEF Alone, Registered
    <3> QED
      BY <3>1, <3>2, <3>3
  <2>4. CASE ReadSize(t)
    BY <2>1, <2>4, SizeEffect DEF Alone
  <2>5. CASE AddEntry(t)
    <3>1. /\ caller[t].at = "write" /\ caller'[t].at = "put" /\ caller'[t].ms = caller[t].ms
          /\ caller'[t].list = caller[t].list /\ caller'[t].since = caller[t].since
          /\ UNCHANGED registered
      BY <2>1, <2>5, AddEffect
    <3> QED
      BY <2>1, <3>1 DEF Alone
  <2>6. CASE FindKey(t)
    BY <2>1, <2>6, FindEffect DEF Alone, Registered
  <2>7. CASE LinkNode(t) \/ SetValue(t)
    BY <2>7, Answered DEF Alone, Idle
  <2> QED
    BY <1>2, <2>2, <2>3, <2>4, <2>5, <2>6, <2>7 DEF Register
<1>3. CASE Unlink
  <2>1. PICK m : /\ registered' = m /\ DOMAIN m \subseteq Registered
                 /\ \A u \in DOMAIN m : m[u] = registered[u]
                 /\ caller' = [t \in Callers |-> Missing(caller[t], m)]
    BY <1>3, UnlinkEffect, TypeParts DEF RegistryInv, TypeInv
  <2>2. UNCHANGED lists /\ MapTyped /\ CallersTyped
    BY <1>3, TypeParts DEF Unlink, RegistryInv, TypeInv
  <2>3. ASSUME NEW t \in Callers
        PROVE  Alone(caller'[t], registered', lists')
    <3>1. /\ Alone(caller[t], registered, lists) /\ caller'[t] = Missing(caller[t], m)
          /\ caller[t] \in Threads
      BY <2>1, <2>2 DEF ThreadsAlone, CallersTyped
    <3>2. /\ caller'[t].at = caller[t].at /\ caller'[t].ms = caller[t].ms
          /\ caller'[t].list = caller[t].list /\ caller'[t].size = caller[t].size
      BY <2>1, <2>2, <3>1, ThreadMisses DEF MapTyped
    <3>3. /\ caller[t].at \notin {"link", "set"} => caller'[t].since = caller[t].since
          /\ caller'[t].since \subseteq caller[t].since \cup (Registered \ DOMAIN m)
      BY <2>1, <3>1 DEF Missing, Threads
    <3> QED
      BY <2>1, <2>2, <3>1, <3>2, <3>3 DEF Alone, Registered
  <2> QED
    BY <2>3 DEF ThreadsAlone
<1>4. ASSUME NEW u \in Urls, Stop(u)
      PROVE  ThreadsAlone'
  <2>1. UNCHANGED <<registered, lists>> /\ TypeInv
    BY <1>4 DEF Stop, RegistryInv
  <2> QED
    BY <1>4, <2>1, StopKeeps DEF ThreadsAlone, Alone
<1>5. CASE UNCHANGED <<registered, lists, caller>>
  BY <1>5 DEF ThreadsAlone
<1>6. CASE Query
  BY <1>5, <1>6 DEF Query, SetWorkload, ThreadsAlone, Alone, ListsTyped
<1> QED
  BY <1>1, <1>2, <1>3, <1>4, <1>5, <1>6, OtherSteps

LEMMA AloneInit == Init => ThreadsAlone
BY DEF Init, ThreadsAlone, Alone, Idle

\* A key that stays keeps its list.
LEMMA KeysKeepLists ==
  ASSUME RegistryInv, ThreadsAlone, [Next]_vars, NEW u \in Registered,
         u \in DOMAIN registered'
  PROVE  registered'[u] = registered[u]
<1>1. CASE UNCHANGED registered
  BY <1>1
<1>2. ASSUME NEW t \in Callers, Register(t)
      PROVE  registered'[u] = registered[u]
  <2>1. CASE LinkNode(t) \/ SetValue(t)
    BY <2>1, SerialLink, SerialSet
  <2>2. CASE ~(LinkNode(t) \/ SetValue(t))
    BY <1>1, <1>2, <2>2 DEF Register, registerMicroservice, GetList, ReadSize, AddEntry, FindKey
  <2> QED
    BY <2>1, <2>2
<1>3. CASE Unlink
  BY <1>3, UnlinkEffect, TypeParts DEF RegistryInv, TypeInv
<1>4. CASE Query \/ \E x \in Urls : Stop(x)
  BY <1>1, <1>4 DEF Query, SetWorkload, Stop
<1> QED
  BY <1>1, <1>2, <1>3, <1>4, OtherSteps

\* No key is lost to the thread that registers.
LEMMA KeysLeave ==
  ASSUME RegistryInv, ThreadsAlone, [Next]_vars, NEW u \in Registered,
         u \notin DOMAIN registered'
  PROVE  u \in scan.since \/ (u = scan.url /\ scan.at \in {"unlink", "unlinkAgain"})
BY OnlyDeadLeave, SerialLink

\* A round removes nothing that is gone.
Found ==
  /\ scan.dead \subseteq Registered /\ ~scan.none
  /\ scan.since \cap scan.dead = {}
  /\ scan.at \notin {"unlink", "unlinkAgain"} => scan.since = {}
  /\ scan.at \in {"next", "check"} => scan.todo \subseteq Registered
  /\ scan.at = "check" => scan.url \in Registered
  /\ scan.at \in {"unlink", "again", "unlinkAgain"} => scan.url \notin scan.dead

\* The steps of a thread leave what the round has found.
LEMMA FoundByThreads ==
  ASSUME RegistryInv, ThreadsAlone, Found, NEW t \in Callers, Register(t)
  PROVE  Found'
<1>1. CASE LinkNode(t)
  <2> DEFINE m == registered'
             b == scan.at \in {"next", "check"}
  <2>1. /\ Registered \subseteq DOMAIN m
        /\ DOMAIN m \subseteq Registered \cup {Url[caller[t].ms]}
        /\ Url[caller[t].ms] \notin Registered
        /\ scan' = [Missing(scan, m) EXCEPT !.changed = b]
    BY <1>1, SerialLink
  <2>2. scan \in Scans /\ Registered \subseteq Urls /\ Url[caller[t].ms] \in Urls
    BY <1>1, Storing DEF RegistryInv, LinkNode
  <2>3. /\ Missing(scan, m).at = scan.at /\ Missing(scan, m).todo = scan.todo
        /\ Missing(scan, m).url = scan.url /\ Missing(scan, m).dead = scan.dead
        /\ Missing(scan, m).none = scan.none /\ Missing(scan, m) \in Scans
    BY <2>1, <2>2, ScanMisses
  <2>4. /\ scan.at \notin {"unlink", "unlinkAgain"} => Missing(scan, m).since = scan.since
        /\ Missing(scan, m).since \subseteq scan.since \cup {Url[caller[t].ms]}
    BY <2>1, <2>2 DEF Missing, Scans
  <2>5. b \in BOOLEAN
    OBVIOUS
  <2> HIDE DEF m, b
  <2>6. /\ scan'.at = scan.at /\ scan'.todo = scan.todo /\ scan'.url = scan.url
        /\ scan'.dead = scan.dead /\ scan'.none = scan.none
        /\ scan'.since = Missing(scan, m).since
    BY <2>1, <2>3, <2>5 DEF Scans
  <2> QED
    BY <2>1, <2>4, <2>6 DEF Found, Registered, m
<1>2. CASE SetValue(t)
  BY <1>2, SerialSet DEF Found
<1>3. CASE ~(LinkNode(t) \/ SetValue(t))
  <2>1. UNCHANGED <<registered, scan>>
    BY <1>3 DEF Register, registerMicroservice, GetList, ReadSize, AddEntry, FindKey
  <2> QED
    BY <2>1 DEF Found, Registered
<1> QED
  BY <1>1, <1>2, <1>3

LEMMA FoundByScan ==
  ASSUME RegistryInv, Found, removeDeadMicroservices
  PROVE  Found'
<1>1. scan \in Scans /\ MapTyped
  BY TypeParts DEF RegistryInv, TypeInv
<1>2. CASE scan' = NoScan
  BY <1>2 DEF NoScan, Found
<1>3. CASE StartScan
  BY <1>3 DEF StartScan, NoScan, Found, Registered
<1>4. CASE NextUrl /\ scan' # NoScan
  <2>1. UNCHANGED registered /\ scan.at = "next"
    BY <1>4 DEF NextUrl
  <2>2. CASE scan' = [scan EXCEPT !.at = "remove", !.changed = FALSE]
    <3>1. /\ scan'.at = "remove" /\ scan'.dead = scan.dead /\ scan'.none = scan.none
          /\ scan'.since = scan.since
      BY <1>1, <2>2 DEF Scans
    <3> QED
      BY <2>1, <3>1 DEF Found, Registered
  <2>3. ASSUME NEW u \in scan.todo,
               scan' = [scan EXCEPT !.at = "check", !.todo = @ \ {u}, !.url = u, !.tries = 0]
        PROVE  Found'
    <3>1. /\ scan'.at = "check" /\ scan'.dead = scan.dead /\ scan'.none = scan.none
          /\ scan'.since = scan.since /\ scan'.url = u /\ scan'.todo \subseteq scan.todo
      BY <1>1, <2>3 DEF Scans
    <3> QED
      BY <2>1, <3>1 DEF Found, Registered
  <2> QED
    BY <1>4, <2>2, <2>3 DEF NextUrl
<1>5. CASE checkHealth /\ scan' # NoScan
  <2>1. UNCHANGED registered /\ scan.at = "check"
    BY <1>5 DEF checkHealth
  <2>2. /\ scan'.at \in {"next", "check"} /\ scan'.dead \subseteq scan.dead \cup {scan.url}
        /\ scan'.none = scan.none /\ scan'.since = scan.since /\ scan'.url = scan.url
        /\ scan'.todo = scan.todo
    <3>1. \/ scan' = [scan EXCEPT !.at = "next"]
          \/ scan' = [scan EXCEPT !.tries = @ + 1]
          \/ scan' = [scan EXCEPT !.at = "next", !.dead = @ \cup {scan.url}]
      BY <1>5 DEF checkHealth, Failed, Dead
    <3> QED
      BY <1>1, <2>1, <3>1 DEF Scans
  <2> QED
    BY <2>1, <2>2 DEF Found, Registered
<1>6. CASE deregisterMicroservice /\ scan' # NoScan
  <2>1. PICK u \in scan.dead :
          scan' = [scan EXCEPT !.at = IF u \in Registered THEN "unlink" ELSE "again",
                     !.url = u, !.dead = @ \ {u}, !.none = u \notin Registered]
    BY <1>6 DEF deregisterMicroservice
  <2>2. UNCHANGED registered /\ scan.at = "remove" /\ u \in Registered
    BY <1>6 DEF deregisterMicroservice, Found
  <2>3. scan' = [scan EXCEPT !.at = "unlink", !.url = u, !.dead = @ \ {u}, !.none = FALSE]
    BY <2>1, <2>2
  <2>4. /\ scan'.at = "unlink" /\ scan'.url = u /\ scan'.dead = scan.dead \ {u}
        /\ scan'.none = FALSE /\ scan'.since = scan.since
    BY <1>1, <2>3 DEF Scans
  <2> QED
    BY <2>2, <2>4 DEF Found, Registered
<1>7. CASE (Unlink \/ RemoveAgain) /\ scan' # NoScan
  <2>1. scan.at \in {"unlink", "again", "unlinkAgain"}
    BY <1>7 DEF Unlink, RemoveAgain
  <2>2. /\ scan'.dead = scan.dead /\ scan'.none = scan.none
        /\ scan'.since = {} /\ scan'.at \notin {"next", "check"}
        /\ scan'.url = scan.url \/ scan'.at = "remove"
    <3>1. CASE scan' = [scan EXCEPT !.at = "again", !.since = {}]
      BY <1>1, <3>1 DEF Scans
    <3>2. CASE scan' = [scan EXCEPT !.at = "unlinkAgain"] /\ scan.at = "again"
      BY <1>1, <3>2 DEF Scans, Found
    <3>3. CASE scan' = Logged
      BY <1>1, <1>7, <3>3, LoggedTyped
    <3> QED
      BY <1>7, <3>1, <3>2, <3>3 DEF Unlink, RemoveAgain
  <2>3. \A u \in Registered : u \in DOMAIN registered' \/ u \in scan.since \cup {scan.url}
    BY <1>1, <1>7, UnlinkEffect DEF Unlink, RemoveAgain, Registered
  <2> QED
    BY <2>1, <2>2, <2>3 DEF Found, Registered
<1> QED
  BY <1>2, <1>3, <1>4, <1>5, <1>6, <1>7 DEF removeDeadMicroservices

LEMMA FoundStep ==
  ASSUME RegistryInv, ThreadsAlone, Found, [Next]_vars
  PROVE  Found'
<1>1. CASE UNCHANGED <<registered, scan>>
  BY <1>1 DEF Found, Registered
<1>2. CASE Query \/ (\E u \in Urls : Stop(u) \/ Start(u)) \/ UNCHANGED vars
  BY <1>1, <1>2 DEF Query, SetWorkload, Stop, Start, vars
<1> QED
  BY <1>2, FoundByThreads, FoundByScan DEF Next

\* deregisterMicroservice finds what it removes, so that the loop over what remove
\* returned never meets null, if one thread serves the registrations: whatever
\* stops, comes back or is put meanwhile.
THEOREM RemovalsFindEntries ==
  ASSUME Serial
  PROVE  Spec => []RemovalFindsEntries
<1>1. Init => Found
  BY DEF Init, NoScan, Found
<1>2. RegistryInv /\ ThreadsAlone /\ [Next]_vars => ThreadsAlone'
  BY AloneStep
<1>3. RegistryInv /\ ThreadsAlone /\ Found /\ [Next]_vars => Found'
  BY FoundStep
<1>4. Found => RemovalFindsEntries
  BY DEF Found, RemovalFindsEntries
<1> QED
  BY <1>1, <1>2, <1>3, <1>4, AloneInit, InitStep, NextStep, PTL DEF Spec

-----------------------------------------------------------------------------
(* What stays listed, service by service.                                  *)

LEMMA QueryKeeps ==
  ASSUME ListsTyped, Query
  PROVE  /\ UNCHANGED <<registered, lists, up, caller, scan, steady, granted>>
         /\ DOMAIN entries' = DOMAIN entries
         /\ \A e \in DOMAIN entries : entries'[e].ms = entries[e].ms
<1>1. PICK e \in DOMAIN entries, w \in Workloads :
        /\ entries' = [entries EXCEPT ![e].workload = w]
        /\ UNCHANGED <<registered, lists, up, caller, scan, steady, granted>>
  BY DEF Query, SetWorkload
<1>2. \A x \in DOMAIN entries : entries[x] = [ms |-> entries[x].ms, workload |-> entries[x].workload]
  BY EntryTypes
<1>3. /\ DOMAIN entries' = DOMAIN entries
      /\ entries'[e] = [entries[e] EXCEPT !.workload = w]
      /\ \A x \in DOMAIN entries \ {e} : entries'[x] = entries[x]
  BY <1>1
<1>4. entries'[e].ms = entries[e].ms
  BY <1>2, <1>3
<1> QED
  BY <1>1, <1>3, <1>4

\* What is added stands behind what its thread has seen of the list, which is
\* all of it; nothing that was listed is lost.
LEMMA AddLists ==
  ASSUME RegistryInv, ThreadsAlone, NEW t \in Callers, AddEntry(t)
  PROVE  \E e, n :
           /\ e \notin DOMAIN entries /\ entries'[e] = Entry(caller[t].ms, 0)
           /\ \A x \in DOMAIN entries : entries'[x] = entries[x]
           /\ n \notin 1..lists[caller[t].list].size
           /\ 1..lists'[caller[t].list].size = 1..lists[caller[t].list].size \cup {n}
           /\ lists'[caller[t].list].slots[n] = e
           /\ \A i \in 1..lists[caller[t].list].size :
                lists'[caller[t].list].slots[i] = lists[caller[t].list].slots[i]
<1> DEFINE l == caller[t].list
<1>1. PICK e : /\ e \notin DOMAIN entries /\ entries'[e] = Entry(caller[t].ms, 0)
               /\ \A x \in DOMAIN entries : entries'[x] = entries[x]
               /\ lists'[l].slots[caller[t].size + 1] = e
  BY AddEffect DEF RegistryInv
<1>2. /\ caller[t].size = lists[l].size /\ lists[l].size \in Nat
      /\ lists'[l].size = lists[l].size + 1
      /\ \A i \in 1..lists[l].size : lists'[l].slots[i] = lists[l].slots[i]
  <2>1. ListsTyped /\ caller[t].at = "write" /\ l \in DOMAIN lists
    BY TypeParts, AddEffect DEF RegistryInv, TypeInv
  <2>2. caller[t].size = lists[l].size
    BY <2>1 DEF ThreadsAlone, Alone
  <2> QED
    BY <2>1, <2>2, EntryTypes, AddEffect DEF RegistryInv
<1>3. /\ lists[l].size + 1 \notin 1..lists[l].size
      /\ 1..(lists[l].size + 1) = 1..lists[l].size \cup {lists[l].size + 1}
  BY <1>2
<1> QED
  BY <1>1, <1>2, <1>3

\* Every list is kept, with what it lists.
LEMMA ListsStay ==
  ASSUME RegistryInv, ThreadsAlone, [Next]_vars, NEW l \in DOMAIN lists, NEW s, Lists(l, s)
  PROVE  Has(lists', entries', l, s)
<1>1. ListsTyped /\ TypeInv
  BY TypeParts DEF RegistryInv, TypeInv
<1>2. PICK i \in 1..lists[l].size : entries[lists[l].slots[i]].ms = s
  BY DEF Lists, Has
<1>3. lists[l].slots[i] \in DOMAIN entries
  BY <1>1, EntryTypes
<1>4. CASE UNCHANGED <<lists, entries>>
  BY <1>4 DEF Lists, Has
<1>5. ASSUME NEW t \in Callers, Register(t)
      PROVE  Has(lists', entries', l, s)
  <2>1. CASE GetList(t)
    BY <1>1, <1>2, <2>1, GetEffect DEF Has
  <2>2. CASE AddEntry(t)
    <3>1. CASE l = caller[t].list
      BY <1>2, <1>3, <2>2, <3>1, AddLists DEF Has
    <3>2. CASE l # caller[t].list
      <4>1. lists'[l] = lists[l] /\ \A x \in DOMAIN entries : entries'[x] = entries[x]
        BY <1>1, <2>2, <3>2, AddEffect
      <4> QED
        BY <1>2, <1>3, <4>1 DEF Has
    <3> QED
      BY <3>1, <3>2
  <2>3. CASE ~(GetList(t) \/ AddEntry(t))
    BY <1>4, <1>5, <2>3 DEF Register, registerMicroservice, ReadSize, FindKey, LinkNode, SetValue
  <2> QED
    BY <2>1, <2>2, <2>3
<1>6. CASE Query
  <2>1. lists' = lists /\ entries'[lists[l].slots[i]].ms = s
    BY <1>1, <1>2, <1>3, <1>6, QueryKeeps
  <2> QED
    BY <1>2, <2>1 DEF Has
<1>7. CASE Unlink \/ \E u \in Urls : Stop(u)
  BY <1>4, <1>7 DEF Unlink, Stop
<1> QED
  BY <1>4, <1>5, <1>6, <1>7, OtherSteps

\* No service leaves the lists while it runs, unless it was put during the round
\* that removes it.
ServicesStay ==
  [][\A s \in Services :
       Listed(s) /\ ~Listed(s)' => Url[s] \notin steady \/ Url[s] \in scan.since]_vars

LEMMA ServiceStays ==
  ASSUME RegistryInv, SteadyAlive, ThreadsAlone, [Next]_vars, NEW s \in Services,
         Listed(s), ~Listed(s)'
  PROVE  Url[s] \notin steady \/ Url[s] \in scan.since
<1>1. /\ Url[s] \in Registered /\ registered[Url[s]] \in DOMAIN lists
      /\ Lists(registered[Url[s]], s)
  BY TypeParts DEF RegistryInv, TypeInv, MapTyped, Listed
<1>2. Has(lists', entries', registered[Url[s]], s)
  BY <1>1, ListsStay
<1>3. Url[s] \notin DOMAIN registered'
  <2>1. ASSUME Url[s] \in DOMAIN registered'
        PROVE  FALSE
    <3>1. registered'[Url[s]] = registered[Url[s]]
      BY <1>1, <2>1, KeysKeepLists
    <3> QED
      BY <1>2, <2>1, <3>1 DEF Listed, Lists, Registered
  <2> QED
    BY <2>1
<1> QED
  BY <1>1, <1>3, KeysLeave DEF SteadyAlive

\* SteadyStays says this of URLs: with one registering thread it is true of each
\* service behind them, although a put replaces the list of its URL as a whole.
THEOREM SerialServicesStay ==
  ASSUME Serial, LostCalls < maxAttempts
  PROVE  Spec => ServicesStay
<1>1. Init => SteadyAlive
  BY DEF Init, SteadyAlive, NoScan
<1>2. RegistryInv /\ SteadyAlive /\ [Next]_vars => SteadyAlive'
  BY SteadyStep
<1>3. RegistryInv /\ ThreadsAlone /\ [Next]_vars => ThreadsAlone'
  BY AloneStep
<1>4. RegistryInv /\ SteadyAlive /\ ThreadsAlone /\ [Next]_vars =>
        [\A s \in Services : Listed(s) /\ ~Listed(s)' =>
           Url[s] \notin steady \/ Url[s] \in scan.since]_vars
  BY ServiceStays
<1> QED
  BY <1>1, <1>2, <1>3, <1>4, AloneInit, InitStep, NextStep, PTL DEF Spec, ServicesStay

-----------------------------------------------------------------------------
(* No service is listed twice.                                             *)

\* A list has one entry of each service that is no calculation.
Single(ls, es, l) ==
  \A i, j \in 1..ls[l].size :
    /\ es[ls[l].slots[i]].ms = es[ls[l].slots[j]].ms
    /\ es[ls[l].slots[i]].ms \notin Calculations
    => i = j

ListedOnce == \A u \in Registered : Single(lists, entries, registered[u])

\* The list that a thread is going to write has no entry of its service yet.
Fresh(c, map, ls, es) ==
  c.ms \notin Calculations =>
    /\ c.at = "get" /\ Url[c.ms] \in DOMAIN map => ~Has(ls, es, map[Url[c.ms]], c.ms)
    /\ c.at \in {"add", "write"} => ~Has(ls, es, c.list, c.ms)

Once ==
  /\ \A l \in DOMAIN lists : Single(lists, entries, l)
  /\ \A t \in Callers : Fresh(caller[t], registered, lists, entries)

\* The steps that add nothing to a list.
LEMMA OnceKept ==
  ASSUME RegistryInv, Once, UNCHANGED lists,
         \A e \in DOMAIN entries : entries'[e].ms = entries[e].ms,
         \A u \in DOMAIN registered' : u \in Registered /\ registered'[u] = registered[u],
         \A t \in Callers :
           \/ caller'[t].at \notin {"get", "add", "write"}
           \/ /\ caller'[t].at = caller[t].at /\ caller'[t].ms = caller[t].ms
              /\ caller'[t].list = caller[t].list
  PROVE  Once'
<1>1. MapTyped /\ ListsTyped /\ CallersTyped
  BY TypeParts DEF RegistryInv, TypeInv
<1>2. \A l \in DOMAIN lists : \A i \in 1..lists[l].size :
        entries'[lists[l].slots[i]].ms = entries[lists[l].slots[i]].ms
  BY <1>1, EntryTypes
<1>3. \A l \in DOMAIN lists : \A s : Has(lists', entries', l, s) <=> Has(lists, entries, l, s)
  BY <1>2 DEF Has
<1>4. \A l \in DOMAIN lists : Single(lists', entries', l)
  BY <1>2 DEF Once, Single
<1>5. ASSUME NEW t \in Callers
      PROVE  Fresh(caller'[t], registered', lists', entries')
  <2>1. CASE caller'[t].at \notin {"get", "add", "write"}
    BY <2>1 DEF Fresh
  <2>2. CASE /\ caller'[t].at = caller[t].at /\ caller'[t].ms = caller[t].ms
             /\ caller'[t].list = caller[t].list
    <3>1. caller[t].at \in {"add", "write"} => caller[t].list \in DOMAIN lists
      BY <1>1 DEF CallersTyped, Fits
    <3>2. Fresh(caller[t], registered, lists, entries)
      BY DEF Once
    <3> QED
      BY <1>1, <1>3, <2>2, <3>1, <3>2 DEF Fresh, MapTyped, Registered
  <2> QED
    BY <2>1, <2>2
<1> QED
  BY <1>4, <1>5 DEF Once

\* A thread only begins to register a service that it does not find.
LEMMA OnceBegin ==
  ASSUME Serial, RegistryInv, WorkloadsApart, Once, NEW t \in Callers,
         NEW s \in Services, registerMicroservice(t, s)
  PROVE  Once'
<1>1. /\ caller'[t].at = "get" /\ caller'[t].ms = s /\ ~isServiceRegistered(s)
      /\ UNCHANGED <<registered, lists, entries>>
  BY BeginEffect
<1>2. s \notin Calculations /\ Url[s] \in Registered =>
        ~Has(lists, entries, registered[Url[s]], s)
  BY <1>1, Recognised DEF Has, ListedAt, Contents
<1>3. Fresh(caller'[t], registered', lists', entries')
  BY <1>1, <1>2 DEF Fresh, Registered
<1> QED
  BY <1>1, <1>3 DEF Once, Serial

LEMMA OnceGet ==
  ASSUME Serial, RegistryInv, Once, NEW t \in Callers, GetList(t)
  PROVE  Once'
<1>1. Fresh(caller[t], registered, lists, entries) /\ TypeInv
  BY DEF Once, RegistryInv
<1> DEFINE l == caller'[t].list
<1>2. CASE Url[caller[t].ms] \in Registered
  <2>1. /\ lists' = lists /\ l = registered[Url[caller[t].ms]]
        /\ caller[t].at = "get" /\ caller'[t].ms = caller[t].ms
        /\ UNCHANGED <<registered, entries>>
    BY <1>1, <1>2, GetEffect
  <2>2. Fresh(caller'[t], registered', lists', entries')
    <3>1. caller'[t].at = "add"
      BY <1>1, <1>2, GetEffect
    <3> QED
      BY <1>1, <1>2, <2>1, <3>1 DEF Fresh, Registered
  <2> QED
    BY <2>1, <2>2 DEF Once, Serial
<1>3. CASE Url[caller[t].ms] \notin Registered
  <2>1. /\ lists'[l].size = 0 /\ caller'[t].at = "write" /\ l \notin DOMAIN lists
        /\ DOMAIN lists' = DOMAIN lists \cup {l} /\ UNCHANGED <<registered, entries>>
        /\ \A k \in DOMAIN lists : lists'[k] = lists[k]
    <3>1. /\ l \notin DOMAIN lists /\ DOMAIN lists' = DOMAIN lists \cup {l}
          /\ lists'[l] = [slots |-> <<>>, size |-> 0] /\ caller'[t].at = "write"
      BY <1>1, <1>3, GetEffect
    <3>2. lists'[l].size = 0
      BY <3>1
    <3>3. /\ UNCHANGED <<registered, entries>>
          /\ \A k \in DOMAIN lists : lists'[k] = lists[k]
      BY <1>1, GetEffect
    <3> QED
      BY <3>1, <3>2, <3>3
  <2>2. Fresh(caller'[t], registered', lists', entries')
    BY <2>1 DEF Fresh, Has
  <2>3. \A k \in DOMAIN lists' : Single(lists', entries', k)
    BY <2>1 DEF Once, Single
  <2> QED
    BY <2>2, <2>3 DEF Once, Serial
<1> QED
  BY <1>2, <1>3

LEMMA OnceAdd ==
  ASSUME Serial, RegistryInv, ThreadsAlone, Once, NEW t \in Callers, AddEntry(t)
  PROVE  Once'
<1>1. PICK l \in DOMAIN lists, s \in Services :
        /\ l = caller[t].list /\ s = caller[t].ms /\ caller[t].at = "write"
        /\ caller'[t].at = "put" /\ DOMAIN lists' = DOMAIN lists
        /\ \A k \in DOMAIN lists \ {l} : lists'[k] = lists[k]
  BY AddEffect DEF RegistryInv
<1>2. PICK e, n : /\ entries'[e] = Entry(s, 0)
                  /\ \A x \in DOMAIN entries : entries'[x] = entries[x]
                  /\ n \notin 1..lists[l].size
                  /\ 1..lists'[l].size = 1..lists[l].size \cup {n}
                  /\ lists'[l].slots[n] = e
                  /\ \A i \in 1..lists[l].size : lists'[l].slots[i] = lists[l].slots[i]
  BY <1>1, AddLists
<1>3. \A k \in DOMAIN lists : \A i \in 1..lists[k].size : lists[k].slots[i] \in DOMAIN entries
  BY EntryTypes, TypeParts DEF RegistryInv, TypeInv
<1>4. s \notin Calculations => \A i \in 1..lists[l].size : entries[lists[l].slots[i]].ms # s
  <2>1. Fresh(caller[t], registered, lists, entries)
    BY DEF Once
  <2> QED
    BY <1>1, <2>1 DEF Fresh, Has
<1>5. ASSUME NEW k \in DOMAIN lists'
      PROVE  Single(lists', entries', k)
  <2>1. k \in DOMAIN lists /\ Single(lists, entries, k)
    BY <1>1 DEF Once
  <2>2. CASE k # l
    <3>1. lists'[k] = lists[k]
      BY <1>1, <2>1, <2>2
    <3> QED
      BY <1>2, <1>3, <2>1, <3>1 DEF Single
  <2>3. CASE k = l
    <3>1. \A i \in 1..lists[l].size : entries'[lists'[l].slots[i]].ms = entries[lists[l].slots[i]].ms
      BY <1>2, <1>3
    <3>2. entries'[lists'[l].slots[n]].ms = s
      BY <1>2 DEF Entry
    <3>3. ASSUME NEW i \in 1..lists'[l].size, NEW j \in 1..lists'[l].size,
                 entries'[lists'[l].slots[i]].ms = entries'[lists'[l].slots[j]].ms,
                 entries'[lists'[l].slots[i]].ms \notin Calculations
          PROVE  i = j
      <4>1. CASE i \in 1..lists[l].size /\ j \in 1..lists[l].size
        BY <2>1, <2>3, <3>1, <3>3, <4>1 DEF Single
      <4>2. CASE i = n \/ j = n
        BY <1>2, <1>4, <3>1, <3>2, <3>3, <4>2
      <4> QED
        BY <1>2, <4>1, <4>2
    <3> QED
      BY <2>3, <3>3 DEF Single
  <2> QED
    BY <2>2, <2>3
<1>6. Fresh(caller'[t], registered', lists', entries')
  BY <1>1 DEF Fresh
<1> QED
  BY <1>5, <1>6 DEF Once, Serial

LEMMA OnceStep ==
  ASSUME Serial, RegistryInv, WorkloadsApart, ThreadsAlone, Once, [Next]_vars
  PROVE  Once'
<1>1. ASSUME UNCHANGED <<lists, entries>>, NEW t \in Callers,
             caller'[t].at \notin {"get", "add", "write"}
      PROVE  Once'
  BY <1>1 DEF Once, Serial, Fresh, Single
<1>2. ASSUME NEW t \in Callers, Register(t)
      PROVE  Once'
  <2>1. CASE ReadSize(t)
    <3>1. /\ caller[t].at = "add" /\ caller'[t].ms = caller[t].ms
          /\ caller'[t].at = "write" /\ caller'[t].list = caller[t].list
          /\ UNCHANGED <<registered, lists, entries>>
      BY <2>1, SizeEffect DEF RegistryInv
    <3>2. Fresh(caller'[t], registered', lists', entries')
      BY <3>1 DEF Once, Fresh
    <3> QED
      BY <3>1, <3>2 DEF Once, Serial
  <2>2. CASE FindKey(t)
    BY <1>1, <2>2, FindEffect DEF RegistryInv
  <2>3. CASE LinkNode(t) \/ SetValue(t)
    BY <1>1, <2>3, Answered DEF Idle
  <2> QED
    BY <1>2, <2>1, <2>2, <2>3, OnceBegin, OnceGet, OnceAdd DEF Register
<1>3. CASE Query
  BY <1>3, QueryKeeps, OnceKept, TypeParts DEF RegistryInv, TypeInv, Registered
<1>4. CASE Unlink
  <2>1. UNCHANGED <<lists, entries>> /\ MapTyped /\ CallersTyped
    BY <1>4, TypeParts DEF Unlink, RegistryInv, TypeInv
  <2>2. PICK m : /\ registered' = m /\ DOMAIN m \subseteq Registered
                 /\ \A u \in DOMAIN m : m[u] = registered[u]
                 /\ caller' = [t \in Callers |-> Missing(caller[t], m)]
    BY <1>4, <2>1, UnlinkEffect
  <2>3. \A t \in Callers : /\ caller'[t].at = caller[t].at /\ caller'[t].ms = caller[t].ms
                           /\ caller'[t].list = caller[t].list
    BY <2>1, <2>2, ThreadMisses DEF MapTyped, CallersTyped
  <2> QED
    BY <2>1, <2>2, <2>3, OnceKept
<1>5. ASSUME NEW u \in Urls, Stop(u)
      PROVE  Once'
  <2>1. UNCHANGED <<registered, lists, entries>> /\ TypeInv
    BY <1>5 DEF Stop, RegistryInv
  <2> QED
    BY <1>5, <2>1, StopKeeps, OnceKept DEF Registered
<1>6. CASE UNCHANGED <<registered, lists, entries, caller>>
  BY <1>6, OnceKept DEF Registered
<1> QED
  BY <1>2, <1>3, <1>4, <1>5, <1>6, OtherSteps

\* A service is listed once, if one thread serves the registrations: whatever
\* stops, comes back or is removed meanwhile.  The services of type calculation
\* are the exception the code makes by writing their workload into the entry.
THEOREM SerialListsOnce ==
  ASSUME Serial
  PROVE  Spec => []ListedOnce
<1>1. Init => WorkloadsApart /\ Once
  BY DEF Init, WorkloadsApart, Once, Fresh, Idle
<1>2. RegistryInv /\ WorkloadsApart /\ ThreadsAlone /\ Once /\ [Next]_vars =>
        (WorkloadsApart /\ ThreadsAlone /\ Once)'
  BY WorkloadsStep, AloneStep, OnceStep
<1>3. RegistryInv /\ Once => ListedOnce
  BY TypeParts DEF RegistryInv, TypeInv, MapTyped, Once, ListedOnce
<1> QED
  BY <1>1, <1>2, <1>3, AloneInit, InitStep, NextStep, PTL DEF Spec

-----------------------------------------------------------------------------
(* When no service stops, whoever was told 200 is found.                   *)

\* What a thread that has added its entry is about to make public is in the list.
Ready(c, map, ls, es) ==
  /\ c.since = {}
  /\ c.at = "set" => Url[c.ms] \in DOMAIN map
  /\ c.at \in {"put", "link", "set"} => Has(ls, es, c.list, c.ms)

\* A service that was told it is registered is listed, and so is one whose thread
\* has only the answer left to give.
Reachable ==
  /\ up = Urls \ Malformed
  /\ scan.at # "idle" => steady = up
  /\ \A t \in Callers : Ready(caller[t], registered, lists, entries)
  /\ \A s \in granted : Listed(s)

\* A round finds none dead, and removes nothing.
LEMMA NoneRemoved ==
  ASSUME RegistryInv, SteadyAlive, Reachable
  PROVE  /\ ~Unlink
         /\ scan.at # "idle" => scan.dead = {}
<1>1. scan \in Scans
  BY TypeParts DEF RegistryInv, TypeInv
<1>2. scan.dead \subseteq Urls
  BY <1>1 DEF Scans
<1>3. scan.at # "idle" => scan.dead = {}
  BY <1>2 DEF SteadyAlive, Reachable
<1>4. scan.at \notin {"unlink", "unlinkAgain"}
  BY DEF RegistryInv, ScanInv, SteadyAlive, Reachable
<1> QED
  BY <1>3, <1>4 DEF Unlink

\* What the thread makes public, and what stays of the rest.
LEMMA ReadyStep ==
  ASSUME RegistryInv, ThreadsAlone, Reachable, [Next]_vars, NEW t \in Callers, Register(t)
  PROVE  Ready(caller'[t], registered', lists', entries')
<1>1. /\ Ready(caller[t], registered, lists, entries) /\ TypeInv
      /\ Alone(caller[t], registered, lists)
  BY DEF Reachable, RegistryInv, ThreadsAlone
<1>2. ASSUME NEW s \in Services, registerMicroservice(t, s)
      PROVE  Ready(caller'[t], registered', lists', entries')
  BY <1>2, BeginEffect DEF Ready
<1>3. CASE GetList(t)
  <2>1. caller'[t].since = {} /\ caller'[t].at \in {"add", "write"}
    BY <1>1, <1>3, GetEffect DEF Ready
  <2> QED
    BY <2>1 DEF Ready
<1>4. CASE ReadSize(t)
  BY <1>1, <1>4, SizeEffect DEF Ready
<1>5. CASE AddEntry(t)
  <2>1. /\ caller'[t].at = "put" /\ caller'[t].since = {}
        /\ caller'[t].ms = caller[t].ms /\ caller'[t].list = caller[t].list
    BY <1>1, <1>5, AddEffect DEF Ready
  <2>2. Has(lists', entries', caller[t].list, caller[t].ms)
    <3>1. PICK e, n : /\ entries'[e] = Entry(caller[t].ms, 0)
                      /\ 1..lists'[caller[t].list].size = 1..lists[caller[t].list].size \cup {n}
                      /\ lists'[caller[t].list].slots[n] = e
      BY <1>5, AddLists
    <3>2. /\ n \in 1..lists'[caller[t].list].size
          /\ entries'[lists'[caller[t].list].slots[n]].ms = caller[t].ms
      BY <3>1 DEF Entry
    <3> QED
      BY <3>2 DEF Has
  <2> QED
    BY <2>1, <2>2 DEF Ready
<1>6. CASE FindKey(t)
  <2>1. /\ caller[t].at = "put" /\ caller'[t].ms = caller[t].ms
        /\ caller'[t].list = caller[t].list /\ caller'[t].since = {}
        /\ caller'[t].at = "set" => Url[caller[t].ms] \in Registered
        /\ UNCHANGED <<registered, lists, entries>>
    BY <1>1, <1>6, FindEffect DEF Ready
  <2> QED
    BY <1>1, <2>1 DEF Ready, Registered
<1>7. CASE LinkNode(t) \/ SetValue(t)
  BY <1>7, Answered DEF Ready, Idle
<1> QED
  BY <1>2, <1>3, <1>4, <1>5, <1>6, <1>7 DEF Register

\* The answer is given when the key is in the map, with the list that was written.
LEMMA GrantIsListed ==
  ASSUME RegistryInv, ThreadsAlone, Reachable, NEW t \in Callers, LinkNode(t) \/ SetValue(t)
  PROVE  /\ Url[caller[t].ms] \in DOMAIN registered'
         /\ Has(lists', entries', registered'[Url[caller[t].ms]], caller[t].ms)
<1>1. /\ Ready(caller[t], registered, lists, entries) /\ TypeInv
      /\ Alone(caller[t], registered, lists)
  BY DEF Reachable, RegistryInv, ThreadsAlone
<1>2. UNCHANGED <<lists, entries>>
  BY Answered
<1>3. CASE LinkNode(t)
  <2>1. caller[t].at = "link" /\ Has(lists, entries, caller[t].list, caller[t].ms)
    BY <1>1, <1>3 DEF LinkNode, Ready
  <2>2. /\ Url[caller[t].ms] \in DOMAIN registered'
        /\ registered'[Url[caller[t].ms]] = caller[t].list
    BY <1>1, <1>3, SerialLink DEF Ready
  <2> QED
    BY <1>2, <2>1, <2>2
<1>4. CASE SetValue(t)
  <2>1. /\ caller[t].at = "set" /\ Has(lists, entries, caller[t].list, caller[t].ms)
        /\ Url[caller[t].ms] \in Registered /\ registered[Url[caller[t].ms]] = caller[t].list
    BY <1>1, <1>4 DEF SetValue, Ready, Alone, Registered
  <2>2. /\ Registered' = Registered
        /\ registered'[Url[caller[t].ms]] = registered[Url[caller[t].ms]]
    BY <1>4, <2>1, SerialSet
  <2> QED
    BY <1>2, <2>1, <2>2 DEF Registered
<1> QED
  BY <1>3, <1>4

LEMMA ReachableStep ==
  ASSUME Serial, Failing = {}, RegistryInv, SteadyAlive, ThreadsAlone, Reachable, [Next]_vars
  PROVE  Reachable'
<1>1. ~Unlink /\ (\A u \in Urls : ~Stop(u)) /\ TypeInv
  BY NoneRemoved DEF Stop, RegistryInv
<1>2. up' = up
  <2>1. \A u \in Urls : ~Start(u)
    BY DEF Start, Reachable
  <2>2. ASSUME NEW t \in Callers, Register(t)
        PROVE  up' = up
    BY <2>2 DEF Register, registerMicroservice, GetList, ReadSize, AddEntry, FindKey,
                LinkNode, SetValue
  <2> QED
    BY <1>1, <2>1, <2>2 DEF Next, Query, SetWorkload, removeDeadMicroservices, StartScan,
       NextUrl, checkHealth, deregisterMicroservice, Unlink, RemoveAgain, vars
<1>3. scan'.at # "idle" => steady' = up'
  <2>1. CASE StartScan
    BY <2>1 DEF StartScan
  <2>2. CASE scan'.at # "idle" => scan.at # "idle" /\ steady' = steady
    BY <1>2, <2>2 DEF Reachable
  <2>3. CASE NextUrl \/ checkHealth \/ deregisterMicroservice \/ RemoveAgain
    <3>1. scan.at # "idle" /\ steady' = steady
      BY <2>3 DEF NextUrl, checkHealth, deregisterMicroservice, RemoveAgain
    <3> QED
      BY <2>2, <3>1
  <2>4. ASSUME NEW t \in Callers, LinkNode(t)
        PROVE  scan'.at = scan.at /\ steady' = steady
    <3>1. /\ scan \in Scans /\ Registered \subseteq Urls
          /\ Url[caller[t].ms] \in Urls
      BY <1>1, <2>4, Storing DEF LinkNode
    <3>2. /\ DOMAIN registered' \subseteq Urls
          /\ scan' = [Missing(scan, registered') EXCEPT !.changed = scan.at \in {"next", "check"}]
      BY <2>4, <3>1, SerialLink
    <3>3. Missing(scan, registered') \in Scans /\ Missing(scan, registered').at = scan.at
      BY <3>1, <3>2, ScanMisses
    <3>4. scan'.at = scan.at
      BY <3>2, <3>3 DEF Scans
    <3> QED
      BY <2>4, <3>4, Answered
  <2>5. ASSUME NEW t \in Callers, Register(t), ~LinkNode(t)
        PROVE  UNCHANGED <<scan, steady>>
    BY <2>5, SerialSet DEF Register, registerMicroservice, GetList, ReadSize, AddEntry,
                           FindKey, SetValue
  <2>6. CASE Query \/ UNCHANGED vars
    <3>1. UNCHANGED <<scan, steady>>
      BY <2>6 DEF Query, SetWorkload, vars
    <3> QED
      BY <2>2, <3>1
  <2>7. \A u \in Urls : ~Start(u)
    BY DEF Start, Reachable
  <2> QED
    BY <1>1, <2>1, <2>2, <2>3, <2>4, <2>5, <2>6, <2>7 DEF Next, removeDeadMicroservices
<1>4. \A t \in Callers : Ready(caller'[t], registered', lists', entries')
  <2>1. ASSUME NEW t \in Callers, Register(t)
        PROVE  \A x \in Callers : Ready(caller'[x], registered', lists', entries')
    BY <2>1, ReadyStep DEF Serial
  <2>2. CASE Query
    <3>1. UNCHANGED <<registered, lists, caller>>
      BY <2>2 DEF Query, SetWorkload
    <3>2. \A t \in Callers : caller[t].at \in {"put", "link", "set"} =>
                               caller[t].list \in DOMAIN lists
      BY TypeParts DEF RegistryInv, TypeInv, CallersTyped, Fits
    <3>3. \A l \in DOMAIN lists, s \in {caller[t].ms : t \in Callers} :
            Has(lists, entries, l, s) => Has(lists', entries', l, s)
      BY ListsStay DEF Lists
    <3> QED
      BY <3>1, <3>2, <3>3 DEF Reachable, Ready
  <2>3. CASE UNCHANGED <<registered, lists, entries, caller>>
    BY <2>3 DEF Reachable
  <2> QED
    BY <1>1, <2>1, <2>2, <2>3, OtherSteps
<1>5. ASSUME NEW s \in granted'
      PROVE  Listed(s)'
  <2>1. CASE s \in granted
    <3>1. /\ Url[s] \in Registered /\ registered[Url[s]] \in DOMAIN lists
          /\ Lists(registered[Url[s]], s)
      BY <2>1, TypeParts DEF Reachable, RegistryInv, TypeInv, MapTyped, Listed
    <3>2. Has(lists', entries', registered[Url[s]], s)
      BY <3>1, ListsStay
    <3>3. Url[s] \in DOMAIN registered'
      <4>1. ASSUME Url[s] \notin DOMAIN registered'
            PROVE  FALSE
        <5>1. CASE UNCHANGED registered
          BY <3>1, <4>1, <5>1 DEF Registered
        <5>2. ASSUME NEW t \in Callers, Register(t)
              PROVE  FALSE
          <6>1. CASE LinkNode(t) \/ SetValue(t)
            BY <3>1, <4>1, <6>1, SerialLink, SerialSet DEF Registered
          <6>2. CASE ~(LinkNode(t) \/ SetValue(t))
            BY <5>1, <5>2, <6>2 DEF Register, registerMicroservice, GetList, ReadSize,
                                    AddEntry, FindKey
          <6> QED
            BY <6>1, <6>2
        <5> QED
          BY <1>1, <5>1, <5>2, OtherSteps DEF Query, SetWorkload
      <4> QED
        BY <4>1
    <3>4. registered'[Url[s]] = registered[Url[s]]
      BY <3>1, <3>3, KeysKeepLists
    <3> QED
      BY <3>2, <3>3, <3>4 DEF Listed, Lists, Registered
  <2>2. CASE s \notin granted
    <3>1. PICK t \in Callers : (LinkNode(t) \/ SetValue(t)) /\ s = caller[t].ms
      <4>1. ASSUME NEW t \in Callers, Register(t)
            PROVE  (LinkNode(t) \/ SetValue(t)) /\ s = caller[t].ms
        <5>1. LinkNode(t) \/ SetValue(t)
          BY <2>2, <4>1 DEF Register, registerMicroservice, GetList, ReadSize, AddEntry, FindKey
        <5> QED
          BY <2>2, <5>1, Answered
      <4>2. granted' # granted
        BY <2>2
      <4>3. ~(Query \/ removeDeadMicroservices \/ UNCHANGED vars \/ \E u \in Urls : Start(u))
        BY <4>2 DEF Query, SetWorkload, removeDeadMicroservices, StartScan, NextUrl,
           checkHealth, deregisterMicroservice, Unlink, RemoveAgain, Start, vars
      <4> QED
        BY <1>1, <4>1, <4>3 DEF Next
    <3> QED
      BY <3>1, GrantIsListed DEF Listed, Lists, Registered
  <2> QED
    BY <2>1, <2>2
<1> QED
  BY <1>2, <1>3, <1>4, <1>5 DEF Reachable

\* If no service stops, and fewer calls of a health check get lost than it has
\* attempts, whoever was told by the only registering thread that it is registered
\* is found by queries.
THEOREM SerialGrantsAreListed ==
  ASSUME Serial, Failing = {}, LostCalls < maxAttempts
  PROVE  Spec => []GrantedIsListed
<1>1. Init => SteadyAlive /\ Reachable
  BY DEF Init, SteadyAlive, NoScan, Reachable, Ready, Idle
<1>2. RegistryInv /\ SteadyAlive /\ ThreadsAlone /\ Reachable /\ [Next]_vars =>
        (SteadyAlive /\ ThreadsAlone /\ Reachable)'
  BY SteadyStep, AloneStep, ReachableStep
<1>3. Reachable => GrantedIsListed
  BY DEF Reachable, GrantedIsListed, Listed, Lists, Has, ListedAt, Contents
<1> QED
  BY <1>1, <1>2, <1>3, AloneInit, InitStep, NextStep, PTL DEF Spec
=============================================================================
