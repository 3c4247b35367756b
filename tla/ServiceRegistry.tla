--------------------------- MODULE ServiceRegistry ---------------------------
(***************************************************************************)
(* The service repository (Controller.java of service-repository): the map *)
(* from URLs to the lists of what is registered there, the threads that    *)
(* register, the queries, which write the workload into the entries, and   *)
(* the scheduled thread that asks every URL for its health and removes the *)
(* ones that do not answer.                                                *)
(*                                                                         *)
(* Nothing is synchronised.  HashMap.put and HashMap.remove look for the   *)
(* key and then write the table; ArrayList.add reads the size and then     *)
(* writes slot and size.  What a call writes is right for the table or the *)
(* list it has seen, and overwrites what others wrote since.  (The growth  *)
(* of either, at 13 keys and at 11 entries, is left out.)                  *)
(***************************************************************************)
EXTENDS Naturals, Sequences, FiniteSets

CONSTANTS
  Services,      \* what is registered: a name, port, function and type each
  Url,           \* Url[s]: the URL made of the name and the port of s
  Malformed,     \* the URLs that URI.create refuses, of names with a space, say
  Calculations,  \* the services of type "calculation"
  Workloads,     \* what getWorkloadByType answers
  Callers,       \* the threads that serve /register
  maxAttempts,   \* of a health check (RetryService.java)
  LostCalls,     \* how many calls of one health check may get lost
  Failing,       \* the URLs whose services can stop
  MaxEntries     \* bound: the registrations of a run

Urls == {Url[s] : s \in Services}

ASSUME RegistryAssumption ==
  /\ Calculations \subseteq Services /\ Malformed \subseteq Urls
  /\ Workloads \subseteq Nat
  /\ maxAttempts \in Nat \ {0} /\ {LostCalls, MaxEntries} \subseteq Nat
  /\ IsFiniteSet(Callers)
  /\ Failing \subseteq Urls

VARIABLES
  registered,  \* registeredMicroservices: URL -> the index of a list
  lists,       \* the lists that were made: an array of indices of entries, and
               \* how many of its slots are in use
  entries,     \* the MicroserviceInfo objects that were added to a list
  up,          \* the URLs behind which a service runs
  caller,      \* what each registering thread is doing
  scan,        \* removeDeadMicroservices, the scheduled thread
  steady,      \* history: the URLs that have been up since the scan began
  granted      \* history: the services that were told they are registered,
               \* by a service that has been up since

vars == <<registered, lists, entries, up, caller, scan, steady, granted>>

\* No service of the repository sends a workload when it registers.
Entry(s, w) == [ms |-> s, workload |-> w]
Registered == DOMAIN registered
Within(f, S) == [x \in S |-> f[x]]

\* The entries of a list, and those listed under a URL.
Contents(l) == {lists[l].slots[i] : i \in 1..lists[l].size}
ListedAt(u) == IF u \in Registered THEN Contents(registered[u]) ELSE {}

Idle == [at |-> "idle", ms |-> {}, gone |-> FALSE, list |-> 0, size |-> 0, since |-> {}]
NoScan == [at |-> "idle", todo |-> {}, url |-> {}, tries |-> 0, dead |-> {},
           changed |-> FALSE, none |-> FALSE, since |-> {}]

Init ==
  /\ registered = <<>>
  /\ lists = <<>>
  /\ entries = <<>>
  /\ up = Urls \ Malformed
  /\ caller = [t \in Callers |-> Idle]
  /\ scan = NoScan
  /\ steady = {}
  /\ granted = {}

-----------------------------------------------------------------------------
(* Registration.                                                           *)

\* equals of @Data compares every field, and a new entry has workload 0.
isServiceRegistered(s) == \E e \in ListedAt(Url[s]) : entries[e] = Entry(s, 0)

\* A running service registers, or one whose URL leads nowhere; the threads that
\* wait to be added are within the bound.
registerMicroservice(t, s) ==
  /\ caller[t] = Idle
  /\ Url[s] \in up \cup Malformed
  /\ Len(entries)
       + Cardinality({x \in Callers : caller[x].at \in {"get", "add", "write"}})
       < MaxEntries
  /\ ~isServiceRegistered(s)
  /\ caller' = [caller EXCEPT ![t] = [Idle EXCEPT !.at = "get", !.ms = s,
                                                 !.gone = Url[s] \notin up]]
  /\ UNCHANGED <<registered, lists, entries, up, scan, steady, granted>>

\* registerMs reads the list; a missing one is made on the spot, and is empty.
GetList(t) ==
  /\ caller[t].at = "get"
  /\ LET u == Url[caller[t].ms]
     IN  \/ /\ u \in Registered
           /\ caller' = [caller EXCEPT ![t].at = "add", ![t].list = registered[u]]
           /\ UNCHANGED lists
        \/ /\ u \notin Registered
           /\ caller' = [caller EXCEPT ![t].at = "write", ![t].list = Len(lists) + 1]
           /\ lists' = Append(lists, [slots |-> <<>>, size |-> 0])
  /\ UNCHANGED <<registered, entries, up, scan, steady, granted>>

\* ArrayList.add reads the size of the list ...
ReadSize(t) ==
  /\ caller[t].at = "add"
  /\ caller' = [caller EXCEPT ![t].at = "write", ![t].size = lists[caller[t].list].size]
  /\ UNCHANGED <<registered, lists, entries, up, scan, steady, granted>>

\* ... and writes the slot behind it, whatever is there by now, and the new size.
WithSlot(l, n, e) ==
  [slots |-> IF n < Len(l.slots) THEN [l.slots EXCEPT ![n + 1] = e]
                                 ELSE Append(l.slots, e),
   size |-> n + 1]

AddEntry(t) ==
  /\ caller[t].at = "write"
  /\ entries' = Append(entries, Entry(caller[t].ms, 0))
  /\ lists' = [lists EXCEPT ![caller[t].list] =
                 WithSlot(@, caller[t].size, Len(entries) + 1)]
  /\ caller' = [caller EXCEPT ![t].at = "put", ![t].size = 0]
  /\ UNCHANGED <<registered, up, scan, steady, granted>>

\* A call of put or remove that is between its look and its store misses the keys
\* that come or go when the map becomes m.
Missing(c, m) ==
  IF c.at \in {"link", "set", "unlink", "unlinkAgain"}
    THEN [c EXCEPT !.since = @ \cup (DOMAIN m \ Registered) \cup (Registered \ DOMAIN m)]
    ELSE c

\* HashMap.put looks for the key in the table.
FindKey(t) ==
  /\ caller[t].at = "put"
  /\ caller' = [caller EXCEPT ![t].at =
       IF Url[caller[t].ms] \in Registered THEN "set" ELSE "link"]
  /\ UNCHANGED <<registered, lists, entries, up, scan, steady, granted>>

\* The thread answers 200, to a service that may have stopped meanwhile.
Answer(t, m) ==
  /\ caller' = [x \in Callers |-> IF x = t THEN Idle ELSE Missing(caller[x], m)]
  /\ granted' = granted \cup IF caller[t].gone THEN {} ELSE {caller[t].ms}

\* The map with list l at u, and without the keys of S.
Put(S, u, l) ==
  [x \in (Registered \ S) \cup {u} |-> IF x = u THEN l ELSE registered[x]]

\* A node is linked where put saw the end of a bin.  What was linked there since
\* may be overwritten; if the end is no part of the table any more, the node is
\* none either.
Linked(t) ==
  {Put(lost, Url[caller[t].ms], caller[t].list) : lost \in SUBSET caller[t].since}
  \cup IF caller[t].since = {} THEN {} ELSE {registered}

\* The key was not there.  A new one changes the structure of the map, which the
\* iterator of a round notices.
LinkNode(t) ==
  /\ caller[t].at = "link"
  /\ \E m \in Linked(t) :
       /\ registered' = m
       /\ Answer(t, m)
       /\ scan' = [Missing(scan, m) EXCEPT !.changed = scan.at \in {"next", "check"}]
  /\ UNCHANGED <<lists, entries, up, steady>>

\* The key was there: the value of its node is replaced, which nobody sees if the
\* node has left the table.
SetValue(t) ==
  /\ caller[t].at = "set"
  /\ LET u == Url[caller[t].ms]
     IN  registered' = IF u \in Registered \ caller[t].since
                         THEN Put({}, u, caller[t].list) ELSE registered
  /\ Answer(t, registered)
  /\ UNCHANGED <<lists, entries, up, scan, steady>>

-----------------------------------------------------------------------------
(* Queries.                                                                *)

\* A mutant of SetWorkload: the type of the entry is not looked at.
SetWorkloadOfAny(e, w) ==
  /\ \E u \in Registered \cap up : e \in ListedAt(u)
  /\ entries' = [entries EXCEPT ![e].workload = w]
  /\ UNCHANGED <<registered, lists, up, caller, scan, steady, granted>>

\* getRegisteredServicesByFunction asks the service behind an entry for its
\* workload and writes the answer into the entry.
SetWorkload(e, w) ==
  /\ \E u \in Registered \cap up : e \in ListedAt(u)
  /\ entries[e].ms \in Calculations
  /\ entries' = [entries EXCEPT ![e].workload = w]
  /\ UNCHANGED <<registered, lists, up, caller, scan, steady, granted>>

-----------------------------------------------------------------------------
(* removeDeadMicroservices.                                                *)

StartScan ==
  /\ scan.at = "idle"
  /\ scan' = [NoScan EXCEPT !.at = "next", !.todo = Registered]
  /\ steady' = up
  /\ UNCHANGED <<registered, lists, entries, up, caller, granted>>

\* A mutant of NextUrl: the removals are left out.
NextUrlNeverRemoves ==
  /\ scan.at = "next"
  /\ \/ /\ scan.todo = {}
        /\ scan' = NoScan
     \/ \E u \in scan.todo :
          scan' = [scan EXCEPT !.at = "check", !.todo = @ \ {u}, !.url = u,
                               !.tries = 0]
  /\ UNCHANGED <<registered, lists, entries, up, caller, steady, granted>>

\* The next key; after a structural change the iterator throws instead, unless
\* it is at its end, and the round is over.
NextUrl ==
  /\ scan.at = "next"
  /\ \/ /\ scan.todo = {}
        /\ scan' = [scan EXCEPT !.at = "remove", !.changed = FALSE]
     \/ /\ scan.todo # {}
        /\ scan.changed
        /\ scan' = NoScan
     \/ /\ ~scan.changed
        /\ \E u \in scan.todo :
             scan' = [scan EXCEPT !.at = "check", !.todo = @ \ {u}, !.url = u,
                                  !.tries = 0]
  /\ UNCHANGED <<registered, lists, entries, up, caller, steady, granted>>

Dead == [scan EXCEPT !.at = "next", !.dead = @ \cup {scan.url}]

\* A mutant of Failed: one attempt too many.
FailedLate ==
  IF scan.tries < maxAttempts THEN [scan EXCEPT !.tries = @ + 1] ELSE Dead

\* A mutant of Failed: the first failed call decides.
FailedAtOnce == Dead

\* One more call of /health has failed; recover answers null after the last.
Failed ==
  IF scan.tries + 1 < maxAttempts THEN [scan EXCEPT !.tries = @ + 1] ELSE Dead

\* Where no service runs something else may answer, and anything but "OK" is dead
\* at once.  What URI.create throws at a malformed URL ends the round.
checkHealth ==
  /\ scan.at = "check"
  /\ \/ /\ scan.url \in Malformed
        /\ scan' = NoScan
     \/ /\ scan.url \in up
        /\ scan' = [scan EXCEPT !.at = "next"]
     \/ /\ scan.url \notin Malformed
        /\ scan.url \notin up \/ scan.tries < LostCalls
        /\ scan' = Failed
     \/ /\ scan.url \notin up \cup Malformed
        /\ scan' = Dead
  /\ UNCHANGED <<registered, lists, entries, up, caller, steady, granted>>

\* deregisterMicroservice takes the URLs found dead one after the other.  Its
\* first remove looks for the key, and returns null if it finds none.
deregisterMicroservice ==
  /\ scan.at = "remove"
  /\ \/ /\ scan.dead = {}
        /\ scan' = NoScan
     \/ \E u \in scan.dead :
          scan' = [scan EXCEPT !.at = IF u \in Registered THEN "unlink" ELSE "again",
                               !.url = u, !.dead = @ \ {u}, !.none = u \notin Registered]
  /\ UNCHANGED <<registered, lists, entries, up, caller, steady, granted>>

\* The node that was found leaves the table, and with it what was linked behind it
\* since.  If the key has come anew, its node is another one.
Unlinked ==
  {Within(registered, Registered \ (lost \cup ({scan.url} \ scan.since))) :
     lost \in SUBSET scan.since}

\* The loop over what the first remove returned: over null, it throws.
Logged == IF scan.none THEN NoScan ELSE [scan EXCEPT !.at = "remove", !.since = {}]

Unlink ==
  /\ scan.at \in {"unlink", "unlinkAgain"}
  /\ \E m \in Unlinked :
       /\ registered' = m
       /\ caller' = [t \in Callers |-> Missing(caller[t], m)]
  /\ scan' = IF scan.at = "unlink" THEN [scan EXCEPT !.at = "again", !.since = {}]
                                   ELSE Logged
  /\ UNCHANGED <<lists, entries, up, steady, granted>>

\* The second remove of the same key: it finds what was put in between.
RemoveAgain ==
  /\ scan.at = "again"
  /\ scan' = IF scan.url \in Registered THEN [scan EXCEPT !.at = "unlinkAgain"]
                                         ELSE Logged
  /\ UNCHANGED <<registered, lists, entries, up, caller, steady, granted>>

-----------------------------------------------------------------------------
(* The services.                                                           *)

Stop(u) ==
  /\ u \in Failing
  /\ u \in up
  /\ up' = up \ {u}
  /\ steady' = steady \ {u}
  /\ granted' = {s \in granted : Url[s] # u}
  /\ caller' = [t \in Callers |->
       IF caller[t] # Idle /\ Url[caller[t].ms] = u
         THEN [caller[t] EXCEPT !.gone = TRUE] ELSE caller[t]]
  /\ UNCHANGED <<registered, lists, entries, scan>>

Start(u) ==
  /\ u \in Urls \ (up \cup Malformed)
  /\ up' = up \cup {u}
  /\ UNCHANGED <<registered, lists, entries, caller, scan, steady, granted>>

Register(t) ==
  \/ \E s \in Services : registerMicroservice(t, s)
  \/ GetList(t) \/ ReadSize(t) \/ AddEntry(t)
  \/ FindKey(t) \/ LinkNode(t) \/ SetValue(t)

Query == \E e \in DOMAIN entries, w \in Workloads : SetWorkload(e, w)

removeDeadMicroservices ==
  \/ StartScan \/ NextUrl \/ checkHealth
  \/ deregisterMicroservice \/ Unlink \/ RemoveAgain

Next ==
  \/ \E t \in Callers : Register(t)
  \/ Query
  \/ removeDeadMicroservices
  \/ \E u \in Urls : Stop(u) \/ Start(u)

\* The scheduler starts a round every second and runs it, whatever the one
\* before ended with.  Nobody has to register or to come back.
Fairness == WF_vars(removeDeadMicroservices)

Spec == Init /\ [][Next]_vars /\ Fairness

-----------------------------------------------------------------------------

\* The fields keep their types; every list that the map or a thread holds is one
\* that was made, and is as long as it says.
TypeOK ==
  /\ Registered \subseteq Urls
  /\ \A u \in Registered : registered[u] \in DOMAIN lists
  /\ lists \in Seq([slots : Seq(DOMAIN entries), size : Nat])
  /\ \A l \in DOMAIN lists : lists[l].size <= Len(lists[l].slots)
  /\ entries \in Seq([ms : Services, workload : Workloads \cup {0}])
  /\ Len(entries) <= MaxEntries
  /\ up \subseteq Urls \ Malformed /\ steady \subseteq up
  /\ granted \subseteq {s \in Services : Url[s] \in up}
  /\ caller \in [Callers ->
       [at : {"idle", "get", "add", "write", "put", "link", "set"},
        ms : Services \cup {{}}, gone : BOOLEAN, list : Nat, size : Nat,
        since : SUBSET Urls]]
  /\ \A t \in Callers :
       /\ caller[t].at # "idle" => caller[t].ms \in Services
       /\ caller[t].at # "write" => caller[t].size = 0
       /\ caller[t].at \notin {"idle", "get"} =>
            /\ caller[t].list \in DOMAIN lists
            /\ caller[t].size <= Len(lists[caller[t].list].slots)
  /\ scan \in [at : {"idle", "next", "check", "remove", "unlink", "again", "unlinkAgain"},
               todo : SUBSET Urls, url : Urls \cup {{}}, tries : 0..(maxAttempts - 1),
               dead : SUBSET Urls, changed : BOOLEAN, none : BOOLEAN,
               since : SUBSET Urls]

\* A round of the scheduled thread removes nothing twice and nothing that is
\* gone: the loop of deregisterMicroservice over what remove returned never
\* meets null.  (Not so when two threads register: a put may overwrite what the
\* round has found dead.)
RemovalFindsEntries == scan.dead \subseteq Registered /\ ~scan.none

\* The keys that came into the map while a call of put or remove, still under way,
\* was between its look and its store.
Overtaken == scan.since \cup UNION {caller[t].since : t \in Callers}

\* What is listed stays listed while its service runs: a URL leaves the map only
\* if its service has been down during the round that removes it, however many
\* single health calls are lost (maxAttempts, RetryService.java), or if it was put
\* during an unsynchronised put or remove that is only now completed.
SteadyStays ==
  [][\A u \in Registered :
       u \notin DOMAIN registered' => u \notin steady \/ u \in Overtaken]_vars

\* A service that is listed is refused a second registration, although queries
\* write into the entries that isServiceRegistered compares: those of the type
\* calculation are the only ones it no longer recognises.
ListedIsRecognised ==
  \A s \in Services \ Calculations :
    (\E e \in ListedAt(Url[s]) : entries[e].ms = s) => isServiceRegistered(s)

\* A service that runs, and was told that its registration succeeded, is found
\* by queries.
GrantedIsListed ==
  \A s \in granted : \E e \in ListedAt(Url[s]) : entries[e].ms = s

\* "If there is a microservice that does not respond or not active anymore, it
\* will be immediately removed": a service that stops for good leaves the list
\* for good, rounds that a registration or a lost key breaks off notwithstanding.
\* The exception is a list with a malformed URL in it, which ends every round.
DeadAreRemoved ==
  \A u \in Urls :
    <>[](u \notin up /\ Registered \cap Malformed = {}) => <>[](u \notin Registered)
=============================================================================
