------------------------------ MODULE Analytics ------------------------------
(***************************************************************************)
(* The analytics service in its two versions (docker/services/analytics/   *)
(* analytics.py and docker/services/analytics_advanced/                    *)
(* analytics_advanced.py), between which istio/virt_svc_10_90_canary.yaml  *)
(* divides the calls of getAnalytics, in front of the calculation service  *)
(* whose workload they turn into a price.                                  *)
(*                                                                         *)
(* A call of getAnalytics makes one call of getWorkloadByType, which goes  *)
(* through the same fault switch as the calculations; both bear one name.  *)
(***************************************************************************)
EXTENDS CalculationService

CONSTANTS
  Requests,    \* the calls of getAnalytics
  Versions,    \* of the service: 1 and 1.1
  Functions,   \* the values of the parameter function
  Missing,     \* its value when it is absent
  Noise        \* the values of random.uniform(0, 20.5), in whole euros

ASSUME AnalyticsAssumption ==
  /\ Requests \subseteq Calls
  /\ \A t \in Functions : [type |-> "WORKLOAD", of |-> t] \in Jobs
  /\ Missing \notin ECalculationType
  /\ Noise \subseteq 0..20

VARIABLE reply   \* reply[r]: what was asked of which version, and its answer

analyticsVars == <<vars, reply>>

AnalyticsInit == Init /\ reply = [r \in Requests |-> [at |-> "new"]]

-----------------------------------------------------------------------------

Replied(r) == reply[r].at = "replied"

Reply(r, body) == reply' = [reply EXCEPT ![r] = body]

Failure(v, t) == [at |-> "replied", version |-> v, function |-> t, code |-> 500]

\* get_prices appends the function to the URL of the calculation service; a
\* missing one is a TypeError.
getAnalytics(r, v, t) ==
  /\ reply[r].at = "new"
  /\ IF t = Missing
       THEN Reply(r, Failure(v, t)) /\ UNCHANGED vars
       ELSE /\ Receive(r, [type |-> "WORKLOAD", of |-> t])
            /\ Reply(r, [at |-> "asking", version |-> v, function |-> t])

\* A mutant of price_main: the base price is forgotten.
NoBasePrice(load, noise) == load * 3 + noise

price_main(load, noise) == load * 3 + 10 + noise

\* A mutant of get_prices: get_analytics deletes the status before it reads it.
DeleteFirst(r) ==
  /\ At(r, "answered")
  /\ reply[r].at = "asking"
  /\ Reply(r, Failure(reply[r].version, reply[r].function))
  /\ UNCHANGED vars

\* int(response.text) throws for every answer but a workload, so the branch
\* that passes on a status other than 200 is never reached.  Version 1.1 answers
\* with the price, both with a time drawn from what lies between 1 and it.
get_prices(r) ==
  /\ At(r, "answered")
  /\ reply[r].at = "asking"
  /\ LET response == call[r]
         v == reply[r].version
         t == reply[r].function
     IN  \/ /\ response.code # 200
            /\ Reply(r, Failure(v, t))
         \/ /\ response.code = 200
            /\ \E noise \in Noise :
                 Reply(r, [at |-> "replied", version |-> v, function |-> t,
                           code |-> response.code,
                           price |-> price_main(response.load, noise)])
  /\ UNCHANGED vars

-----------------------------------------------------------------------------

Calculation ==
  \/ \E c \in Calls : Handle(c)
  \/ \E c \in Calls \ Requests, j \in Jobs :
       j.type \in ECalculationType /\ Receive(c, j)
  \/ \E f \in Faults : Set(f)

AnalyticsNext ==
  \/ Calculation /\ UNCHANGED reply
  \/ \E r \in Requests : \/ get_prices(r)
                         \/ \E v \in Versions, t \in Functions \cup {Missing} :
                              getAnalytics(r, v, t)

AnalyticsSpec == AnalyticsInit /\ [][AnalyticsNext]_analyticsVars

-----------------------------------------------------------------------------

\* A request is new, waits, has failed, or has been answered with an estimate
\* of at least the base price.
ReplyTypeOK ==
  reply \in [Requests ->
    [at : {"new"}]
    \cup [at : {"asking"}, version : Versions, function : Functions]
    \cup [at : {"replied"}, version : Versions, function : Functions \cup {Missing},
          code : {500}]
    \cup [at : {"replied"}, version : Versions, function : Functions, code : {200},
          price : Nat \ 0..9]]

\* "A price for a calculation is based on the workload of each distributed
\* calculation service instance": the price of an answer, or of the time that
\* is drawn below it, comes from a workload that the counter of that very type
\* had during the request, although calculations begin and end meanwhile.
PricesExplained ==
  \A r \in Requests :
    Replied(r) /\ reply[r].code = 200 =>
      \E load \in seen[r].load, noise \in Noise :
        reply[r].price = price_main(load, noise)

\* getAnalytics fails only for a function that does not exist, or because the
\* fault switch was set during the request; then the client gets a 500, never
\* the status that was set, and never a price.
FailuresExplained ==
  \A r \in Requests :
    Replied(r) /\ reply[r].code # 200 =>
      /\ reply[r].code = 500
      /\ \/ reply[r].function \notin ECalculationType
         \/ ~(seen[r].code \subseteq {200})
         \/ MayCrash(r)
=============================================================================
