--------------------------- MODULE AnalyticsProofs ---------------------------
(***************************************************************************)
(* Theorems about the analytics service before the calculation service,    *)
(* for any number of requests, calculations and calls of /fault.           *)
(***************************************************************************)
EXTENDS Analytics, CalculationProofs

-----------------------------------------------------------------------------
(* The requests are calls of the calculation service.                      *)

\* Whatever the analytics service does, the calculation service sees calls of its
\* own: all that is proved of it holds behind the analytics service, too.
LEMMA RequestsAreCalls == AnalyticsSpec => Spec
<1>1. AnalyticsInit => Init
  BY DEF AnalyticsInit
<1>2. [AnalyticsNext]_analyticsVars => [Next]_vars
  <2> SUFFICES ASSUME [AnalyticsNext]_analyticsVars
               PROVE  [Next]_vars
    OBVIOUS
  <2>1. CASE UNCHANGED analyticsVars
    BY <2>1 DEF analyticsVars
  <2>2. CASE Calculation
    BY <2>2 DEF Calculation, Next
  <2>3. ASSUME NEW r \in Requests, get_prices(r)
        PROVE  UNCHANGED vars
    BY <2>3 DEF get_prices
  <2>4. ASSUME NEW r \in Requests, NEW v \in Versions, NEW t \in Functions \cup {Missing},
               getAnalytics(r, v, t)
        PROVE  [Next]_vars
    <3>1. CASE t = Missing
      BY <2>4, <3>1 DEF getAnalytics
    <3>2. CASE t # Missing
      <4>1. r \in Calls /\ [type |-> "WORKLOAD", of |-> t] \in Jobs
        BY <3>2, AnalyticsAssumption
      <4> QED
        BY <2>4, <3>2, <4>1 DEF getAnalytics, Next
    <3> QED
      BY <3>1, <3>2
  <2> QED
    BY <2>1, <2>2, <2>3, <2>4 DEF AnalyticsNext
<1> QED
  BY <1>1, <1>2, PTL DEF AnalyticsSpec, Spec

\* A call keeps its job, and an answer stays.
LEMMA JobStays ==
  ASSUME TypeInv, [Next]_vars, NEW c \in Calls, ~At(c, "new")
  PROVE  /\ ~At(c, "new")' /\ Job(c)' = Job(c)
         /\ Answered(c) => UNCHANGED <<call[c], seen[c]>>
<1>1. CASE UNCHANGED vars
  BY <1>1 DEF vars, At, Job
<1>2. ASSUME NEW d \in Calls, Reads(d)
      PROVE  /\ ~At(c, "new")' /\ Job(c)' = Job(c)
             /\ Answered(c) => UNCHANGED <<call[c], seen[c]>>
  <2>1. /\ UNCHANGED seen
        /\ OnlyCall(d)
        /\ call[d].at \in Uncounted
        /\ call'[d] \in Working \cup WithResult \cup WithLoad
        /\ call'[d].job = Job(d)
    BY <1>2, ReadsMove
  <2>2. CASE c = d
    BY <2>1, <2>2 DEF At, Job, Answered, Uncounted, Working, WithResult, WithLoad, Places
  <2>3. CASE c # d
    BY <2>1, <2>3 DEF OnlyCall, TypeInv, TypeOK, At, Job
  <2> QED
    BY <2>2, <2>3
<1>3. ASSUME NEW d \in Calls, Increment(d) \/ Decrement(d)
      PROVE  /\ ~At(c, "new")' /\ Job(c)' = Job(c)
             /\ Answered(c) => UNCHANGED <<call[c], seen[c]>>
  <2>1. /\ OnlyCall(d)
        /\ call[d].at \in {"calculate", "calculating"}
        /\ call'[d].at # "new"
        /\ call'[d].job = Job(d)
    BY <1>3, CalculationMoves
  <2>2. ~InFlight(c) => UNCHANGED seen[c]
    <3>1. PICK t : SawLoad(t)
      BY <1>3 DEF Increment, Decrement
    <3> QED
      BY <3>1 DEF SawLoad
  <2>3. CASE c = d
    BY <2>1, <2>3 DEF At, Job, Answered
  <2>4. CASE c # d
    BY <2>1, <2>2, <2>4 DEF OnlyCall, TypeInv, TypeOK, At, Job, Answered, InFlight
  <2> QED
    BY <2>3, <2>4
<1>4. ASSUME NEW d \in Calls, NEW j \in Jobs, Receive(d, j)
      PROVE  /\ ~At(c, "new")' /\ Job(c)' = Job(c)
             /\ Answered(c) => UNCHANGED <<call[c], seen[c]>>
  BY <1>4 DEF Receive, At, Job, TypeInv, TypeOK
<1>5. ASSUME NEW f \in Faults, Set(f)
      PROVE  /\ ~At(c, "new")' /\ Job(c)' = Job(c)
             /\ Answered(c) => UNCHANGED <<call[c], seen[c]>>
  <2>1. UNCHANGED call
    BY <1>5 DEF Set, SetResponseCode, SetFrequency, SetShouldCalculate
  <2>2. ~InFlight(c) => UNCHANGED seen[c]
    BY <1>5 DEF Set, SetResponseCode, SetFrequency, SetShouldCalculate, Saw,
                TypeInv, TypeOK
  <2> QED
    BY <2>1, <2>2 DEF At, Job, Answered, InFlight
<1> QED
  BY <1>1, <1>2, <1>3, <1>4, <1>5 DEF Next, Handle, Reads

-----------------------------------------------------------------------------
(* Replies.                                                                *)

\* What the state of request r says of its call.
Backed(r) ==
  /\ reply[r].at = "asking" =>
       ~At(r, "new") /\ Job(r) = [type |-> "WORKLOAD", of |-> reply[r].function]
  /\ Replied(r) /\ reply[r].code = 200 =>
       /\ Answered(r)
       /\ \E load \in seen[r].load, noise \in Noise :
            reply[r].price = price_main(load, noise)
  /\ Replied(r) /\ reply[r].code # 200 =>
       \/ reply[r].function \notin ECalculationType
       \/ Answered(r) /\ (~(seen[r].code \subseteq {200}) \/ MayCrash(r))

ReplyInv == ReplyTypeOK /\ \A r \in Requests : Backed(r)

\* A request that does not move stays backed whatever its call does.
LEMMA ReplyRests ==
  ASSUME TypeInv, [Next]_vars, NEW r \in Requests, Backed(r), UNCHANGED reply[r]
  PROVE  Backed(r)'
<1>1. r \in Calls
  BY AnalyticsAssumption
<1>2. ASSUME reply[r].at = "asking"
      PROVE  Backed(r)'
  BY <1>1, <1>2, JobStays DEF Backed, Replied
<1>3. ASSUME Replied(r), Answered(r)
      PROVE  Backed(r)'
  <2>1. ~At(r, "new")
    BY <1>3 DEF Answered, At
  <2>2. UNCHANGED <<call[r], seen[r]>> /\ Job(r)' = Job(r)
    BY <1>1, <1>3, <2>1, JobStays
  <2>3. Answered(r)' /\ (MayCrash(r)' <=> MayCrash(r))
    BY <1>3, <2>2 DEF Answered, At, MayCrash, MayBeNull
  <2> QED
    BY <1>3, <2>2, <2>3 DEF Backed, Replied
<1> QED
  BY <1>2, <1>3 DEF Backed, Replied

\* The answer of the calculation service is turned into the reply it deserves.
LEMMA PricesBacked ==
  ASSUME TypeInv, ExplainInv, ReplyInv, NEW r \in Requests, get_prices(r)
  PROVE  ReplyInv'
<1>1. r \in Calls /\ Answered(r) /\ reply[r].at = "asking" /\ UNCHANGED vars
  BY AnalyticsAssumption DEF get_prices, Answered
<1>2. /\ reply[r] \in [at : {"asking"}, version : Versions, function : Functions]
      /\ Job(r) = [type |-> "WORKLOAD", of |-> reply[r].function]
  BY <1>1 DEF ReplyInv, ReplyTypeOK, Backed
<1>3. Explained(r) /\ Placed(call[r])
  BY <1>1 DEF ExplainInv, CallInv, TypeInv, PlaceInv
<1>4. reply' = [reply EXCEPT ![r] = reply'[r]] /\ r \in DOMAIN reply
  BY DEF get_prices, Reply, ReplyInv, ReplyTypeOK
<1>5. \A q \in Requests \ {r} : Backed(q)'
  <2>1. ASSUME NEW q \in Requests \ {r}
        PROVE  Backed(q)'
    <3>1. UNCHANGED reply[q] /\ Backed(q)
      BY <1>4 DEF ReplyInv, ReplyTypeOK
    <3> QED
      BY <1>1, <3>1, ReplyRests
  <2> QED
    BY <2>1
<1>6. ASSUME call[r].code # 200
      PROVE  ReplyInv'
  <2>1. reply'[r] = Failure(reply[r].version, reply[r].function)
    BY <1>4, <1>6 DEF get_prices, Reply
  <2>2. ~(seen[r].code \subseteq {200}) \/ MayCrash(r)
    BY <1>3, <1>6 DEF Explained, Allowed
  <2>3. UNCHANGED <<call, seen>> /\ (MayCrash(r)' <=> MayCrash(r))
    BY <1>1 DEF vars, MayCrash, MayBeNull, Job
  <2>4. Backed(r)'
    <3>1. reply'[r].at = "replied" /\ reply'[r].code = 500
      BY <2>1 DEF Failure
    <3>2. Answered(r)'
      BY <1>1, <2>3 DEF Answered, At
    <3> QED
      BY <2>2, <2>3, <3>1, <3>2 DEF Backed, Replied
  <2>5. ReplyTypeOK'
    BY <1>2, <1>4, <2>1 DEF ReplyInv, ReplyTypeOK, Failure
  <2> QED
    BY <1>5, <2>4, <2>5 DEF ReplyInv
<1>7. ASSUME call[r].code = 200
      PROVE  ReplyInv'
  <2>1. PICK noise \in Noise :
          reply'[r] = [at |-> "replied", version |-> reply[r].version,
                       function |-> reply[r].function, code |-> 200,
                       price |-> price_main(call[r].load, noise)]
    BY <1>4, <1>7 DEF get_prices, Reply
  <2>2. call[r].load \in seen[r].load /\ call[r].load \in Nat
    BY <1>1, <1>2, <1>3, <1>7 DEF Explained, Placed, Answered, At, Job, WithLoad
  <2>3. price_main(call[r].load, noise) \in Nat \ 0..9
    BY <2>2, AnalyticsAssumption DEF price_main
  <2>4. UNCHANGED <<call, seen>>
    BY <1>1 DEF vars
  <2>5. Backed(r)'
    <3>1. /\ reply'[r].at = "replied" /\ reply'[r].code = 200
          /\ reply'[r].price = price_main(call[r].load, noise)
      BY <2>1
    <3>2. Answered(r)'
      BY <1>1, <2>4 DEF Answered, At
    <3> QED
      BY <2>2, <2>4, <3>1, <3>2 DEF Backed, Replied
  <2>6. ReplyTypeOK'
    BY <1>2, <1>4, <2>1, <2>3 DEF ReplyInv, ReplyTypeOK
  <2> QED
    BY <1>5, <2>5, <2>6 DEF ReplyInv
<1> QED
  BY <1>6, <1>7

\* A request begins.
LEMMA RequestBacked ==
  ASSUME TypeInv, [Next]_vars, ReplyInv, NEW r \in Requests, NEW v \in Versions,
         NEW t \in Functions \cup {Missing}, getAnalytics(r, v, t)
  PROVE  ReplyInv'
<1>1. reply' = [reply EXCEPT ![r] = reply'[r]] /\ r \in DOMAIN reply /\ r \in Calls
  BY AnalyticsAssumption DEF getAnalytics, Reply, ReplyInv, ReplyTypeOK
<1>2. ASSUME NEW q \in Requests \ {r}
      PROVE  Backed(q)'
  <2>1. UNCHANGED reply[q] /\ Backed(q)
    BY <1>1 DEF ReplyInv, ReplyTypeOK
  <2> QED
    BY <2>1, ReplyRests
<1>3. CASE t = Missing
  <2>1. reply'[r] = Failure(v, t)
    BY <1>1, <1>3 DEF getAnalytics, Reply
  <2>2. Backed(r)'
    BY <1>3, <2>1, AnalyticsAssumption DEF Backed, Replied, Failure
  <2>3. ReplyTypeOK'
    BY <1>1, <1>3, <2>1 DEF ReplyInv, ReplyTypeOK, Failure
  <2> QED
    BY <1>2, <2>2, <2>3 DEF ReplyInv
<1>4. CASE t # Missing
  <2>1. reply'[r] = [at |-> "asking", version |-> v, function |-> t]
    BY <1>1, <1>4 DEF getAnalytics, Reply
  <2>2. call'[r] = [at |-> "frequency", job |-> [type |-> "WORKLOAD", of |-> t]]
    BY <1>1, <1>4 DEF getAnalytics, Receive, TypeInv, TypeOK
  <2>3. Backed(r)'
    BY <2>1, <2>2 DEF Backed, Replied, At, Job
  <2>4. ReplyTypeOK'
    BY <1>1, <1>4, <2>1 DEF ReplyInv, ReplyTypeOK
  <2> QED
    BY <1>2, <2>3, <2>4 DEF ReplyInv
<1> QED
  BY <1>3, <1>4

\* The inductive step, and the invariant.
LEMMA ReplyStep ==
  TypeInv /\ ExplainInv /\ ReplyInv /\ [Next]_vars /\ [AnalyticsNext]_analyticsVars
    => ReplyInv'
<1> SUFFICES ASSUME TypeInv, ExplainInv, ReplyInv, [Next]_vars,
                    [AnalyticsNext]_analyticsVars
             PROVE  ReplyInv'
  OBVIOUS
<1>1. ASSUME UNCHANGED reply
      PROVE  ReplyInv'
  <2>1. ReplyTypeOK'
    BY <1>1 DEF ReplyInv, ReplyTypeOK
  <2> QED
    BY <1>1, <2>1, ReplyRests DEF ReplyInv
<1>2. ASSUME NEW r \in Requests, get_prices(r)
      PROVE  ReplyInv'
  BY <1>2, PricesBacked
<1>3. ASSUME NEW r \in Requests, NEW v \in Versions, NEW t \in Functions \cup {Missing},
             getAnalytics(r, v, t)
      PROVE  ReplyInv'
  BY <1>3, RequestBacked
<1> QED
  BY <1>1, <1>2, <1>3 DEF AnalyticsNext, analyticsVars

LEMMA ReplyInvariant == AnalyticsSpec => []ReplyInv
<1>1. AnalyticsInit => ReplyInv
  BY DEF AnalyticsInit, ReplyInv, ReplyTypeOK, Backed, Replied
<1>2. Spec => [][Next]_vars
  BY DEF Spec
<1> QED
  BY <1>1, <1>2, ReplyStep, RequestsAreCalls, TypeInvariant, ExplainInvariant, PTL
     DEF AnalyticsSpec

\* A reply is a failure or a price of at least the base price.
THEOREM RepliesTyped == AnalyticsSpec => []ReplyTypeOK
BY ReplyInvariant, PTL DEF ReplyInv

\* Every price comes from a workload that the counter of the asked type had while
\* the request was under way, whatever else was calculated meanwhile.
THEOREM PricesAreExplained == AnalyticsSpec => []PricesExplained
<1>1. ReplyInv => PricesExplained
  BY DEF ReplyInv, Backed, PricesExplained
<1> QED
  BY <1>1, ReplyInvariant, PTL

\* A request fails only for a function that does not exist or for a fault that was
\* set while it was under way, and always with a 500.
THEOREM FailuresAreExplained == AnalyticsSpec => []FailuresExplained
<1>1. ReplyInv => FailuresExplained
  BY DEF ReplyInv, ReplyTypeOK, Backed, Replied, FailuresExplained
<1> QED
  BY <1>1, ReplyInvariant, PTL
=============================================================================
