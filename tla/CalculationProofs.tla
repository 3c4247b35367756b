------------------------- MODULE CalculationProofs -------------------------
(***************************************************************************)
(* Theorems about the REST layer of the calculation service, for any       *)
(* number of calls and of /fault calls, any settings and any jobs.         *)
(***************************************************************************)
EXTENDS CalculationService, FiniteSetTheorems, TLAPS

-----------------------------------------------------------------------------
(* Type correctness, and the counters.                                     *)

New == [at : {"new"}]
Working == [at : Places, job : Jobs]
WithResult == [at : {"answered"}, job : Jobs, code : HttpStatuses, result : BOOLEAN]
WithLoad == [at : {"answered"}, job : Jobs, code : {200}, load : Nat]

\* What the place x of a call says of its job.
Placed(x) ==
  /\ x.at \in {"calculate", "calculating", "switch"} => x.job.type \in ECalculationType
  /\ x.at = "workload" => x.job.type = "WORKLOAD"
  /\ x.at = "answered" /\ x.job.type = "WORKLOAD" /\ x.code = 200 => x \in WithLoad
  /\ x.at = "answered" /\ x.job.type # "WORKLOAD" => x \in WithResult

PlaceInv == \A c \in Calls : Placed(call[c])

TypeInv == TypeOK /\ PlaceInv /\ LoadIsCounted

\* A call is new, in flight with its job, or answered.
LEMMA CallTyped ==
  ASSUME TypeOK, NEW c \in Calls
  PROVE  /\ call[c].at \in Places <=> call[c] \in Working
         /\ call[c].at \in Places <=> InFlight(c)
         /\ ~At(c, "new") => Job(c) \in Jobs
         /\ call[c] \in New \cup Working \cup WithResult \cup WithLoad
BY DEF TypeOK, At, InFlight, Places, Job, New, Working, WithResult, WithLoad

\* A job is a calculation, with a number, or asks for a workload.
LEMMA JobTyped ==
  ASSUME NEW j \in Jobs
  PROVE  /\ j.type \in ECalculationType \cup {"WORKLOAD"}
         /\ j.type \in ECalculationType => j.n \in Int
         /\ j.type = "WORKLOAD" => j.type \notin ECalculationType
BY ServiceAssumption DEF ECalculationType

\* What the steps do that move a call, or answer it: only the record of c changes.
OnlyCall(c) == call' = [call EXCEPT ![c] = call'[c]]

LEMMA GotoMoves ==
  ASSUME TypeOK, NEW c \in Calls, InFlight(c), NEW place \in Places, Goto(c, place)
  PROVE  /\ call'[c] = [at |-> place, job |-> Job(c)]
         /\ call'[c] \in Working
         /\ OnlyCall(c)
<1>1. call[c] \in Working /\ c \in DOMAIN call /\ Job(c) \in Jobs
  BY CallTyped DEF TypeOK, Working, Job
<1>2. [call[c] EXCEPT !.at = place] = [at |-> place, job |-> call[c].job]
  BY <1>1 DEF Working
<1> QED
  BY <1>1, <1>2 DEF Goto, Job, Working, OnlyCall

LEMMA AnswerAnswers ==
  ASSUME TypeOK, NEW c \in Calls, InFlight(c), NEW code \in HttpStatuses,
         NEW result \in BOOLEAN, Answer(c, code, result)
  PROVE  /\ call'[c] = [at |-> "answered", job |-> Job(c), code |-> code,
                        result |-> result]
         /\ call'[c] \in WithResult
         /\ OnlyCall(c)
<1>1. c \in DOMAIN call /\ Job(c) \in Jobs
  BY CallTyped DEF TypeOK, InFlight, At
<1> QED
  BY <1>1 DEF Answer, WithResult, OnlyCall

LEMMA CrashAnswers ==
  ASSUME TypeOK, NEW c \in Calls, InFlight(c), Crash(c)
  PROVE  /\ call'[c] = [at |-> "answered", job |-> Job(c), code |-> 500,
                        result |-> FALSE]
         /\ call'[c] \in WithResult
         /\ OnlyCall(c)
<1>1. 500 \in HttpStatuses /\ Answer(c, 500, FALSE)
  BY ServiceAssumption DEF Crash
<1>2. c \in DOMAIN call /\ Job(c) \in Jobs
  BY CallTyped DEF TypeOK, InFlight, At
<1> QED
  BY <1>1, <1>2 DEF Answer, WithResult, OnlyCall

\* A change of one call keeps the calls typed and in their places.
LEMMA CallChanges ==
  ASSUME TypeOK, PlaceInv, NEW c \in Calls, OnlyCall(c), Placed(call'[c]),
         call'[c] \in Working \cup WithResult \cup WithLoad
  PROVE  /\ call' \in [Calls -> New \cup Working \cup WithResult \cup WithLoad]
         /\ PlaceInv'
<1>1. call \in [Calls -> New \cup Working \cup WithResult \cup WithLoad]
  BY DEF TypeOK, New, Working, WithResult, WithLoad
<1> QED
  BY <1>1 DEF OnlyCall, PlaceInv

\* The calls of type t that are counted are finitely many.
LEMMA CountedFinite ==
  ASSUME NEW t
  PROVE  /\ IsFiniteSet(Counted(t)) /\ Cardinality(Counted(t)) \in Nat
         /\ Cardinality(Counted(t)') \in Nat
<1>1. Counted(t) \in SUBSET Calls /\ Counted(t)' \in SUBSET Calls
  BY DEF Counted
<1> QED
  BY <1>1, ServiceAssumption, FS_Subset, FS_CardinalityType

\* Histories grow by values of their types.
LEMMA SawLoadTyped ==
  ASSUME TypeOK, NEW t \in ECalculationType, SawLoad(t),
         endpointWorkload' \in [ECalculationType -> Nat]
  PROVE  seen' \in [Calls -> [code : SUBSET Int, freq : SUBSET Int,
                             calculate : SUBSET BOOLEAN, load : SUBSET Nat]]
<1> DEFINE R == [code : SUBSET Int, freq : SUBSET Int,
                 calculate : SUBSET BOOLEAN, load : SUBSET Nat]
<1>1. endpointWorkload'[t] \in Nat
  OBVIOUS
<1>2. ASSUME NEW x \in R, NEW v \in Nat
      PROVE  [x EXCEPT !.load = @ \cup {v}] \in R
  OBVIOUS
<1>3. ASSUME NEW d \in Calls
      PROVE  /\ seen[d] \in R
             /\ [seen[d] EXCEPT !.load = @ \cup {endpointWorkload'[t]}] \in R
  BY <1>1, <1>2 DEF TypeOK
<1> QED
  BY <1>3 DEF SawLoad

\* The places of a handler, the calculation aside.
Uncounted == Places \ {"calculate", "calculating"}

\* The steps that read the settings or a counter.
Reads(c) ==
  TestFrequency(c) \/ Draw(c) \/ ReadCode(c) \/ ReadSwitch(c) \/ getWorkloadByType(c)

\* They move a call on, without touching what others see.
LEMMA ReadsMove ==
  ASSUME TypeInv, NEW c \in Calls, Reads(c)
  PROVE  /\ UNCHANGED <<settings, endpointWorkload, fault, seen>>
         /\ OnlyCall(c)
         /\ call[c].at \in Uncounted
         /\ call'[c] \in Working \cup WithResult \cup WithLoad
         /\ call'[c].job = Job(c)
         /\ call'[c].at # "calculating"
         /\ call'[c].at = "calculate" => Job(c).type \in Quick
         /\ Placed(call'[c])
<1> USE DEF Uncounted, Places, TypeInv
<1>1. Job(c) \in Jobs /\ InFlight(c)
  <2>1. call[c].at \in Places
    BY DEF Reads, TestFrequency, Draw, ReadCode, ReadSwitch, getWorkloadByType, At
  <2> QED
    BY <2>1, CallTyped DEF At
<1>2. Job(c).type \in ECalculationType \cup {"WORKLOAD"}
  BY <1>1, JobTyped
<1>3. CASE TestFrequency(c)
  <2>1. PICK place \in {"code", "draw"} : Goto(c, place)
    BY <1>3 DEF TestFrequency
  <2>2. /\ call'[c] = [at |-> place, job |-> Job(c)]
        /\ call'[c] \in Working
        /\ OnlyCall(c)
    BY <1>1, <2>1, GotoMoves
  <2>3. UNCHANGED <<settings, endpointWorkload, fault, seen>> /\ call[c].at = "frequency"
    BY <1>3 DEF TestFrequency, At
  <2> QED
    BY <2>2, <2>3 DEF Placed
<1>4. ASSUME Goto(c, Proceed(c)) \/ Goto(c, "code")
      PROVE  /\ OnlyCall(c)
             /\ call'[c] \in Working /\ call'[c].job = Job(c)
             /\ call'[c].at \in {"code", "workload", "switch"}
             /\ Placed(call'[c])
  <2>1. PICK place \in {"code", "workload", "switch"} :
          /\ Goto(c, place)
          /\ place = "workload" => Job(c).type = "WORKLOAD"
          /\ place = "switch" => Job(c).type # "WORKLOAD"
    BY <1>4 DEF Proceed
  <2>2. /\ call'[c] = [at |-> place, job |-> Job(c)]
        /\ call'[c] \in Working
        /\ OnlyCall(c)
    BY <1>1, <2>1, GotoMoves
  <2> QED
    BY <1>2, <2>1, <2>2 DEF Placed
<1>5. ASSUME Crash(c)
      PROVE  /\ OnlyCall(c)
             /\ call'[c] \in WithResult /\ call'[c].job = Job(c)
             /\ call'[c].at = "answered"
             /\ Placed(call'[c])
  <2>1. /\ call'[c] = [at |-> "answered", job |-> Job(c), code |-> 500,
                       result |-> FALSE]
        /\ call'[c] \in WithResult
        /\ OnlyCall(c)
    BY <1>1, <1>5, CrashAnswers
  <2> QED
    BY <2>1 DEF Placed
<1>6. CASE Draw(c)
  BY <1>4, <1>5, <1>6 DEF Draw, At
<1>7. CASE ReadCode(c)
  <2>1. CASE Answer(c, responseCode, FALSE) /\ responseCode # 200 /\ responseCode \in HttpStatuses
    <3>1. /\ call'[c] = [at |-> "answered", job |-> Job(c), code |-> responseCode,
                         result |-> FALSE]
          /\ call'[c] \in WithResult
          /\ OnlyCall(c)
      BY <1>1, <2>1, AnswerAnswers
    <3>2. UNCHANGED <<settings, endpointWorkload, fault, seen>> /\ call[c].at = "code"
      BY <1>7 DEF ReadCode, At
    <3> QED
      BY <2>1, <3>1, <3>2 DEF Placed
  <2> QED
    BY <1>4, <1>5, <1>7, <2>1 DEF ReadCode, At
<1>8. CASE ReadSwitch(c)
  <2>1. Job(c).type \in ECalculationType
    BY <1>8 DEF ReadSwitch, At, PlaceInv, Placed, Job
  <2>2. ASSUME NEW result \in BOOLEAN, Answer(c, 200, result)
        PROVE  /\ OnlyCall(c)
               /\ call'[c] \in WithResult /\ call'[c].job = Job(c)
               /\ call'[c].at = "answered"
               /\ Placed(call'[c])
    <3>1. /\ call'[c] = [at |-> "answered", job |-> Job(c), code |-> 200,
                         result |-> result]
          /\ call'[c] \in WithResult
          /\ OnlyCall(c)
      BY <1>1, <2>2, AnswerAnswers, ServiceAssumption
    <3> QED
      BY <1>1, <2>1, <3>1, JobTyped DEF Placed
  <2>3. CASE Goto(c, "calculate") /\ Job(c).type \in Quick
    <3>1. /\ call'[c] = [at |-> "calculate", job |-> Job(c)]
          /\ call'[c] \in Working
          /\ OnlyCall(c)
      BY <1>1, <2>3, GotoMoves
    <3>2. UNCHANGED <<settings, endpointWorkload, fault, seen>> /\ call[c].at = "switch"
      BY <1>8 DEF ReadSwitch, At
    <3> QED
      BY <2>1, <2>3, <3>1, <3>2 DEF Placed
  <2> QED
    BY <1>5, <1>8, <2>2, <2>3 DEF ReadSwitch, At
<1>9. CASE getWorkloadByType(c)
  <2>1. Job(c).type = "WORKLOAD"
    BY <1>9 DEF getWorkloadByType, At, PlaceInv, Placed, Job
  <2>2. CASE Job(c).of \notin ECalculationType
    BY <1>5, <1>9, <2>2 DEF getWorkloadByType, At
  <2>3. CASE Job(c).of \in ECalculationType
    <3>1. endpointWorkload[Job(c).of] \in Nat /\ c \in DOMAIN call
      BY <2>3 DEF TypeOK
    <3>2. call' = [call EXCEPT ![c] =
            [at |-> "answered", job |-> Job(c), code |-> 200,
             load |-> endpointWorkload[Job(c).of]]]
      BY <1>9, <2>3 DEF getWorkloadByType
    <3> QED
      BY <1>1, <1>9, <2>1, <3>1, <3>2 DEF getWorkloadByType, At, Placed, WithLoad, OnlyCall
  <2> QED
    BY <2>2, <2>3
<1> QED
  BY <1>3, <1>6, <1>7, <1>8, <1>9 DEF Reads

\* A calculation begins: one more call is counted.
LEMMA IncrementCounts ==
  ASSUME TypeInv, NEW c \in Calls, Increment(c)
  PROVE  TypeInv'
<1>0. PICK type : type = Job(c).type
  OBVIOUS
<1>1. /\ call[c].at = "calculate" /\ InFlight(c) /\ Job(c) \in Jobs
      /\ type \in ECalculationType
  BY <1>0, CallTyped DEF Increment, At, InFlight, TypeInv, PlaceInv, Placed, Job
<1>2. /\ call'[c] = [at |-> "calculating", job |-> Job(c)]
      /\ call'[c] \in Working
      /\ OnlyCall(c)
  BY <1>1, GotoMoves DEF Increment, TypeInv, Places
<1>3. \A d \in Calls \ {c} : call'[d] = call[d]
  BY <1>2 DEF OnlyCall, TypeInv, TypeOK
<1>4. c \notin Counted(type) /\ Counted(type)' = Counted(type) \cup {c}
  BY <1>0, <1>1, <1>2, <1>3 DEF Counted, At, Leaks, Job
<1>5. \A t \in ECalculationType \ {type} : Counted(t)' = Counted(t)
  BY <1>0, <1>1, <1>2, <1>3 DEF Counted, At, Leaks, Job
<1>6. /\ endpointWorkload' = [endpointWorkload EXCEPT ![type] = @ + 1]
      /\ endpointWorkload' \in [ECalculationType -> Nat]
  BY <1>0, <1>1 DEF Increment, TypeInv, TypeOK
<1>7. LoadIsCounted'
  <2>1. endpointWorkload'[type] = Cardinality(Counted(type)')
    <3>1. Cardinality(Counted(type) \cup {c}) = Cardinality(Counted(type)) + 1
      BY <1>4, CountedFinite, FS_AddElement
    <3>2. endpointWorkload'[type] = endpointWorkload[type] + 1
      BY <1>1, <1>6 DEF TypeInv, TypeOK
    <3> QED
      BY <1>1, <1>4, <3>1, <3>2 DEF TypeInv, LoadIsCounted
  <2>2. \A t \in ECalculationType \ {type} :
          endpointWorkload'[t] = Cardinality(Counted(t)')
    BY <1>5, <1>6 DEF TypeInv, TypeOK, LoadIsCounted
  <2> QED
    BY <2>1, <2>2 DEF LoadIsCounted
<1>8. Placed(call'[c])
  BY <1>0, <1>1, <1>2 DEF Placed
<1> QED
  <2>1. /\ call' \in [Calls -> New \cup Working \cup WithResult \cup WithLoad]
        /\ PlaceInv'
    BY <1>2, <1>8, CallChanges DEF TypeInv
  <2>2. seen' \in [Calls -> [code : SUBSET Int, freq : SUBSET Int,
                            calculate : SUBSET BOOLEAN, load : SUBSET Nat]]
    BY <1>0, <1>1, <1>6, SawLoadTyped DEF TypeInv, Increment
  <2> QED
    BY <1>6, <1>7, <2>1, <2>2 DEF TypeInv, TypeOK, Increment, settings,
                                  New, Working, WithResult, WithLoad

\* A calculation ends: one call less is counted, or the call has leaked.
LEMMA DecrementCounts ==
  ASSUME TypeInv, NEW c \in Calls, Decrement(c)
  PROVE  TypeInv'
<1>0. PICK type : type = Job(c).type
  OBVIOUS
<1>1. /\ call[c].at = "calculating" /\ InFlight(c) /\ Job(c) \in Jobs
      /\ type \in ECalculationType
  BY <1>0, CallTyped DEF Decrement, At, InFlight, TypeInv, PlaceInv, Placed, Job
<1>2. /\ call'[c] \in Working \cup WithResult
      /\ call'[c].job = Job(c)
      /\ call'[c].at \in {"frequency", "answered"}
      /\ call'[c].at = "answered" => call'[c] \in WithResult
      /\ OnlyCall(c)
  <2>1. CASE type \in Quick
    <3>1. 200 \in HttpStatuses /\ TRUE \in BOOLEAN /\ Answer(c, 200, TRUE)
      BY <1>0, <2>1, ServiceAssumption DEF Decrement
    <3>2. /\ call'[c] = [at |-> "answered", job |-> Job(c), code |-> 200,
                         result |-> TRUE]
          /\ call'[c] \in WithResult
          /\ OnlyCall(c)
      BY <1>1, <3>1, AnswerAnswers DEF TypeInv
    <3> QED
      BY <3>2
  <2>2. CASE type \notin Quick
    <3>1. "frequency" \in Places /\ Goto(c, "frequency")
      BY <1>0, <2>2 DEF Decrement, Places
    <3>2. /\ call'[c] = [at |-> "frequency", job |-> Job(c)]
          /\ call'[c] \in Working
          /\ OnlyCall(c)
      BY <1>1, <3>1, GotoMoves DEF TypeInv
    <3> QED
      BY <3>2
  <2> QED
    BY <2>1, <2>2
<1>3. \A d \in Calls \ {c} : call'[d] = call[d]
  BY <1>2 DEF OnlyCall, TypeInv, TypeOK
<1>4. c \in Counted(type)
  BY <1>0, <1>1 DEF Counted, At
<1>5. \A t \in ECalculationType \ {type} : Counted(t)' = Counted(t)
  BY <1>0, <1>1, <1>2, <1>3 DEF Counted, At, Leaks, Job
<1>6. /\ endpointWorkload' \in [ECalculationType -> Int]
      /\ \A t \in ECalculationType \ {type} : endpointWorkload'[t] = endpointWorkload[t]
      /\ endpointWorkload'[type] = Cardinality(Counted(type)')
  <2>1. CASE type = "FIBONACCI" /\ Job(c).n < 7
    <3>1. Counted(type)' = Counted(type)
      BY <1>0, <1>1, <1>2, <1>3, <2>1 DEF Counted, At, Leaks, Job
    <3> QED
      BY <1>0, <1>1, <2>1, <3>1 DEF Decrement, Finished, TypeInv, TypeOK, LoadIsCounted
  <2>2. CASE ~(type = "FIBONACCI" /\ Job(c).n < 7)
    <3>1. Counted(type)' = Counted(type) \ {c}
      BY <1>0, <1>1, <1>2, <1>3, <2>2 DEF Counted, At, Leaks, Job
    <3>2. Cardinality(Counted(type) \ {c}) = Cardinality(Counted(type)) - 1
      BY <1>4, CountedFinite, FS_RemoveElement
    <3>3. endpointWorkload' = [endpointWorkload EXCEPT ![type] = @ - 1]
      BY <1>0, <2>2 DEF Decrement, Finished
    <3>4. /\ endpointWorkload' \in [ECalculationType -> Int]
          /\ endpointWorkload'[type] = endpointWorkload[type] - 1
          /\ \A t \in ECalculationType \ {type} :
               endpointWorkload'[t] = endpointWorkload[t]
      BY <1>1, <3>3 DEF TypeInv, TypeOK
    <3> QED
      BY <1>1, <3>1, <3>2, <3>4 DEF TypeInv, LoadIsCounted
  <2> QED
    BY <2>1, <2>2
<1>7. LoadIsCounted'
  BY <1>5, <1>6 DEF TypeInv, LoadIsCounted
<1>8. endpointWorkload' \in [ECalculationType -> Nat]
  <2>1. \A t \in ECalculationType : endpointWorkload'[t] \in Nat
    BY <1>6, CountedFinite DEF TypeInv, TypeOK
  <2> QED
    BY <1>6, <2>1
<1>9. Placed(call'[c])
  BY <1>0, <1>1, <1>2 DEF Placed, ECalculationType
<1> QED
  <2>1. /\ call' \in [Calls -> New \cup Working \cup WithResult \cup WithLoad]
        /\ PlaceInv'
    BY <1>2, <1>9, CallChanges DEF TypeInv
  <2>2. seen' \in [Calls -> [code : SUBSET Int, freq : SUBSET Int,
                            calculate : SUBSET BOOLEAN, load : SUBSET Nat]]
    BY <1>0, <1>1, <1>8, SawLoadTyped DEF TypeInv, Decrement
  <2> QED
    BY <1>7, <1>8, <2>1, <2>2 DEF TypeInv, TypeOK, Decrement, settings,
                                  New, Working, WithResult, WithLoad

\* The other steps change no counter, and nobody becomes or ceases to be counted.
LEMMA SameCounts ==
  ASSUME TypeInv, UNCHANGED endpointWorkload, NEW c \in Calls, OnlyCall(c),
         \A t \in ECalculationType : c \in Counted(t)' <=> c \in Counted(t)
  PROVE  LoadIsCounted'
<1>1. \A d \in Calls \ {c} : call'[d] = call[d]
  BY DEF OnlyCall, TypeInv, TypeOK
<1>2. ASSUME NEW t \in ECalculationType
      PROVE  Counted(t)' = Counted(t)
  <2>1. \A d \in Calls \ {c} : d \in Counted(t)' <=> d \in Counted(t)
    BY <1>1 DEF Counted, At, Leaks, Job
  <2>2. Counted(t) \subseteq Calls /\ Counted(t)' \subseteq Calls
    BY DEF Counted
  <2> QED
    BY <2>1, <2>2
<1> QED
  BY <1>2 DEF LoadIsCounted, TypeInv

\* The steps of the calls that read.
LEMMA ReadsCount ==
  ASSUME TypeInv, NEW c \in Calls, Reads(c)
  PROVE  TypeInv'
<1>1. /\ UNCHANGED <<settings, endpointWorkload, fault, seen>>
      /\ OnlyCall(c)
      /\ call[c].at \in Uncounted
      /\ call'[c] \in Working \cup WithResult \cup WithLoad
      /\ call'[c].job = Job(c)
      /\ call'[c].at # "calculating"
      /\ call'[c].at = "calculate" => Job(c).type \in Quick
      /\ Placed(call'[c])
  BY ReadsMove
<1>2. call'[c].at \in Places \cup {"answered"} /\ call[c].at # "new"
  BY <1>1 DEF Working, WithResult, WithLoad, Uncounted, Places
<1>3. \A t \in ECalculationType : c \in Counted(t)' <=> c \in Counted(t)
  <2> DEFINE Early == Job(c).type = "FIBONACCI" /\ Job(c).n < 7
  <2>1. Leaks(c) <=> Early
    BY <1>1, <1>2 DEF Leaks, Uncounted
  <2>2. Leaks(c)' <=> call'[c].at # "calculate" /\ Early
    BY <1>1, <1>2 DEF Leaks, Job, Places
  <2>3. Leaks(c)' <=> Leaks(c)
    BY <1>1, <2>1, <2>2 DEF Quick
  <2>4. /\ ~At(c, "calculating") /\ ~At(c, "calculating")'
        /\ Job(c)' = Job(c)
    BY <1>1 DEF At, Uncounted, Job
  <2> QED
    BY <2>3, <2>4 DEF Counted
<1>4. /\ call' \in [Calls -> New \cup Working \cup WithResult \cup WithLoad]
      /\ PlaceInv'
  BY <1>1, CallChanges DEF TypeInv
<1> QED
  BY <1>1, <1>3, <1>4, SameCounts
     DEF TypeInv, TypeOK, settings, New, Working, WithResult, WithLoad

\* A call that arrives is not counted yet.
LEMMA ReceiveCounts ==
  ASSUME TypeInv, NEW c \in Calls, NEW j \in Jobs, Receive(c, j)
  PROVE  TypeInv'
<1>1. /\ OnlyCall(c) /\ call[c].at = "new"
      /\ call'[c] = [at |-> IF j.type \in {"PRIME", "FIBONACCI"} THEN "calculate"
                            ELSE "frequency", job |-> j]
  BY DEF Receive, OnlyCall, TypeInv, TypeOK, At
<1>2. call'[c] \in Working /\ Placed(call'[c]) /\ call'[c].at # "calculating"
  BY <1>1 DEF Working, Places, Placed, ECalculationType
<1>3. \A t \in ECalculationType : c \in Counted(t)' <=> c \in Counted(t)
  BY <1>1 DEF Counted, At, Leaks, Job
<1>4. /\ call' \in [Calls -> New \cup Working \cup WithResult \cup WithLoad]
      /\ PlaceInv'
  BY <1>1, <1>2, CallChanges DEF TypeInv
<1>5. seen' \in [Calls -> [code : SUBSET Int, freq : SUBSET Int,
                          calculate : SUBSET BOOLEAN, load : SUBSET Nat]]
  <2>1. {endpointWorkload[t] : t \in {u \in ECalculationType : Asks(j, u)}} \in SUBSET Nat
    BY DEF TypeInv, TypeOK
  <2> QED
    BY <2>1 DEF TypeInv, TypeOK, Receive
<1> QED
  BY <1>1, <1>3, <1>4, <1>5, SameCounts
     DEF TypeInv, TypeOK, Receive, settings, New, Working, WithResult, WithLoad

\* The steps of POST /fault.
LEMMA SetCounts ==
  ASSUME TypeInv, NEW f \in Faults, Set(f)
  PROVE  TypeInv'
<1>1. UNCHANGED <<call, endpointWorkload>>
  BY DEF Set, SetResponseCode, SetFrequency, SetShouldCalculate
<1>2. LoadIsCounted' /\ PlaceInv'
  BY <1>1 DEF TypeInv, LoadIsCounted, Counted, PlaceInv, At, Leaks, Job
<1> DEFINE R == [code : SUBSET Int, freq : SUBSET Int,
                 calculate : SUBSET BOOLEAN, load : SUBSET Nat]
<1>3. \A s \in Settings : s.responseCode \in Int /\ s.frequency \in Int
                         /\ s.shouldCalculate \in BOOLEAN
  BY ServiceAssumption
<1>4. fault[f] \in New \cup [at : {"frequency", "switch", "done"}, to : Settings]
  BY DEF TypeInv, TypeOK, New
<1>5. CASE \E s \in Settings : SetResponseCode(f, s)
  <2>1. PICK s \in Settings : SetResponseCode(f, s)
    BY <1>5
  <2>2. responseCode' \in Int
    BY <1>3, <2>1 DEF SetResponseCode
  <2>3. fault' \in [Faults -> New \cup [at : {"frequency", "switch", "done"}, to : Settings]]
    BY <2>1 DEF SetResponseCode, TypeInv, TypeOK, New
  <2>4. \A x \in R : [x EXCEPT !["code"] = @ \cup {responseCode'}] \in R
    BY <2>2
  <2>5. seen' \in [Calls -> R]
    <3>1. \A d \in Calls :
            seen[d] \in R /\ [seen[d] EXCEPT !["code"] = @ \cup {responseCode'}] \in R
      BY <2>4 DEF TypeInv, TypeOK
    <3> QED
      BY <2>1, <3>1 DEF SetResponseCode, Saw
  <2> QED
    BY <1>1, <1>2, <2>1, <2>2, <2>3, <2>5 DEF TypeInv, TypeOK, SetResponseCode, New
<1>6. CASE SetFrequency(f)
  <2>1. fault[f] \in [at : {"frequency", "switch", "done"}, to : Settings]
    BY <1>4, <1>6 DEF SetFrequency, New
  <2>2. frequency' \in Int
    BY <1>3, <1>6, <2>1 DEF SetFrequency
  <2>3. [fault[f] EXCEPT !.at = "switch"]
          \in [at : {"frequency", "switch", "done"}, to : Settings]
    BY <2>1
  <2>4. fault' \in [Faults -> New \cup [at : {"frequency", "switch", "done"}, to : Settings]]
    BY <1>6, <2>3 DEF SetFrequency, TypeInv, TypeOK, New
  <2>5. \A x \in R : [x EXCEPT !["freq"] = @ \cup {frequency'}] \in R
    BY <2>2
  <2>6. seen' \in [Calls -> R]
    <3>1. \A d \in Calls :
            seen[d] \in R /\ [seen[d] EXCEPT !["freq"] = @ \cup {frequency'}] \in R
      BY <2>5 DEF TypeInv, TypeOK
    <3> QED
      BY <1>6, <3>1 DEF SetFrequency, Saw
  <2> QED
    BY <1>1, <1>2, <1>6, <2>2, <2>4, <2>6 DEF TypeInv, TypeOK, SetFrequency, New
<1>7. CASE SetShouldCalculate(f)
  <2>1. fault[f] \in [at : {"frequency", "switch", "done"}, to : Settings]
    BY <1>4, <1>7 DEF SetShouldCalculate, New
  <2>2. shouldCalculate' \in BOOLEAN
    BY <1>3, <1>7, <2>1 DEF SetShouldCalculate
  <2>3. [fault[f] EXCEPT !.at = "done"]
          \in [at : {"frequency", "switch", "done"}, to : Settings]
    BY <2>1
  <2>4. fault' \in [Faults -> New \cup [at : {"frequency", "switch", "done"}, to : Settings]]
    BY <1>7, <2>3 DEF SetShouldCalculate, TypeInv, TypeOK, New
  <2>5. \A x \in R : [x EXCEPT !["calculate"] = @ \cup {shouldCalculate'}] \in R
    BY <2>2
  <2>6. seen' \in [Calls -> R]
    <3>1. \A d \in Calls :
            seen[d] \in R /\ [seen[d] EXCEPT !["calculate"] = @ \cup {shouldCalculate'}] \in R
      BY <2>5 DEF TypeInv, TypeOK
    <3> QED
      BY <1>7, <3>1 DEF SetShouldCalculate, Saw
  <2> QED
    BY <1>1, <1>2, <1>7, <2>2, <2>4, <2>6 DEF TypeInv, TypeOK, SetShouldCalculate, New
<1> QED
  BY <1>5, <1>6, <1>7 DEF Set

\* The inductive step.
LEMMA TypeStep == TypeInv /\ [Next]_vars => TypeInv'
<1> SUFFICES ASSUME TypeInv, [Next]_vars
             PROVE  TypeInv'
  OBVIOUS
<1>1. CASE UNCHANGED vars
  BY <1>1 DEF vars, TypeInv, TypeOK, PlaceInv, LoadIsCounted, Counted, At, Leaks, Job
<1>2. ASSUME NEW c \in Calls, Handle(c)
      PROVE  TypeInv'
  BY <1>2, ReadsCount, IncrementCounts, DecrementCounts DEF Handle, Reads
<1>3. ASSUME NEW c \in Calls, NEW j \in Jobs, Receive(c, j)
      PROVE  TypeInv'
  BY <1>3, ReceiveCounts
<1>4. ASSUME NEW f \in Faults, Set(f)
      PROVE  TypeInv'
  BY <1>4, SetCounts
<1> QED
  BY <1>1, <1>2, <1>3, <1>4 DEF Next

\* At the start no call is counted and all counters are 0.
LEMMA TypeInit == Init => TypeInv
<1> SUFFICES ASSUME Init
             PROVE  TypeInv
  OBVIOUS
<1>1. \A c \in Calls : call[c] = [at |-> "new"]
  BY DEF Init
<1>2. PlaceInv
  BY <1>1 DEF PlaceInv, Placed
<1>3. \A t \in ECalculationType : Counted(t) = {}
  BY <1>1 DEF Counted, At, Leaks
<1>4. LoadIsCounted
  BY <1>3, FS_EmptySet DEF LoadIsCounted, Init
<1>5. TypeOK
  BY <1>1 DEF Init, TypeOK
<1> QED
  BY <1>2, <1>4, <1>5 DEF TypeInv

LEMMA TypeInvariant == Spec => []TypeInv
BY TypeInit, TypeStep, PTL DEF Spec

\* Every reachable state is well-typed: no counter of calls under way, and so no
\* price that rests on one, becomes negative.
THEOREM ServiceTypeCorrect == Spec => []TypeOK
BY TypeInvariant, PTL DEF TypeInv

\* However calls overlap, a counter is the number of the calls of its type that
\* are calculating, and of those of fibonacci that left without lowering it.
THEOREM LoadsAreCounted == Spec => []LoadIsCounted
BY TypeInvariant, PTL DEF TypeInv

\* The counter a price rests on is the number of the calls that are calculating,
\* as long as nobody asks for one of the first elements of fibonacci.  The run
\* calc_idle_load shows what one such call leaves behind.
THEOREM LoadsWithoutFirstElements ==
  ASSUME \A j \in Jobs : j.type = "FIBONACCI" => j.n >= 7
  PROVE  Spec => []WorkloadIsLoad
<1>1. ASSUME TypeInv
      PROVE  WorkloadIsLoad
  <2>1. \A c \in Calls : ~Leaks(c)
    <3> SUFFICES ASSUME NEW c \in Calls, Leaks(c)
                 PROVE  FALSE
      OBVIOUS
    <3>1. Job(c) \in Jobs /\ Job(c).type = "FIBONACCI" /\ Job(c).n < 7
      BY <1>1, CallTyped DEF TypeInv, Leaks, At
    <3>2. Job(c).n \in Int
      BY <3>1, JobTyped DEF ECalculationType
    <3> QED
      BY <3>1, <3>2
  <2>2. \A t \in ECalculationType :
          Counted(t) = {c \in Calls : At(c, "calculating") /\ Job(c).type = t}
    BY <2>1 DEF Counted
  <2> QED
    BY <1>1, <2>2 DEF TypeInv, LoadIsCounted, WorkloadIsLoad
<1> QED
  BY <1>1, TypeInvariant, PTL

-----------------------------------------------------------------------------
(* Answers and settings.                                                   *)

\* What is in force has been seen by the call c that is in flight.
Sees(c) ==
  /\ responseCode \in seen[c].code /\ frequency \in seen[c].freq
  /\ shouldCalculate \in seen[c].calculate
  /\ \A t \in ECalculationType : Asks(Job(c), t) => endpointWorkload[t] \in seen[c].load

\* What the call c has passed was so at some moment of it.
Passed(c) ==
  /\ At(c, "draw") => \E f \in seen[c].freq : f # 0
  /\ call[c].at \in {"switch", "workload"} => 200 \in Allowed(c)
  /\ call[c].at \in {"calculate", "calculating"} /\ Job(c).type \in Quick =>
       200 \in Allowed(c) /\ TRUE \in seen[c].calculate

\* The answer of call c is explained by what was seen during it.
Explained(c) ==
  /\ call[c].code \in Allowed(c) \/ (call[c].code = 500 /\ MayCrash(c))
  /\ Job(c).type # "WORKLOAD" /\ call[c].code = 200 =>
       call[c].result \in seen[c].calculate
  /\ Job(c).type = "WORKLOAD" /\ call[c].code = 200 => call[c].load \in seen[c].load

CallInv(c) ==
  /\ InFlight(c) => Sees(c) /\ Passed(c)
  /\ Answered(c) => Explained(c)

ExplainInv == \A c \in Calls : CallInv(c)

\* A call that does not move stays explained while its history grows.
LEMMA CallRests ==
  ASSUME TypeInv, NEW c \in Calls, CallInv(c), UNCHANGED call[c],
         InFlight(c) => /\ Sees(c)'
                        /\ seen[c].code \subseteq seen'[c].code
                        /\ seen[c].freq \subseteq seen'[c].freq
                        /\ seen[c].calculate \subseteq seen'[c].calculate,
         Answered(c) => UNCHANGED seen[c]
  PROVE  CallInv(c)'
<1>1. /\ InFlight(c)' <=> InFlight(c)
      /\ Answered(c)' <=> Answered(c)
      /\ Job(c)' = Job(c)
  BY DEF InFlight, Answered, At, Job
<1>2. ASSUME InFlight(c)
      PROVE  Sees(c)' /\ Passed(c)'
  <2>1. Allowed(c) \subseteq Allowed(c)'
    BY <1>2 DEF Allowed
  <2> QED
    BY <1>1, <1>2, <2>1 DEF CallInv, Passed, At
<1>3. ASSUME Answered(c)
      PROVE  Explained(c)'
  <2>1. Allowed(c)' = Allowed(c) /\ (MayCrash(c)' <=> MayCrash(c))
    BY <1>1, <1>3 DEF Allowed, MayCrash, MayBeNull
  <2> QED
    BY <1>1, <1>3, <2>1 DEF CallInv, Explained
<1> QED
  BY <1>1, <1>2, <1>3 DEF CallInv

\* The calls that read: what they find has been seen.
LEMMA ReadsExplain ==
  ASSUME TypeInv, ExplainInv, NEW c \in Calls, Reads(c)
  PROVE  ExplainInv'
<1>1. /\ UNCHANGED <<settings, endpointWorkload, fault, seen>>
      /\ OnlyCall(c)
      /\ call[c].at \in Uncounted
      /\ call'[c].job = Job(c)
  BY ReadsMove
<1>2. ASSUME NEW d \in Calls \ {c}
      PROVE  CallInv(d)'
  <2>1. UNCHANGED call[d] /\ UNCHANGED seen[d] /\ (Sees(d) => Sees(d)')
    BY <1>1, <1>2 DEF OnlyCall, TypeInv, TypeOK, Sees, settings, Job
  <2> QED
    BY <2>1, CallRests DEF ExplainInv, CallInv
<1>3. InFlight(c) /\ Sees(c) /\ Passed(c) /\ Job(c) \in Jobs
  BY <1>1, CallTyped DEF ExplainInv, CallInv, Uncounted, TypeInv, Places, At
<1>4. /\ Job(c)' = Job(c) /\ Sees(c)'
      /\ Allowed(c)' = Allowed(c) /\ (MayCrash(c)' <=> MayCrash(c))
  <2>1. Job(c)' = Job(c)
    BY <1>1 DEF Job
  <2> QED
    BY <1>1, <1>3, <2>1 DEF Sees, Allowed, MayCrash, MayBeNull, settings
<1>5. ASSUME call'[c].at \in Places, Passed(c)'
      PROVE  CallInv(c)'
  BY <1>4, <1>5 DEF CallInv, Answered, At, Places
<1>6. ASSUME Answered(c)', Explained(c)'
      PROVE  CallInv(c)'
  BY <1>6 DEF CallInv, InFlight, Answered, At
<1>7. ASSUME NEW place \in Places, Goto(c, place),
             place = "draw" => frequency # 0,
             place \in {"switch", "workload"} => 200 \in Allowed(c),
             place = "calculate" => 200 \in Allowed(c) /\ shouldCalculate,
             place # "calculating"
      PROVE  CallInv(c)'
  <2>1. call'[c] = [at |-> place, job |-> Job(c)]
    BY <1>3, <1>7, GotoMoves DEF TypeInv
  <2>2. Passed(c)'
    <3>1. place = "draw" => \E f \in seen'[c].freq : f # 0
      BY <1>1, <1>3, <1>7 DEF Sees
    <3>2. place = "calculate" => TRUE \in seen'[c].calculate
      <4>1. shouldCalculate \in seen'[c].calculate /\ shouldCalculate \in BOOLEAN
        BY <1>1, <1>3 DEF Sees, TypeInv, TypeOK
      <4> QED
        BY <1>7, <4>1
    <3>3. place \in {"switch", "workload", "calculate"} => 200 \in Allowed(c)'
      BY <1>4, <1>7
    <3> QED
      <4>1. call'[c].at = place
        BY <2>1
      <4>2. place # "calculating"
        BY <1>7
      <4> QED
        BY <3>1, <3>2, <3>3, <4>1, <4>2 DEF Passed, At
  <2> QED
    BY <1>5, <1>7, <2>1, <2>2
<1>8. ASSUME NEW code \in HttpStatuses, NEW result \in BOOLEAN, Answer(c, code, result),
             code \in Allowed(c) \/ (code = 500 /\ MayCrash(c)),
             code = 200 => Job(c).type # "WORKLOAD" /\ result \in seen[c].calculate
      PROVE  CallInv(c)'
  <2>1. call'[c] = [at |-> "answered", job |-> Job(c), code |-> code, result |-> result]
    BY <1>3, <1>8, AnswerAnswers DEF TypeInv
  <2>2. Answered(c)' /\ Explained(c)'
    BY <1>1, <1>4, <1>8, <2>1 DEF Answered, At, Explained
  <2> QED
    BY <1>6, <2>2
<1>9. ASSUME Crash(c), MayCrash(c)
      PROVE  CallInv(c)'
  <2>1. call'[c] = [at |-> "answered", job |-> Job(c), code |-> 500, result |-> FALSE]
    BY <1>3, <1>9, CrashAnswers DEF TypeInv
  <2>2. Answered(c)' /\ Explained(c)'
    BY <1>1, <1>4, <1>9, <2>1 DEF Answered, At, Explained
  <2> QED
    BY <1>6, <2>2
<1>10. ASSUME Goto(c, Proceed(c)), 200 \in Allowed(c)
       PROVE  CallInv(c)'
  BY <1>7, <1>10 DEF Proceed, Places
<1>11. ASSUME TestFrequency(c)
       PROVE  CallInv(c)'
  <2>1. CASE frequency = 0 /\ Goto(c, "code")
    BY <1>7, <2>1 DEF Places
  <2>2. CASE frequency # 0 /\ Goto(c, "draw")
    BY <1>7, <2>2 DEF Places
  <2> QED
    BY <1>11, <2>1, <2>2 DEF TestFrequency
<1>12. ASSUME Draw(c)
       PROVE  CallInv(c)'
  <2>1. At(c, "draw") /\ frequency \in seen[c].freq /\ \E f \in seen[c].freq : f # 0
    BY <1>3, <1>12 DEF Draw, Sees, Passed
  <2>2. CASE frequency <= 0 /\ Crash(c)
    <3>1. MayCrash(c)
      BY <2>1, <2>2 DEF MayCrash, TypeInv, TypeOK
    <3> QED
      BY <1>9, <2>2, <3>1
  <2>3. ASSUME NEW digit \in 1..frequency, Goto(c, "code")
        PROVE  CallInv(c)'
    BY <1>7, <2>3 DEF Places
  <2>4. ASSUME NEW digit \in 1..frequency, ~Hits(digit), Goto(c, Proceed(c))
        PROVE  CallInv(c)'
    <3>1. frequency > 1
      BY <2>4 DEF Hits, TypeInv, TypeOK
    <3>2. 200 \in Allowed(c)
      BY <2>1, <3>1 DEF Allowed
    <3> QED
      BY <1>10, <2>4, <3>2
  <2> QED
    BY <1>12, <2>2, <2>3, <2>4 DEF Draw
<1>13. ASSUME ReadCode(c)
       PROVE  CallInv(c)'
  <2>1. responseCode \in seen[c].code /\ responseCode \in Allowed(c)
    BY <1>3 DEF Sees, Allowed
  <2>2. CASE responseCode = 200
    BY <1>10, <1>13, <2>1, <2>2 DEF ReadCode
  <2>3. CASE responseCode # 200 /\ responseCode \in HttpStatuses
    BY <1>8, <1>13, <2>1, <2>3 DEF ReadCode
  <2>4. CASE responseCode # 200 /\ responseCode \notin HttpStatuses
    BY <1>9, <1>13, <2>1, <2>4 DEF ReadCode, MayCrash
  <2> QED
    BY <2>2, <2>3, <2>4
<1>14. ASSUME ReadSwitch(c)
       PROVE  CallInv(c)'
  <2>1. /\ Job(c).type \in ECalculationType /\ Job(c).type # "WORKLOAD"
        /\ 200 \in Allowed(c) /\ 200 \in HttpStatuses
        /\ shouldCalculate \in seen[c].calculate /\ shouldCalculate \in BOOLEAN
    BY <1>3, <1>14, JobTyped, ServiceAssumption
       DEF ReadSwitch, TypeInv, TypeOK, PlaceInv, Placed, Job, At, Passed, Sees
  <2>2. CASE ~shouldCalculate /\ Answer(c, 200, FALSE)
    <3>1. FALSE \in seen[c].calculate
      BY <2>1, <2>2
    <3> QED
      BY <1>8, <2>1, <2>2, <3>1
  <2>3. CASE shouldCalculate /\ Goto(c, "calculate")
    BY <1>7, <2>1, <2>3 DEF Places
  <2>4. CASE MayBeNull(c) /\ Crash(c)
    BY <1>9, <2>4 DEF MayCrash
  <2>5. CASE shouldCalculate /\ Answer(c, 200, TRUE)
    <3>1. TRUE \in seen[c].calculate
      BY <2>1, <2>5
    <3> QED
      BY <1>8, <2>1, <2>5, <3>1
  <2> QED
    BY <1>14, <2>2, <2>3, <2>4, <2>5 DEF ReadSwitch
<1>15. ASSUME getWorkloadByType(c)
       PROVE  CallInv(c)'
  <2>1. Job(c).type = "WORKLOAD" /\ 200 \in Allowed(c)
    BY <1>3, <1>15 DEF getWorkloadByType, TypeInv, PlaceInv, Placed, Job, At, Passed
  <2>2. CASE Job(c).of \notin ECalculationType
    BY <1>9, <1>15, <2>1, <2>2 DEF getWorkloadByType, MayCrash
  <2>3. CASE Job(c).of \in ECalculationType
    <3>1. call'[c] = [at |-> "answered", job |-> Job(c), code |-> 200,
                      load |-> endpointWorkload[Job(c).of]]
      BY <1>15, <2>3 DEF getWorkloadByType, TypeInv, TypeOK
    <3>2. endpointWorkload[Job(c).of] \in seen[c].load
      BY <1>3, <2>1, <2>3 DEF Sees, Asks
    <3>3. Answered(c)' /\ Explained(c)'
      BY <1>1, <1>4, <2>1, <3>1, <3>2 DEF Answered, At, Explained
    <3> QED
      BY <1>6, <3>3
  <2> QED
    BY <2>2, <2>3
<1>16. CallInv(c)'
  BY <1>11, <1>12, <1>13, <1>14, <1>15 DEF Reads
<1> QED
  BY <1>2, <1>16 DEF ExplainInv

\* A call that arrives sees what is in force.
LEMMA ReceiveExplains ==
  ASSUME TypeInv, ExplainInv, NEW c \in Calls, NEW j \in Jobs, Receive(c, j)
  PROVE  ExplainInv'
<1>1. /\ UNCHANGED <<settings, endpointWorkload>>
      /\ call[c].at = "new" /\ c \in DOMAIN call /\ c \in DOMAIN seen
      /\ \A d \in Calls \ {c} : UNCHANGED <<call[d], seen[d]>>
  BY DEF Receive, At, TypeInv, TypeOK
<1>2. ASSUME NEW d \in Calls \ {c}
      PROVE  CallInv(d)'
  <2>1. UNCHANGED call[d] /\ UNCHANGED seen[d] /\ (Sees(d) => Sees(d)')
    BY <1>1, <1>2 DEF Sees, settings, Job
  <2> QED
    BY <2>1, CallRests DEF ExplainInv, CallInv
<1>3. call'[c] = [at |-> IF j.type \in {"PRIME", "FIBONACCI"} THEN "calculate"
                         ELSE "frequency", job |-> j]
  BY <1>1 DEF Receive
<1>4. seen'[c] = [code |-> {responseCode}, freq |-> {frequency},
                  calculate |-> {shouldCalculate},
                  load |-> {endpointWorkload[t] :
                              t \in {u \in ECalculationType : Asks(j, u)}}]
  BY <1>1 DEF Receive
<1>5. Job(c)' = j /\ ~Answered(c)'
  BY <1>3 DEF Job, Answered, At
<1>6. Sees(c)'
  BY <1>1, <1>4, <1>5 DEF Sees, settings
<1>7. Passed(c)'
  <2>1. /\ call'[c].at \in {"calculate", "frequency"}
        /\ call'[c].at = "calculate" => j.type \notin Quick
    BY <1>3 DEF Quick
  <2> QED
    BY <1>5, <2>1 DEF Passed, At
<1> QED
  BY <1>2, <1>5, <1>6, <1>7 DEF ExplainInv, CallInv

\* The calculation moves the call, and nothing else of the calls.
LEMMA CalculationMoves ==
  ASSUME TypeInv, NEW c \in Calls, Increment(c) \/ Decrement(c)
  PROVE  /\ OnlyCall(c)
         /\ call[c].at \in {"calculate", "calculating"} /\ InFlight(c)
         /\ call'[c].at # "new"
         /\ call'[c].job = Job(c)
<1>1. /\ call[c].at \in {"calculate", "calculating"} /\ InFlight(c)
  BY DEF Increment, Decrement, At, InFlight
<1>2. ASSUME NEW place \in {"calculating", "frequency"}, Goto(c, place)
      PROVE  OnlyCall(c) /\ call'[c].at # "new" /\ call'[c].job = Job(c)
  <2>1. place \in Places
    BY DEF Places
  <2>2. call'[c] = [at |-> place, job |-> Job(c)] /\ OnlyCall(c)
    BY <1>1, <1>2, <2>1, GotoMoves DEF TypeInv
  <2> QED
    BY <2>2
<1>3. ASSUME Answer(c, 200, TRUE)
      PROVE  OnlyCall(c) /\ call'[c].at # "new" /\ call'[c].job = Job(c)
  BY <1>3 DEF Answer, OnlyCall, TypeInv, TypeOK
<1> QED
  BY <1>1, <1>2, <1>3 DEF Increment, Decrement

\* While a call calculates, those that ask for its counter see it change.
LEMMA CalculatesExplain ==
  ASSUME TypeInv, ExplainInv, NEW c \in Calls, Increment(c) \/ Decrement(c)
  PROVE  ExplainInv'
<1>0. PICK type : type = Job(c).type
  OBVIOUS
<1>1. /\ UNCHANGED settings /\ SawLoad(type)
      /\ call[c].at \in {"calculate", "calculating"} /\ InFlight(c)
      /\ \A t \in ECalculationType \ {type} : UNCHANGED endpointWorkload[t]
  <2>1. call[c].at \in {"calculate", "calculating"} /\ type \in ECalculationType
    BY <1>0 DEF Increment, Decrement, At, TypeInv, PlaceInv, Placed, Job
  <2>2. CASE Increment(c)
    BY <1>0, <2>1, <2>2 DEF Increment, InFlight, TypeInv, TypeOK
  <2>3. CASE Decrement(c)
    BY <1>0, <2>1, <2>3 DEF Decrement, Finished, InFlight, TypeInv, TypeOK
  <2> QED
    BY <2>2, <2>3
<1>2. ASSUME NEW d \in Calls
      PROVE  /\ seen'[d].code = seen[d].code /\ seen'[d].freq = seen[d].freq
             /\ seen'[d].calculate = seen[d].calculate
             /\ ~InFlight(d) => UNCHANGED seen[d]
             /\ seen[d].load \subseteq seen'[d].load
             /\ InFlight(d) /\ Asks(Job(d), type) =>
                  endpointWorkload'[type] \in seen'[d].load
  <2>1. seen[d] \in [code : SUBSET Int, freq : SUBSET Int,
                    calculate : SUBSET BOOLEAN, load : SUBSET Nat]
    BY DEF TypeInv, TypeOK
  <2> QED
    BY <1>1, <2>1 DEF SawLoad
<1>3. ASSUME NEW d \in Calls, InFlight(d), Job(d)' = Job(d)
      PROVE  Sees(d)'
  BY <1>1, <1>2, <1>3 DEF Sees, settings, ExplainInv, CallInv, Asks
<1>4. OnlyCall(c)
  BY CalculationMoves
<1>5. ASSUME NEW d \in Calls \ {c}
      PROVE  CallInv(d)'
  <2>1. UNCHANGED call[d] /\ Job(d)' = Job(d) /\ ~(Answered(d) /\ InFlight(d))
    BY <1>4 DEF OnlyCall, TypeInv, TypeOK, Job, Answered, InFlight, At
  <2> QED
    BY <1>2, <1>3, <2>1, CallRests DEF ExplainInv
<1>6. CallInv(c)'
  <2>1. Passed(c) /\ Allowed(c)' = Allowed(c)
    BY <1>1, <1>2 DEF ExplainInv, CallInv, Allowed
  <2>2. ASSUME NEW place \in {"calculating", "frequency"}, Goto(c, place),
               place = "calculating" => call[c].at = "calculate"
        PROVE  CallInv(c)'
    <3>1. call'[c] = [at |-> place, job |-> Job(c)]
      BY <1>1, <2>2, GotoMoves DEF TypeInv, Places
    <3>2. Job(c)' = Job(c) /\ ~Answered(c)'
      BY <3>1 DEF Job, Answered, At
    <3>3. Passed(c)'
      <4>1. call'[c].at = place /\ seen'[c].calculate = seen[c].calculate
        BY <1>2, <3>1
      <4>2. CASE place = "frequency"
        BY <3>2, <4>1, <4>2 DEF Passed, At
      <4>3. CASE place = "calculating"
        <5>1. call[c].at = "calculate"
          BY <2>2, <4>3
        <5> QED
          BY <2>1, <3>2, <4>1, <4>3, <5>1 DEF Passed, At
      <4> QED
        BY <2>2, <4>2, <4>3
    <3> QED
      BY <1>1, <1>3, <3>2, <3>3 DEF CallInv
  <2>3. ASSUME Answer(c, 200, TRUE), type \in Quick
        PROVE  CallInv(c)'
    <3>1. call'[c] = [at |-> "answered", job |-> Job(c), code |-> 200, result |-> TRUE]
      BY <1>1, <2>3 DEF TypeInv, TypeOK, Answer
    <3>2. 200 \in Allowed(c)' /\ TRUE \in seen'[c].calculate
      BY <1>0, <1>1, <1>2, <2>1, <2>3 DEF Passed
    <3>3. Job(c)' = Job(c) /\ type # "WORKLOAD"
      BY <2>3, <3>1 DEF Job, Quick
    <3> QED
      <4>1. Answered(c)' /\ ~InFlight(c)'
        BY <3>1 DEF InFlight, Answered, At
      <4>2. /\ call'[c].code = 200 /\ call'[c].result = TRUE
            /\ Job(c)'.type # "WORKLOAD"
        BY <1>0, <3>1, <3>3
      <4>3. Explained(c)'
        BY <3>2, <4>2 DEF Explained
      <4> QED
        BY <4>1, <4>3 DEF CallInv
  <2>4. CASE Increment(c)
    BY <2>2, <2>4 DEF Increment, At
  <2>5. CASE Decrement(c)
    BY <1>0, <2>2, <2>3, <2>5 DEF Decrement
  <2> QED
    BY <2>4, <2>5
<1> QED
  BY <1>5, <1>6 DEF ExplainInv

\* What POST /fault writes is seen by all calls in flight.
LEMMA SetExplains ==
  ASSUME TypeInv, ExplainInv, NEW f \in Faults, Set(f)
  PROVE  ExplainInv'
<1>1. UNCHANGED <<call, endpointWorkload>>
  BY DEF Set, SetResponseCode, SetFrequency, SetShouldCalculate
<1>2. \A c \in Calls : seen[c] \in [code : SUBSET Int, freq : SUBSET Int,
                                   calculate : SUBSET BOOLEAN, load : SUBSET Nat]
  BY DEF TypeInv, TypeOK
<1>3. SUFFICES ASSUME NEW c \in Calls
               PROVE  CallInv(c)'
  BY DEF ExplainInv
<1>4. /\ InFlight(c) => /\ responseCode' \in seen'[c].code
                        /\ frequency' \in seen'[c].freq
                        /\ shouldCalculate' \in seen'[c].calculate
                        /\ seen[c].code \subseteq seen'[c].code
                        /\ seen[c].freq \subseteq seen'[c].freq
                        /\ seen[c].calculate \subseteq seen'[c].calculate
                        /\ seen'[c].load = seen[c].load
      /\ ~InFlight(c) => UNCHANGED seen[c]
  <2>1. InFlight(c) => Sees(c)
    BY DEF ExplainInv, CallInv
  <2>2. CASE \E s \in Settings : SetResponseCode(f, s)
    BY <1>2, <2>1, <2>2 DEF SetResponseCode, Saw, Sees
  <2>3. CASE SetFrequency(f)
    BY <1>2, <2>1, <2>3 DEF SetFrequency, Saw, Sees
  <2>4. CASE SetShouldCalculate(f)
    BY <1>2, <2>1, <2>4 DEF SetShouldCalculate, Saw, Sees
  <2> QED
    BY <2>2, <2>3, <2>4 DEF Set
<1>5. Answered(c) => UNCHANGED seen[c]
  BY <1>4 DEF Answered, InFlight, At
<1>6. Job(c)' = Job(c) /\ UNCHANGED call[c]
  BY <1>1 DEF Job
<1>7. InFlight(c) => Sees(c)'
  BY <1>1, <1>4, <1>6 DEF Sees, ExplainInv, CallInv
<1> QED
  BY <1>4, <1>5, <1>6, <1>7, CallRests DEF ExplainInv

\* The inductive step, and the invariant.
LEMMA ExplainStep == TypeInv /\ ExplainInv /\ [Next]_vars => ExplainInv'
<1> SUFFICES ASSUME TypeInv, ExplainInv, [Next]_vars
             PROVE  ExplainInv'
  OBVIOUS
<1>1. CASE UNCHANGED vars
  <2>1. ASSUME NEW c \in Calls
        PROVE  CallInv(c)'
    <3>1. /\ UNCHANGED <<call[c], seen[c], responseCode, frequency, shouldCalculate>>
          /\ UNCHANGED <<endpointWorkload>>
      BY <1>1 DEF vars
    <3>2. Sees(c) => Sees(c)'
      BY <3>1 DEF Sees, Job
    <3> QED
      BY <3>1, <3>2, CallRests DEF ExplainInv, CallInv
  <2> QED
    BY <2>1 DEF ExplainInv
<1>2. ASSUME NEW c \in Calls, Handle(c)
      PROVE  ExplainInv'
  BY <1>2, ReadsExplain, CalculatesExplain DEF Handle, Reads
<1>3. ASSUME NEW c \in Calls, NEW j \in Jobs, Receive(c, j)
      PROVE  ExplainInv'
  BY <1>3, ReceiveExplains
<1>4. ASSUME NEW f \in Faults, Set(f)
      PROVE  ExplainInv'
  BY <1>4, SetExplains
<1> QED
  BY <1>1, <1>2, <1>3, <1>4 DEF Next

LEMMA ExplainInit == Init => ExplainInv
BY DEF Init, ExplainInv, CallInv, InFlight, Answered, At

LEMMA ExplainInvariant == Spec => []ExplainInv
BY ExplainInit, ExplainStep, TypeInvariant, PTL DEF Spec

LEMMA ExplainImplies == ExplainInv => AnswersExplained /\ SwitchRespected
BY DEF ExplainInv, CallInv, Explained, AnswersExplained, SwitchRespected

\* No call is answered with a status that the settings in force during it do not
\* give, however the writes of any number of /fault calls mix.
THEOREM AnswersAreExplained == Spec => []AnswersExplained
BY ExplainInvariant, ExplainImplies, PTL

\* A result is sent only if calculations were switched on during the call, a 200
\* without one only if they were switched off.
THEOREM SwitchIsRespected == Spec => []SwitchRespected
BY ExplainInvariant, ExplainImplies, PTL
=============================================================================
