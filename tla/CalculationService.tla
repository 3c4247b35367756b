------------------------- MODULE CalculationService -------------------------
(***************************************************************************)
(* The REST layer of the distributed calculation service                   *)
(* (RestController.java) and the workload counters behind it               *)
(* (Controller.java).  POST /fault sets three fields that decide how the   *)
(* calls are answered; the calls read them, one at a time and without a    *)
(* lock, while others are being answered and other /fault calls write.     *)
(*                                                                         *)
(* The fourth field, timeout, taken to be at least 0, only delays a call,  *)
(* which every interleaving here allows anyway.                            *)
(***************************************************************************)
EXTENDS Integers, FiniteSets

CONSTANTS
  Calls,         \* the calls of the calculation endpoints
  Jobs,          \* what a call asks: [type, n], or the workload [type, of]
  Faults,        \* the calls of /fault
  Settings,      \* their parameters: [responseCode, frequency, shouldCalculate]
  HttpStatuses   \* the codes that HttpStatus.valueOf knows

ECalculationType == {"ADD", "MULTIPLY", "FIBONACCI", "PRIME"}
Quick == {"ADD", "MULTIPLY"}

ASSUME ServiceAssumption ==
  /\ IsFiniteSet(Calls)
  /\ \A j \in Jobs : \/ j.type \in ECalculationType /\ j.n \in Int
                     \/ j = [type |-> "WORKLOAD", of |-> j.of]
  /\ \A s \in Settings : /\ s.responseCode \in Int /\ s.frequency \in Int
                         /\ s.shouldCalculate \in BOOLEAN
  /\ {200, 500} \subseteq HttpStatuses /\ HttpStatuses \subseteq Int

VARIABLES
  responseCode, frequency, shouldCalculate,   \* the fields of the controller
  endpointWorkload,   \* the counter of each type
  call,               \* call[c]: the job, the place in its handler, the answer
  fault,              \* fault[f]: the parameters and the place in the handler
  seen                \* history: the values of the fields, and of the counter
                      \* that is asked for, during each call

settings == <<responseCode, frequency, shouldCalculate>>
vars == <<responseCode, frequency, shouldCalculate, endpointWorkload, call,
          fault, seen>>

Init ==
  /\ responseCode = 200 /\ frequency = 0 /\ shouldCalculate = TRUE
  /\ endpointWorkload = [t \in ECalculationType |-> 0]
  /\ call = [c \in Calls |-> [at |-> "new"]]
  /\ fault = [f \in Faults |-> [at |-> "new"]]
  /\ seen = [c \in Calls |-> [code |-> {}, freq |-> {}, calculate |-> {}, load |-> {}]]

-----------------------------------------------------------------------------
(* The calculation endpoints.                                              *)

Job(c) == call[c].job
At(c, place) == call[c].at = place
InFlight(c) == call[c].at \notin {"new", "answered"}

Goto(c, place) == call' = [call EXCEPT ![c].at = place]

\* The answer: a status and whether the result of the calculation is in it.
Answer(c, code, result) ==
  call' = [call EXCEPT ![c] =
    [at |-> "answered", job |-> Job(c), code |-> code, result |-> result]]

\* An exception that no handler catches.
Crash(c) == Answer(c, 500, FALSE)

\* getWorkloadByType upper-cases its argument; valueOf throws if there is no
\* such type.
Asks(j, t) == j.type = "WORKLOAD" /\ j.of = t /\ t \in ECalculationType

\* prime and fibonacci look at the settings after they have calculated, the
\* others before.
Receive(c, j) ==
  /\ At(c, "new")
  /\ call' = [call EXCEPT ![c] =
       [at |-> IF j.type \in {"PRIME", "FIBONACCI"} THEN "calculate" ELSE "frequency",
        job |-> j]]
  /\ seen' = [seen EXCEPT ![c] =
       [code |-> {responseCode}, freq |-> {frequency},
        calculate |-> {shouldCalculate},
        load |-> {endpointWorkload[t] : t \in {u \in ECalculationType : Asks(j, u)}}]]
  /\ UNCHANGED <<settings, endpointWorkload, fault>>

\* A mutant of TestFrequency: a digit is drawn even if the frequency is 0.
AlwaysDraw(c) ==
  /\ At(c, "frequency")
  /\ Goto(c, "draw")
  /\ UNCHANGED <<settings, endpointWorkload, fault, seen>>

\* getResponseCode tests the frequency ...
TestFrequency(c) ==
  /\ At(c, "frequency")
  /\ Goto(c, IF frequency = 0 THEN "code" ELSE "draw")
  /\ UNCHANGED <<settings, endpointWorkload, fault, seen>>

\* What follows a response code of 200.
Proceed(c) == IF Job(c).type = "WORKLOAD" THEN "workload" ELSE "switch"

Hits(digit) == digit = 1

\* ... reads it again to draw a digit, which nextInt refuses to do below 1 ...
Draw(c) ==
  /\ At(c, "draw")
  /\ \/ frequency <= 0 /\ Crash(c)
     \/ \E digit \in 1..frequency :
          Goto(c, IF Hits(digit) THEN "code" ELSE Proceed(c))
  /\ UNCHANGED <<settings, endpointWorkload, fault, seen>>

\* ... and returns the response code; any other than 200 is the answer.
ReadCode(c) ==
  /\ At(c, "code")
  /\ IF responseCode = 200 THEN Goto(c, Proceed(c))
     ELSE IF responseCode \in HttpStatuses THEN Answer(c, responseCode, FALSE)
     ELSE Crash(c)
  /\ UNCHANGED <<settings, endpointWorkload, fault, seen>>

\* fibonacci returns null for a negative n, and for an n above 12 if its threads
\* have lost entries of their map (module FibonacciWorkers).
MayBeNull(c) == Job(c).type = "FIBONACCI" /\ (Job(c).n < 0 \/ Job(c).n > 12)
MayBeNumber(c) == Job(c).type = "FIBONACCI" => Job(c).n >= 0

\* A mutant of ReadSwitch: only prime and fibonacci look at shouldCalculate.
QuickAlwaysCalculate(c) ==
  /\ At(c, "switch")
  /\ IF Job(c).type \in Quick THEN Goto(c, "calculate")
     ELSE IF ~shouldCalculate THEN Answer(c, 200, FALSE)
     ELSE \/ MayBeNull(c) /\ Crash(c)
          \/ MayBeNumber(c) /\ Answer(c, 200, TRUE)
  /\ UNCHANGED <<settings, endpointWorkload, fault, seen>>

\* toString of a result that is null throws.
ReadSwitch(c) ==
  /\ At(c, "switch")
  /\ IF ~shouldCalculate THEN Answer(c, 200, FALSE)
     ELSE IF Job(c).type \in Quick THEN Goto(c, "calculate")
     ELSE \/ MayBeNull(c) /\ Crash(c)
          \/ MayBeNumber(c) /\ Answer(c, 200, TRUE)
  /\ UNCHANGED <<settings, endpointWorkload, fault, seen>>

\* A mutant of getWorkloadByType: every type is answered with the counter of
\* fibonacci.
WorkloadOfFibonacci(c) ==
  /\ At(c, "workload")
  /\ IF Job(c).of \in ECalculationType
       THEN call' = [call EXCEPT ![c] =
              [at |-> "answered", job |-> Job(c), code |-> 200,
               load |-> endpointWorkload["FIBONACCI"]]]
       ELSE Crash(c)
  /\ UNCHANGED <<settings, endpointWorkload, fault, seen>>

\* The workload is read whether calculations are switched on or not.
getWorkloadByType(c) ==
  /\ At(c, "workload")
  /\ IF Job(c).of \in ECalculationType
       THEN call' = [call EXCEPT ![c] =
              [at |-> "answered", job |-> Job(c), code |-> 200,
               load |-> endpointWorkload[Job(c).of]]]
       ELSE Crash(c)
  /\ UNCHANGED <<settings, endpointWorkload, fault, seen>>

\* The calls in flight that ask for the counter of type t see its new value.
SawLoad(t) ==
  seen' = [c \in Calls |->
    IF InFlight(c) /\ Asks(Job(c), t)
      THEN [seen[c] EXCEPT !.load = @ \cup {endpointWorkload'[t]}] ELSE seen[c]]

Increment(c) ==
  /\ At(c, "calculate")
  /\ endpointWorkload' = [endpointWorkload EXCEPT ![Job(c).type] = @ + 1]
  /\ SawLoad(Job(c).type)
  /\ Goto(c, "calculating")
  /\ UNCHANGED <<settings, fault>>

\* A mutant of Finished: add lowers the counter of multiply.
FinishedMultiply(c) ==
  LET type == IF Job(c).type = "ADD" THEN "MULTIPLY" ELSE Job(c).type
  IN  [endpointWorkload EXCEPT ![type] = @ - 1]

\* A mutant of Finished: the counter is cleared.
FinishedCleared(c) ==
  IF Job(c).type = "FIBONACCI" /\ Job(c).n < 7
    THEN endpointWorkload
    ELSE [endpointWorkload EXCEPT ![Job(c).type] = 0]

\* The first elements of fibonacci are returned before the counter is lowered.
Finished(c) ==
  IF Job(c).type = "FIBONACCI" /\ Job(c).n < 7
    THEN endpointWorkload
    ELSE [endpointWorkload EXCEPT ![Job(c).type] = @ - 1]

Decrement(c) ==
  /\ At(c, "calculating")
  /\ endpointWorkload' = Finished(c)
  /\ SawLoad(Job(c).type)
  /\ IF Job(c).type \in Quick THEN Answer(c, 200, TRUE) ELSE Goto(c, "frequency")
  /\ UNCHANGED <<settings, fault>>

-----------------------------------------------------------------------------
(* POST /fault.                                                            *)

\* The calls in flight see the value v in the field.
Saw(field, v) ==
  seen' = [c \in Calls |->
    IF InFlight(c) THEN [seen[c] EXCEPT ![field] = @ \cup {v}] ELSE seen[c]]

SetResponseCode(f, s) ==
  /\ fault[f].at = "new"
  /\ responseCode' = s.responseCode
  /\ Saw("code", responseCode')
  /\ fault' = [fault EXCEPT ![f] = [at |-> "frequency", to |-> s]]
  /\ UNCHANGED <<frequency, shouldCalculate, endpointWorkload, call>>

SetFrequency(f) ==
  /\ fault[f].at = "frequency"
  /\ frequency' = fault[f].to.frequency
  /\ Saw("freq", frequency')
  /\ fault' = [fault EXCEPT ![f].at = "switch"]
  /\ UNCHANGED <<responseCode, shouldCalculate, endpointWorkload, call>>

SetShouldCalculate(f) ==
  /\ fault[f].at = "switch"
  /\ shouldCalculate' = fault[f].to.shouldCalculate
  /\ Saw("calculate", shouldCalculate')
  /\ fault' = [fault EXCEPT ![f].at = "done"]
  /\ UNCHANGED <<responseCode, frequency, endpointWorkload, call>>

-----------------------------------------------------------------------------

Handle(c) ==
  \/ TestFrequency(c) \/ Draw(c) \/ ReadCode(c) \/ ReadSwitch(c)
  \/ Increment(c) \/ Decrement(c) \/ getWorkloadByType(c)

Set(f) ==
  \/ \E s \in Settings : SetResponseCode(f, s)
  \/ SetFrequency(f) \/ SetShouldCalculate(f)

Next ==
  \/ \E c \in Calls : Handle(c) \/ \E j \in Jobs : Receive(c, j)
  \/ \E f \in Faults : Set(f)

Spec == Init /\ [][Next]_vars

-----------------------------------------------------------------------------

Places ==
  {"frequency", "draw", "code", "switch", "workload", "calculate", "calculating"}

\* The fields and the handlers keep their types.
TypeOK ==
  /\ responseCode \in Int /\ frequency \in Int /\ shouldCalculate \in BOOLEAN
  /\ endpointWorkload \in [ECalculationType -> Nat]
  /\ call \in [Calls ->
       [at : {"new"}] \cup [at : Places, job : Jobs]
       \cup [at : {"answered"}, job : Jobs, code : HttpStatuses, result : BOOLEAN]
       \cup [at : {"answered"}, job : Jobs, code : {200}, load : Nat]]
  /\ fault \in [Faults ->
       [at : {"new"}] \cup [at : {"frequency", "switch", "done"}, to : Settings]]
  /\ seen \in [Calls -> [code : SUBSET Int, freq : SUBSET Int,
                         calculate : SUBSET BOOLEAN, load : SUBSET Nat]]

\* "A price for a calculation is based on the workload of each distributed
\* calculation service instance": the counter of a type is the number of its
\* calls that are calculating.
WorkloadIsLoad ==
  \A t \in ECalculationType :
    endpointWorkload[t] =
      Cardinality({c \in Calls : At(c, "calculating") /\ Job(c).type = t})

\* The call of fibonacci has been given one of its first elements.
Leaks(c) ==
  /\ call[c].at \notin {"new", "calculate", "calculating"}
  /\ Job(c).type = "FIBONACCI" /\ Job(c).n < 7

\* The calls of type t that the counter of t has counted.
Counted(t) ==
  {c \in Calls : (At(c, "calculating") \/ Leaks(c)) /\ Job(c).type = t}

\* The counters that the prices rest on: however calls overlap, nothing but the
\* first elements of fibonacci makes a counter differ from the number of calls
\* that are calculating, and it never falls behind it.
LoadIsCounted ==
  \A t \in ECalculationType : endpointWorkload[t] = Cardinality(Counted(t))

Answered(c) == At(c, "answered")

\* The statuses that the settings in force during call c allow.
Allowed(c) ==
  seen[c].code \cup (IF \E f \in seen[c].freq : f > 1 THEN {200} ELSE {})

\* The crashes that the handlers do not catch: a status that does not exist, a
\* frequency that is negative or turned 0 during the call, a fibonacci number that
\* may be null, a type that does not exist.
MayCrash(c) ==
  \/ ~(seen[c].code \subseteq HttpStatuses)
  \/ \E f \in seen[c].freq : f < 0
  \/ 0 \in seen[c].freq /\ seen[c].freq # {0}
  \/ MayBeNull(c)
  \/ Job(c).type = "WORKLOAD" /\ Job(c).of \notin ECalculationType

\* Every answer follows from settings that were in force during the call,
\* however the writes of overlapping /fault calls mix: no call is answered by
\* settings that were replaced before it began.
AnswersExplained ==
  \A c \in Calls :
    Answered(c) => call[c].code \in Allowed(c) \/ (call[c].code = 500 /\ MayCrash(c))

\* A result is only sent, and add and multiply only calculate, if calculations
\* were switched on at some moment of the call; a 200 without a result is only
\* sent if they were switched off.
SwitchRespected ==
  \A c \in Calls :
    Answered(c) /\ Job(c).type # "WORKLOAD" /\ call[c].code = 200 =>
      call[c].result \in seen[c].calculate
=============================================================================
