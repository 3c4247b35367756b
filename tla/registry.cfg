SPECIFICATION Spec
CONSTANTS
  A = A
  B = B
  C = C
  add = add
  prime = prime
  billing = billing
  odd = odd
  maxAttempts = 2
  Services = {add, billing, odd}
  Url <- OwnUrls
  Malformed = {C}
  Calculations = {add}
  Workloads = {1}
  Callers = {t1, t2}
  LostCalls = 1
  Failing = {A}
  MaxEntries = 3
INVARIANTS
  TypeOK
  ListedIsRecognised
PROPERTIES
  SteadyStays
  DeadAreRemoved
