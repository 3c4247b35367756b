SPECIFICATION Spec
CONSTANTS
  A = A
  B = B
  C = C
  add = add
  prime = prime
  billing = billing
  odd = odd
  maxAttempts = 3
  Services = {add, prime}
  Url <- OneUrl
  Malformed = {}
  Calculations = {add, prime}
  Workloads = {}
  Callers = {t1}
  LostCalls = 0
  Failing = {A}
  MaxEntries = 3
INVARIANT GrantedIsListed
