SPECIFICATION Spec
CONSTANTS
  tom = tom
  r1 = r1
  r2 = r2
  Users = {tom}
  Fractional = Fractional
  Malformed = Malformed
  Requests = {r1, r2}
  Bodies <- AllBodies
  Opening <- TomHas1
  Attempts = 1
  Timeouts = TRUE
  Restarts = TRUE
  CalcCodes = {200, 500, 502}
INVARIANTS
  TypeOK
  PaidBeforeExecuted
  SuccessIsPaid
  Solvent
  RepeatsExplained
PROPERTY EveryRequestAnswered
