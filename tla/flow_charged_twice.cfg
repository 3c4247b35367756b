SPECIFICATION Spec
CONSTANTS
  tom = tom
  r1 = r1
  r2 = r2
  Users = {tom}
  Fractional = Fractional
  Malformed = Malformed
  Requests = {r1, r2}
  Bodies <- Calculations
  Opening <- TomHas2
  Attempts = 2
  Timeouts = FALSE
  Restarts = FALSE
  CalcCodes = {200, 502}
INVARIANT AppliedOnce
CHECK_DEADLOCK FALSE
