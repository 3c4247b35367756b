SPECIFICATION Spec
CONSTANTS
  Limits <- SmallLimits
  THREADS = 3
  MaxInt = 13
INVARIANTS
  TypeOK
  NoDuplicates
  OnlyPrimes
  NoneMissing
  NothingWraps
PROPERTY Returns
CHECK_DEADLOCK FALSE
