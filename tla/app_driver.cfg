SPECIFICATION Spec
CHECK_DEADLOCK FALSE
CONSTANTS
  ruslan = ruslan
  ivan = ivan
  None = None
  users <- TwoUsers
  StopValues <- AllStopValues
  Sims = {s1, s2, s3}
  InTime = 1
  MaxRounds = 6
  MaxStops = 2
INVARIANTS
  TypeOK
  StopHeeded
PROPERTY EverySimulationEnds
