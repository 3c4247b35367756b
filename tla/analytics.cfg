SPECIFICATION AnalyticsSpec
CHECK_DEADLOCK FALSE
CONSTANTS
  HttpStatuses <- Statuses
  Calls = {c1, c2, q1}
  Requests = {q1}
  Versions = {v1, v1_1}
  Functions <- Asked
  Missing = Missing
  Noise <- Extremes
  Jobs <- MixedJobs
  Faults = {f1, f2}
  Settings <- AllSettings
INVARIANTS
  TypeOK
  LoadIsCounted
  AnswersExplained
  SwitchRespected
  ReplyTypeOK
  PricesExplained
  FailuresExplained
CONSTRAINT TwoOrChanges
SYMMETRY CallSymmetry
