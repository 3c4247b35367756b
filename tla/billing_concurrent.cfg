SPECIFICATION Spec
CONSTANTS
  tom = tom
  NoUser = NoUser
  Users = {tom, NoUser}
  h1 = h1
  h2 = h2
  Handlers = {h1, h2}
  NotANumber = NotANumber
  Missing = Missing
  Amounts <- AllAmounts
  Overlap = TRUE
  MaxRequests = 4
INVARIANTS
  TypeOK
  NoMoneyCreated
  RepliesTruthful
SYMMETRY HandlerSymmetry
