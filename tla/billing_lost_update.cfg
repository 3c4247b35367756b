SPECIFICATION Spec
CONSTANTS
  tom = tom
  NoUser = NoUser
  Users = {tom, NoUser}
  h1 = h1
  h2 = h2
  Handlers = {h1, h2}
  NotANumber = NotANumber
  Missing = Missing
  Amounts <- FewAmounts
  Overlap = TRUE
  MaxRequests = 4
PROPERTY ChargeDebits
