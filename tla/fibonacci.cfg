SPECIFICATION Spec
CONSTANTS
  Null = Null
  MaxElement = 31
  Elements <- SomeElements
  Fib <- FibonacciNumbers
INVARIANTS
  TypeOK
  RightUnlessLost
  MapStaysSmall
PROPERTY FibReturns
