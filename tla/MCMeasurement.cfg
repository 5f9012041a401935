SPECIFICATION FairSpec
CONSTANTS
  Request = {r1, r2, r3, r4}
  Capacity = 2
INVARIANTS TypeOK PendingIsServed OutstandingBounded SameAnswer
PROPERTY RequestsEnd
CHECK_DEADLOCK FALSE
