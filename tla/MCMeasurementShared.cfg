SPECIFICATION Spec
CONSTANTS
  Request = {r1, r2}
  Capacity = 2
INVARIANT OthersAnswered
CHECK_DEADLOCK FALSE
