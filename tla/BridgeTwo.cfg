\* A page that called createNativeBridge twice.
CONSTANTS
  b1 = b1  b2 = b2  c1 = c1  c2 = c2  q1 = q1  q2 = q2
  NoQuery = NoQuery
  Instance = {b1, b2}
  Caller = {c1, c2}
  Query = {q1, q2}
  MaxCalls = 1
SPECIFICATION BoundedSpec
INVARIANT OwnAnswers
