\* Two callers, two sessions of one owner; the TSA may never answer.
CONSTANTS
  c1 = c1  c2 = c2
  t1 = t1  t2 = t2
  alice = alice
  Caller = {c1, c2}
  Owner = {alice}
  Token = {t1, t2}
  MaxPerOwner = 1
  NoOwner = NoOwner  NoToken = NoToken  Janitor = Janitor
  Oversize = TRUE
  Starvation = TRUE
SPECIFICATION FairSpec
PROPERTIES CallsReturn SessionsEnd WorkersEnd
\* An idle server with all its tokens used up stops.
CHECK_DEADLOCK FALSE
