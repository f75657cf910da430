\* Three concurrent calls, two sessions, two owners, one session per owner.
CONSTANTS
  c1 = c1  c2 = c2  c3 = c3
  t1 = t1  t2 = t2
  alice = alice  bob = bob
  Caller = {c1, c2, c3}
  Owner = {alice, bob}
  Token = {t1, t2}
  MaxPerOwner = 1
  NoOwner = NoOwner  NoToken = NoToken  Janitor = Janitor
  Oversize = TRUE
  Starvation = TRUE
SPECIFICATION Spec
SYMMETRY Symmetry
INVARIANTS TypeOK ChannelSafety NobodyStranded Custody ReservationsExact StoredWithinQuota
  WorkersWithinQuota
PROPERTY ImplementsPromise
\* An idle server with all its tokens used up stops.
CHECK_DEADLOCK FALSE
