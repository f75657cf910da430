\* Two items, two sessions, two concurrent requests, crashes at any point.
CONSTANTS
  h1 = h1  h2 = h2
  t1 = t1  t2 = t2
  i1 = i1  i2 = i2
  Handler = {h1, h2}
  Token = {t1, t2}
  Owner = {i1, i2}
  MaxPerOwner = 0
  NoOwner = NoOwner  Janitor = Janitor  NoFile = NoFile  Partial = Partial
  Samples = {i1}
  Crashes = TRUE
SPECIFICATION FairSpec
INVARIANTS AppTypeOK LockHasOneHolder SignedIsGenuine SourceKept ListingComplete
PROPERTY LocksReleased
\* An idle server with all its tokens used up stops.
CHECK_DEADLOCK FALSE
