\* One call completes a session whose signature container is oversize.
CONSTANTS
  c1 = c1
  t1 = t1
  alice = alice
  Caller = {c1}
  Owner = {alice}
  Token = {t1}
  MaxPerOwner = 1
  NoOwner = NoOwner  NoToken = NoToken  Janitor = Janitor
  Oversize = TRUE
  Starvation = FALSE
SPECIFICATION ResponsiveTSASpec
PROPERTY ErrorClosesSession
