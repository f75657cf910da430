\* One start reads the document while another request is still signing it.
CONSTANTS
  h1 = h1  h2 = h2
  t1 = t1  t2 = t2
  i1 = i1
  Handler = {h1, h2}
  Token = {t1, t2}
  Owner = {i1}
  MaxPerOwner = 0
  NoOwner = NoOwner  Janitor = Janitor  NoFile = NoFile  Partial = Partial
  Samples = {i1}
  Crashes = FALSE
SPECIFICATION Spec
INVARIANT PublishRetiresPending
