\* Three signers of a form with two text fields and two signature fields.
CONSTANTS
  t1 = t1  t2 = t2  s1 = s1  s2 = s2  NoName = NoName
  TextFields = {t1, t2}
  SigFields = {s1, s2}
  Nested = {t2, s2}
  OwnTitle <- Counted
  XrefTypes = {"table", "stream"}
  Estimates = {2}
  Containers = {1, 2, 3}
  MaxRevisions = 2
SPECIFICATION Spec
INVARIANTS RevisionTypeOK NewestFound FreshNumbers RangesExact FieldsKept UniqueTitles
PROPERTIES InputKept ImplementsForm
\* A document of MaxRevisions updates is not signed again.
CHECK_DEADLOCK FALSE
