\* A signature with much room to spare, then one that needs less room.
CONSTANTS
  s1 = s1  NoName = NoName
  TextFields = {}
  SigFields = {s1}
  Nested = {}
  OwnTitle <- Counted
  XrefTypes = {"table"}
  Estimates = {2, 3}
  Containers = {1}
  MaxRevisions = 2
SPECIFICATION Spec
INVARIANT OwnContents
