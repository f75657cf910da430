\* A form whose one signature field is called "Signature 2" gets another one.
CONSTANTS
  s1 = s1  NoName = NoName
  TextFields = {}
  SigFields = {s1}
  Nested = {}
  OwnTitle <- SecondOnly
  XrefTypes = {"table"}
  Estimates = {2}
  Containers = {1}
  MaxRevisions = 1
SPECIFICATION Spec
INVARIANT UniqueTitles
