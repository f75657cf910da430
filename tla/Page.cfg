\* Two clicks on two items that share the one bridge of the page.
CONSTANTS
  b1 = b1  f1 = f1  f2 = f2  i1 = i1  i2 = i2  t1 = t1  t2 = t2
  Page = Page  Ping = Ping  Certificates = Certificates
  NoQuery = NoQuery  NoItem = NoItem  NoToken = NoToken
  Instance = {b1}
  Flow = {f1, f2}
  Caller = {f1, f2, Page}
  Item = {i1, i2}
  Token = {t1, t2}
  Query = {t1, t2, Ping, Certificates}
SPECIFICATION FairSpec
INVARIANTS PageTypeOK OwnAnswers WaitersExact RightSignature
PROPERTY FlowsEnd
\* All clicks are used up in the end.
CHECK_DEADLOCK FALSE
