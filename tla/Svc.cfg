\* Two documents of one tenant with a quota of one session,
\* and one incident; or one document and two incidents.
CONSTANTS
  tenant = tenant  other = other
  h1 = h1  h2 = h2
  f1 = f1  f2 = f2
  t1 = t1  t2 = t2  t3 = t3  t4 = t4
  Tenant = {tenant, other}
  Dev = Dev
  Owner <- MCOwner
  Handler = {h1, h2}
  Flow = {f1, f2}
  TenantOf <- MCTenantOf
  Token = {t1, t2, t3, t4}
  MaxPerOwner = 1
  MaxEvents = 3
  NoOwner = NoOwner  Janitor = Janitor  NoFlow = NoFlow  NoToken = NoToken
SPECIFICATION FairSpec
INVARIANTS SvcTypeOK AnswersAreTrue TenantsKeepToTheirOwn ProductionValidates LeaksPaidFor
PROPERTY FlowsComplete
\* When both documents are signed and the incidents used up, nothing happens.
CHECK_DEADLOCK FALSE
