\* Two requests of any kind in two processes, a restart of each, two keys.
SPECIFICATION Spec
CONSTANTS
  p1 = p1
  p2 = p2
  e1 = e1
  e2 = e2
  e3 = e3
  d1 = d1
  d2 = d2
  d3 = d3
  t1 = t1
  t2 = t2
  u1 = u1
  u2 = u2
  k1 = k1
  Requests = {r1, r2}
  Processes = {p1, p2}
  Forms <- MCForms
  Usernames = {u1, u2}
  Emails = {e1, e2, e3}
  Domains = {d1, d2, d3}
  Tenants = {t1, t2}
  Customers = {k1}
  DomainOf <- MCDomainOf
  Registry <- MCRegistry
  NoTenant = NoTenant
  MaxKeys = 2
  MaxRestarts = 1
SYMMETRY MCSymmetry
INVARIANTS
  TypeOK
  OneAccountPerCustomer
  AnsweredAccountsStand
  SsoFailsOnlyInRace
  OldKeyMintsNothing
  LogoutHolds
CHECK_DEADLOCK FALSE
