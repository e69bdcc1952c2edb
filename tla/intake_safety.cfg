SPECIFICATION Spec
CONSTANTS
  a1 = a1
  a2 = a2
  a3 = a3
  t1 = t1
  t2 = t2
  t3 = t3
  m1 = m1
  m2 = m2
  m3 = m3
  m4 = m4
  m5 = m5
  c1 = c1
  c2 = c2
  k1 = k1
  k2 = k2
  k3 = k3
  Shop = Shop
  shop = shop
  other = other
  usd = usd
  eur = eur
  Calls = {a1, a2, a3}
  Tenants = {t1, t2, t3}
  Members = {m1, m2, m3, m4, m5}
  Clients = {c1, c2}
  Keys = {k1, k2, k3}
  TenantOf <- MCTenantOf
  Owners = {m1, m2, m3}
  Scenarios <- MCScenarios
  EndOfTime = 1
  Edits <- MCEdits
  IdempotencyKeys = {i1}
  Bodies <- MCBodies
  Folded <- MCFolded
  RiskRules <- MCRiskRules
  None = None
SYMMETRY Sym
INVARIANTS
  TypeOK
  OnePayoutPerKey
  HeldByTheRightRule
  EndedKeyMakesNoPayout
  ReplacementsHaveCause
PROPERTIES
  LastOwnerLostToStaleRead
CHECK_DEADLOCK FALSE
