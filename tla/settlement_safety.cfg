SPECIFICATION Spec
CONSTANTS
  t1 = t1
  t2 = t2
  p1 = p1
  p2 = p2
  x1 = x1
  x2 = x2
  y1 = y1
  z1 = z1
  f1 = f1
  f2 = f2
  Calls = {c1, c2, c3}
  Tenants = {t1, t2}
  Payouts = {p1, p2}
  TenantOf <- MCTenantOf
  AmountOf <- MCAmountOf
  ProviderPayouts = {x1, x2, y1, z1}
  MadeFor <- MCMadeFor
  Files = {f1, f2}
  RowsOf <- MCRowsOf
  None = None
SYMMETRY Sym
INVARIANTS
  TypeOK
  FileImportedOnce
  ResolvedOnce
PROPERTIES
  ImportIsASnapshot
CHECK_DEADLOCK FALSE
