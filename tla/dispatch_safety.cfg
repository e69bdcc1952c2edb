SPECIFICATION Spec
CONSTANTS
  PayoutIds = {p1}
  Declined = {}
  Workers = {w1, w2}
  ProviderPayouts = {pp1, pp2}
  MaxAttempts = 2
  MaxStalls = 1
  FaultBudget <- OneOfEach
  None = None
SYMMETRY Sym
INVARIANTS
  TypeOK
  EveryTransitionOnRecord
  ProviderOnlyAfterRelease
  TerminalHasCause
  OneProviderPayoutPerStart
  OnlyCallbacksBreakTheChain
PROPERTIES
  ImplementsLifecycle
CHECK_DEADLOCK FALSE
