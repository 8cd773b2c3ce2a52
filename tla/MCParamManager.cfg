SPECIFICATION FairSpec
CONSTANTS
  Values = {"v1", "v2"}
  Budgets <- MCBudgets
INVARIANTS ParamTypeOK SuccessMeansRestarted
PROPERTIES CleanCallSucceeds
