SPECIFICATION Spec
CONSTANTS
  NoGroup = "NO_GROUP"
  Catalog <- MCCatalog
  Cores = 2
  Budgets <- MCBudgets
  StageWeights <- MCStageWeights
  MaxLoss = 20
  Workers = 2
  Outcomes <- MCOutcomes
INVARIANTS FailsOnlyWithoutBuild
