SPECIFICATION Spec
CONSTANTS
  Tokens = {0, 1, 2}
  Hosts <- MCHosts
  Baked = "baked"
  Versions = {"v2", "v3"}
  Repos <- MCRepos
  Declared <- MCDeclared
  Guess <- MCGuess
  Plugins <- MCPlugins
  Ids = {"t1", "t2", "t3", "t9", "config-task"}
  Budgets = {1, 2, 3}
  Configs <- MCConfigs
  MaxRows = 3
  NaN = NaN  Bad = Bad  None = None
INVARIANTS TypeOK TokenInCustody SecretsGuarded VersionIsTheOneImported PluginsServed SelectionExact BudgetCapped
PROPERTIES ImplementsJob
CHECK_DEADLOCK FALSE
