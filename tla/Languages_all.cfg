CONSTANTS
  t1 = t1
  t2 = t2
  Tasks <- MCTasks
  Languages <- MCLanguages
  MaxFaults = 1
  MaxCrashes = 1
  MaxEdits = 1
  MaxCleans = 1
  Threads = {1, 2}
  Names = {"a", "b"}
  Files = {"f", "g"}
  Capacity = 1
  CacheLimit = 1
  MaxOps = 3
  Majors = {2, 3}
  Minors = {0, 1}
  Length = 5
SPECIFICATION MCSpec
INVARIANTS   RegistryAgrees LanguageRulesHold
 
CHECK_DEADLOCK FALSE
