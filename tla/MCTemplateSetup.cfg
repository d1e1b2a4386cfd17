SPECIFICATION Spec
CONSTANTS
  database = database
  byName = byName
  byPrefix = byPrefix
  mine = mine
  yours = yours
  shop = shop
  Files <- MCFiles
  Database = database
  Choices <- MCChoices
  Template = template
  Paths <- MCPaths
  Path <- MCPath
  Ignored <- MCIgnored
  Own = own
  Absent = absent
  Torn = torn
  Secrets = {"operations", "anycable"}
  SecretsOf <- MCSecretsOf
  Terminals = {t1, t2}
  Empty = empty
  MaxWork = 1
SYMMETRY TerminalsAlike
INVARIANTS
  ConfiguredIsComplete
  SecretsAgree
  OneDatabaseName
PROPERTIES
  WorkIsKept
