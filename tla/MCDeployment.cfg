SPECIFICATION Spec
CONSTANTS
  s1 = s1
  s2 = s2
  original = original
  edited = edited
  q1 = q1
  oldSecret = oldSecret
  newSecret = newSecret
  admin = admin
  other = other
  Sessions = {s1, s2}
  Versions = {1, 2}
  Contents = {original, edited}
  Missing = Missing
  Questions = {q1}
  Secrets = {oldSecret, newSecret}
  Emails = {admin, other}
  FirstEnv <- MCFirstEnv
  Original = original
  None = None
  MaxEdits = 2
INVARIANTS
  ServingMeansMigrated
  RefusedOnlyBeforeBootstrap
  ClashesNeedRenaming
PROPERTIES
  SchemaIsWhole
  ImplementsSchemaUpgrades
  StartsEnd
CHECK_DEADLOCK FALSE
