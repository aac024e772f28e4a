CONSTANTS
  torn = torn
  undefined = undefined
  Retention = 2
  MaxFiles = 4
  MaxWrites = 1
  MaxStops = 2
  Torn = torn
  None = undefined
SPECIFICATION FairSpec
INVARIANTS
  TypeOK
  NoOtherDamage
  BackupsCurrent
PROPERTIES
  KeepsPromise
  RetentionKept
  ScheduledRestoreMade
CHECK_DEADLOCK FALSE
