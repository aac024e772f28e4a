CONSTANTS
  a = a
  hello = hello
  long = long
  s1 = s1
  s2 = s2
  f1 = f1
  f2 = f2
  undefined = undefined
  Submissions = {a}
  Texts = {hello, long}
  TextOf <- OneMessage
  Oversized = {long}
  Sessions = {s1}
  Saved = s1
  Left = {hello, long}
  Flushes = {f1}
  MaxItems = 1
  MaxKeys = 2
  MaxReloads = 0
  Signals = {TRUE, FALSE}
  None = undefined
SPECIFICATION LiveSpec
INVARIANTS
  TypeOK
  NothingVanishes
PROPERTY
  HealthyQueueDrains
CHECK_DEADLOCK FALSE
