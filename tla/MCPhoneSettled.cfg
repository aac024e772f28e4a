CONSTANTS
  x = x
  y = y
  nil = nil
  Accounts = {x, y}
  KindOf <- OneTask
  SignedIn = {x}
  MaxEntries = 1
  BatchLimit = 1
  MaxAttempts = 2
  MaxPasses = 1
  MaxActions = 1
  Ageing = {1}
  MaxUpsets = 2
  None = nil
SPECIFICATION FairSpec
PROPERTY
  EverySettled
