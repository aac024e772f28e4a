CONSTANTS
  x = x
  y = y
  nil = nil
  Accounts = {x, y}
  KindOf <- TwoChats
  SignedIn = {x}
  MaxEntries = 2
  BatchLimit = 2
  MaxAttempts = 1
  MaxPasses = 2
  MaxActions = 2
  Ageing = {1}
  MaxUpsets = 1
  None = nil
SPECIFICATION Spec
INVARIANTS
  TypeOK
  ActionsKept
  OwnAccountOnly
  OneAccountInCopy
PROPERTY
  DeliversActions
