CONSTANTS
  q1 = q1
  undefined = undefined
  chat = chat
  task = task
  Shortest = 2
  Longest = 2
  Delay = 1
  Retry = 2
  Requests = {q1}
  Records = {chat, task}
  Kind <- MCKind
  ByCreation = {task}
  RunLimit = 1
  HandLimits = {2}
  MaxChanges = 2
  None = undefined
SPECIFICATION FairSpec
INVARIANTS
  TypeOK
  QuietChangeQueued
PROPERTIES
  EveryChangeUploaded
