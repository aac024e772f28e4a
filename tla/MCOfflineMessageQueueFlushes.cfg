CONSTANTS
  a = a
  hello = hello
  long = long
  s1 = s1
  s2 = s2
  f1 = f1
  f2 = f2
  undefined = undefined
  Submissions = {a}
  Texts = {hello}
  TextOf <- OneMessage
  Oversized = {}
  Sessions = {s1, s2}
  Saved = undefined
  Left = {undefined}
  Flushes = {f1, f2}
  MaxItems = 1
  MaxKeys = 1
  MaxReloads = 1
  Signals = {TRUE}
  None = undefined
SYMMETRY Alike
SPECIFICATION Spec
PROPERTY
  DeliversMessages
CHECK_DEADLOCK FALSE
