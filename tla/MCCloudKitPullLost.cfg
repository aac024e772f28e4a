CONSTANTS
  z1 = z1
  r1 = r1
  r2 = r2
  s1 = s1
  p1 = p1
  Zones = {z1}
  Records = {r1, r2}
  Home <- OneHome
  Kinds = {"edit"}
  Syncs = {s1}
  Probes = {}
  ApplyLimit = 1
  MaxChanges = 2
  MaxResets = 0
SPECIFICATION Spec
INVARIANTS
  NoRemoteChangeLost
