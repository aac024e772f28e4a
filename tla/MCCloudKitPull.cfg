CONSTANTS
  z1 = z1
  r1 = r1
  r2 = r2
  s1 = s1
  p1 = p1
  Zones = {z1}
  Records = {r1, r2}
  Home <- OneHome
  Kinds = {"new", "edit", "broken", "deleted"}
  Syncs = {s1}
  Probes = {p1}
  ApplyLimit = 1
  MaxChanges = 2
  MaxResets = 1
SYMMETRY Alike
SPECIFICATION Spec
INVARIANTS
  TypeOK
  CoveredUnlessBlind
PROPERTIES
  KeepsInbox
