--------------------------- MODULE MCCloudKitPull ---------------------------
(* CloudKitPull on small instances: two records of one zone. *)
EXTENDS CloudKitPull, TLC

CONSTANTS z1, r1, r2, s1, p1

OneHome == [r \in Records |-> z1]

Alike == Permutations(Syncs) \cup Permutations(Records)
=============================================================================
