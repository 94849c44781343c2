----------------------------- MODULE Durability -----------------------------
(***************************************************************************)
(* The durability vocabulary every other module speaks: the three levels a *)
(* committed Revision climbs, and their order.  durability-ports.ts ranks  *)
(* them; a Revision the Authority has never heard of has no level.         *)
(***************************************************************************)
EXTENDS Naturals

Levels == {"memory", "wal", "snapshot"}

(* The level of a Revision that is not in the Authority's #revisions map.  *)
Absent == "absent"

durabilityRank(level) ==
  CASE level = "memory"   -> 0
    [] level = "wal"      -> 1
    [] level = "snapshot" -> 2

isDurabilityAtLeast(achieved, target) ==
  durabilityRank(achieved) >= durabilityRank(target)

=============================================================================
