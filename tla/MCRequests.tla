------------------------------ MODULE MCRequests ------------------------------
(* Requests on a catalogue of seven items in two partitions, with limits that  *)
(* each cut some batch.                                                        *)
EXTENDS Requests

Thing(name, length, category, marks, hash) ==
    [name |-> name, length |-> length, category |-> category, marks |-> marks, hash |-> hash]

rune == Thing("rune", 7, "artefacts", {}, 5)
ore == Thing("ore", 6, "materials", {}, 2)
axe == Thing("axe", 12, "weapons", {}, 4)
cape == Thing("cape", 12, "capes", {"CAPE", "AVALON"}, 6)
relic == Thing("relic", 30, "artefacts", {"ARTEFACT"}, 8)
horse == Thing("horse", 14, "mounts", {"MOUNT"}, 2)
sword == Thing("sword", 11, "weapons", {}, 3)

MCCatalogue == <<ore, axe, rune, cape, relic, horse, sword>>
MCPriority == <<rune>>
MCPriceLimits == [url |-> 70, items |-> 2]
MCVolumeLimits == [url |-> 90, items |-> 3]
MCBackoff == <<{2, 4}, {3}>>
MCBackoffs == [a \in 0..1 |-> MCBackoff[a + 1]]
=============================================================================
