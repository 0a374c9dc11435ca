---------------------------- MODULE MCLinuxSysfs ------------------------------
(***************************************************************************)
(* A small host for TLC: two thermal zones of which the zone table holds   *)
(* one, two hwmon inputs which both have room, and room for both zones     *)
(* among the clusters.                                                     *)
(***************************************************************************)
EXTENDS LinuxSysfs

MCZones == <<"zone0", "zone1">>

MCHwmons == <<"hwmon0", "hwmon1">>

MCLimit == [l \in Loops |-> IF l = "zones" THEN 1 ELSE 2]
===============================================================================
