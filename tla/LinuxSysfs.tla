------------------------------ MODULE LinuxSysfs ------------------------------
(***************************************************************************)
(* The collectors that walk /sys/class: tm_collect_generic_linux with its  *)
(* loops over thermal zones and hwmon inputs, and tm_collect_arm64 with    *)
(* its loop over the same thermal zones.  The three loops have one shape:  *)
(* glob lists the files that exist, in sorted order; each file is then     *)
(* opened and read, and skipped when that fails; the loop ends with the    *)
(* list or when the table is full.                                         *)
(*                                                                         *)
(* The kernel adds, removes and breaks sensors at any time, also between   *)
(* glob and the reads.  An entry is the sensor it was read from; its       *)
(* value, and the name and label made from further files, are left out.    *)
(***************************************************************************)
EXTENDS Naturals, Sequences

CONSTANTS
    Zones,          \* thermal_zone*/temp, in the order glob sorts them
    Hwmons,         \* hwmon*/temp*_input, in the order glob sorts them
    Limit,          \* TM_MAX_THERMAL_ZONES, _HWMON_SENSORS, _ARM_CLUSTERS
    Arch            \* what uname says: "x86_64", "arm64" or "unknown"

Loops == {"zones", "hwmon", "clusters"}

Sensor == {Zones[i] : i \in 1..Len(Zones)} \cup {Hwmons[i] : i \in 1..Len(Hwmons)}

ASSUME SysfsAssumption ==
    /\ Zones \in Seq(Sensor) /\ Hwmons \in Seq(Sensor)
    /\ \A i, j \in 1..Len(Zones) : Zones[i] = Zones[j] => i = j
    /\ \A i, j \in 1..Len(Hwmons) : Hwmons[i] = Hwmons[j] => i = j
    /\ Limit \in [Loops -> Nat \ {0}]
    /\ Arch \in {"x86_64", "arm64", "unknown"}

VARIABLES
    sysfs,          \* what the file of each sensor is good for
    pc,             \* the loop that runs, "idle" or "done"
    phase,          \* in the loop: before "glob", or in "read"
    left,           \* places of the listed files the loop has not come to
    table,          \* snap->thermal_zones, hwmon_sensors and arm_clusters
    capabilities,   \* the sysfs bits of snap->capabilities
    readable,       \* auxiliary: sensors good at some time in this snapshot
    troubled        \* auxiliary: sensors not good at some time in it

vars == <<sysfs, pc, phase, left, table, capabilities, readable, troubled>>

FileState == {"absent", "broken", "good"}

Good == {s \in Sensor : sysfs[s] = "good"}

TypeOK ==
    /\ sysfs \in [Sensor -> FileState]
    /\ pc \in Loops \cup {"idle", "done"}
    /\ phase \in {"glob", "read"}
    /\ left \subseteq Nat \ {0}
    /\ table \in [Loops -> Seq(Sensor)]
    /\ \A l \in Loops : Len(table[l]) <= Limit[l]
    /\ capabilities \subseteq {"LINUX_THERMAL", "LINUX_HWMON", "ARM_SCMI"}
    /\ readable \subseteq Sensor /\ troubled \subseteq Sensor

Init ==
    /\ sysfs \in [Sensor -> FileState]
    /\ pc = "idle" /\ phase = "glob"
    /\ left = {}
    /\ table = [l \in Loops |-> <<>>]
    /\ capabilities = {}
    /\ readable = {} /\ troubled = {}

-------------------------------------------------------------------------------
(* The kernel *)

Change(s, state) ==
    /\ sysfs' = [sysfs EXCEPT ![s] = state]
    /\ readable' = IF state = "good" THEN readable \cup {s} ELSE readable
    /\ troubled' = IF state = "good" THEN troubled ELSE troubled \cup {s}
    /\ UNCHANGED <<pc, phase, left, table, capabilities>>

-------------------------------------------------------------------------------
(* The collectors *)

Files(l) == IF l = "hwmon" THEN Hwmons ELSE Zones

\* tm_collect_generic_linux walks zones and hwmon; tm_collect_snapshot then
\* calls tm_collect_arm64 on that architecture only.
After(l) ==
    CASE l = "zones" -> "hwmon"
      [] l = "hwmon" -> IF Arch = "arm64" THEN "clusters" ELSE "done"
      [] l = "clusters" -> "done"

Begin ==
    /\ pc \in {"idle", "done"}
    /\ pc' = "zones" /\ phase' = "glob"
    /\ table' = [l \in Loops |-> <<>>]
    /\ capabilities' = {}
    /\ readable' = Good /\ troubled' = Sensor \ Good
    /\ UNCHANGED <<sysfs, left>>

\* The files glob lists, by their places in its order.
Listed(l) == {k \in 1..Len(Files(l)) : sysfs[Files(l)[k]] # "absent"}

\* glob fails if nothing matches: the loop and its bit are passed over.
Glob(l) ==
    /\ pc = l /\ phase = "glob"
    /\ left' = Listed(l)
    /\ IF left' = {}
       THEN pc' = After(l) /\ phase' = "glob"
       ELSE pc' = l /\ phase' = "read"
    /\ UNCHANGED <<sysfs, table, capabilities, readable, troubled>>

IsNext(k) == \A m \in left : k <= m

\* Faulty variant: a sensor that cannot be read ends the loop.
ReadOrStop(l, k) ==
    /\ pc = l /\ phase = "read"
    /\ IsNext(k) /\ Len(table[l]) < Limit[l]
    /\ IF Files(l)[k] \in Good
       THEN /\ table' = [table EXCEPT ![l] = Append(@, Files(l)[k])]
            /\ left' = left \ {k}
       ELSE left' = {} /\ UNCHANGED table
    /\ UNCHANGED <<sysfs, pc, phase, capabilities, readable, troubled>>

\* Faulty variant: the slot is taken before the file is read.
ReadAnyway(l, k) ==
    /\ pc = l /\ phase = "read"
    /\ IsNext(k) /\ Len(table[l]) < Limit[l]
    /\ left' = left \ {k}
    /\ table' = [table EXCEPT ![l] = Append(@, Files(l)[k])]
    /\ UNCHANGED <<sysfs, pc, phase, capabilities, readable, troubled>>

\* Faulty variant: one entry more than the table has.
ReadOneMore(l, k) ==
    /\ pc = l /\ phase = "read"
    /\ IsNext(k) /\ Len(table[l]) <= Limit[l]
    /\ left' = left \ {k}
    /\ table' = IF Files(l)[k] \in Good
                THEN [table EXCEPT ![l] = Append(@, Files(l)[k])]
                ELSE table
    /\ UNCHANGED <<sysfs, pc, phase, capabilities, readable, troubled>>

Read(l, k) ==
    /\ pc = l /\ phase = "read"
    /\ IsNext(k) /\ Len(table[l]) < Limit[l]
    /\ left' = left \ {k}
    /\ table' = IF Files(l)[k] \in Good
                THEN [table EXCEPT ![l] = Append(@, Files(l)[k])]
                ELSE table
    /\ UNCHANGED <<sysfs, pc, phase, capabilities, readable, troubled>>

\* Faulty variant: only a loop that came to the end of its list sets its bits.
BitsIfListEnds(l) ==
    CASE l = "zones" -> IF left = {} THEN {"LINUX_THERMAL"} ELSE {}
      [] l = "hwmon" -> IF left = {} THEN {"LINUX_HWMON"} ELSE {}
      [] l = "clusters" ->
           IF table[l] # <<>> THEN {"ARM_SCMI", "LINUX_THERMAL"} ELSE {}

\* The first two loops set their bit for having run, the third for an entry.
Bits(l) ==
    CASE l = "zones" -> {"LINUX_THERMAL"}
      [] l = "hwmon" -> {"LINUX_HWMON"}
      [] l = "clusters" ->
           IF table[l] # <<>> THEN {"ARM_SCMI", "LINUX_THERMAL"} ELSE {}

EndLoop(l) ==
    /\ pc = l /\ phase = "read"
    /\ left = {} \/ Len(table[l]) = Limit[l]
    /\ pc' = After(l) /\ phase' = "glob"
    /\ capabilities' = capabilities \cup Bits(l)
    /\ UNCHANGED <<sysfs, left, table, readable, troubled>>

Next ==
    \/ \E s \in Sensor, state \in FileState : Change(s, state)
    \/ Begin
    \/ \E l \in Loops : Glob(l) \/ EndLoop(l)
    \/ \E l \in Loops, k \in left : Read(l, k)

Spec == Init /\ [][Next]_vars

-------------------------------------------------------------------------------
(* Properties *)

Entries(l) == {table[l][i] : i \in 1..Len(table[l])}

\* Every entry is of a sensor that could be read at some time in this very
\* snapshot, and a sensor has one entry at most, in the order of glob: nothing is
\* left from the last snapshot, and no slot is taken for a file whose read failed
\* (memset, thermal_main.c:18; read_long before the count, linux_sysfs.c:74, 108,
\* cpu_arm64.c:58).
NothingInvented ==
    \A l \in Loops :
        /\ Entries(l) \subseteq readable
        /\ \A i, j \in 1..Len(table[l]) : i < j =>
              \E m, n \in 1..Len(Files(l)) :
                  m < n /\ Files(l)[m] = table[l][i] /\ Files(l)[n] = table[l][j]

\* The loops that are over, in the order of the snapshot.
Over(l) ==
    CASE l = "zones" -> pc \in {"hwmon", "clusters", "done"}
      [] l = "hwmon" -> pc \in {"clusters", "done"}
      [] l = "clusters" -> pc = "done" /\ Arch = "arm64"

\* When a loop is over, a sensor without entry had trouble during the snapshot,
\* or the table is full: a sensor that vanishes or fails between glob and its
\* read never costs another one its entry ("continue" in the three loops).
NothingSkipped ==
    \A l \in Loops : Over(l) =>
        \/ Len(table[l]) = Limit[l]
        \/ \A i \in 1..Len(Files(l)) :
              Files(l)[i] \in Entries(l) \cup troubled

\* A finished snapshot has the bit of every table it has entries in, and
\* ARM_SCMI only with clusters.  The other two bits are also set for empty tables,
\* but only if a sensor of theirs failed or vanished during the snapshot
\* (linux_sysfs.c:93, 134; cpu_arm64.c:81).
EntriesHaveBits ==
    pc = "done" =>
        /\ table["zones"] # <<>> \/ table["clusters"] # <<>> =>
              "LINUX_THERMAL" \in capabilities
        /\ table["hwmon"] # <<>> => "LINUX_HWMON" \in capabilities
        /\ table["clusters"] # <<>> <=> "ARM_SCMI" \in capabilities
        /\ "LINUX_THERMAL" \in capabilities =>
              table["zones"] # <<>> \/ \E i \in 1..Len(Zones) : Zones[i] \in troubled
        /\ "LINUX_HWMON" \in capabilities =>
              table["hwmon"] # <<>> \/ \E i \in 1..Len(Hwmons) : Hwmons[i] \in troubled

-------------------------------------------------------------------------------
(* Each of the three tables is a bounded table that only grows. *)

ZoneTable == INSTANCE SensorTable WITH
    Limit <- Limit["zones"], Entry <- Sensor, table <- table["zones"]

HwmonTable == INSTANCE SensorTable WITH
    Limit <- Limit["hwmon"], Entry <- Sensor, table <- table["hwmon"]

ClusterTable == INSTANCE SensorTable WITH
    Limit <- Limit["clusters"], Entry <- Sensor, table <- table["clusters"]

ImplementsTables == ZoneTable!Spec /\ HwmonTable!Spec /\ ClusterTable!Spec

===============================================================================
