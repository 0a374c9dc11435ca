-------------------------------- MODULE Series ---------------------------------
(***************************************************************************)
(* Which sensor a Prometheus series belongs to.  prometheus.c labels each  *)
(* entry of a table with what the collector has put into it: numbers,      *)
(* names and texts that come from files or calls of their own and may fail *)
(* to be read while the temperature is there.  A consumer knows a sensor   *)
(* by these labels only, from one export to the next.                      *)
(*                                                                         *)
(* One table, of any kind, over any number of snapshots: in each, the loop *)
(* of its collector meets the sensors of the host, passes over those that  *)
(* are gone or cannot be read and adds an entry for each of the others.    *)
(* A sensor behind files is its path, and glob sorts them; what a driver   *)
(* creates anew under another one is another sensor.  A library is started *)
(* anew in each snapshot and numbers what it finds then, in its own order. *)
(* How that comes about is in LinuxSysfs, CpuX86, Nvidia and Amd.          *)
(***************************************************************************)
EXTENDS Naturals, Sequences

CONSTANTS
    Host    \* per kind, the sensors, in the order of their files if they have any

Kinds == {"core", "cluster", "nvidia", "amd", "hwmon", "zone"}

\* The texts an entry takes from files or calls that may fail by themselves.
Texts(kind) ==
    CASE kind \in {"zone", "cluster"} -> {"type"}
      [] kind = "nvidia" -> {"uuid"}
      [] kind = "amd" -> {"name"}
      [] kind = "hwmon" -> {"name", "label"}
      [] kind = "core" -> {}

\* Devices that a library counts, and sensors whose files have a name.
Counted == {"nvidia", "amd"}
Named == Kinds \ Counted

\* A sensor has texts and, if it is not a library that numbers it, an id that
\* comes with it: the zone, the number of the core, the name of the input file.
ASSUME SeriesAssumption ==
    /\ DOMAIN Host = Kinds
    /\ \A kind \in Kinds :
          Host[kind] \in Seq({Host[kind][s] : s \in DOMAIN Host[kind]})
    /\ \A kind \in Kinds : \A s \in 1..Len(Host[kind]) :
          DOMAIN Host[kind][s] =
              IF kind \in Named THEN Texts(kind) \cup {"id"} ELSE Texts(kind)
    \* Zones are told apart by their directories, NVIDIA's devices by their uuid.
    /\ \A kind \in {"zone", "cluster"} : \A s, t \in 1..Len(Host[kind]) :
          Host[kind][s].id = Host[kind][t].id => s = t
    /\ \A s, t \in 1..Len(Host["nvidia"]) :
          Host["nvidia"][s].uuid = Host["nvidia"][t].uuid => s = t
    /\ \A s \in 1..Len(Host["nvidia"]) : Host["nvidia"][s].uuid # ""

VARIABLES
    kind,       \* the table that is looked at
    source,     \* where tm_collect_amd has its GPUs from
    met,        \* sensors the collector has come past in this snapshot
    counted,    \* how many of them are listed, or counted by the library
    table,      \* each entry's sensor, its number in that count, its texts
    export      \* the last export: the same with each entry's labels

vars == <<kind, source, met, counted, table, export>>

Sensor == 1..Len(Host[kind])

TypeOK ==
    /\ kind \in Kinds
    /\ source \in {"rocm_smi", "amdgpu_hwmon"}
    /\ met \subseteq Sensor
    /\ counted \in Nat
    /\ \A k \in 1..Len(table) :
          table[k].of \in met /\ table[k].read \subseteq Texts(kind)
    /\ \A k \in 1..Len(export) :
          export[k].of \in Sensor /\ export[k].read \subseteq Texts(kind)

Init ==
    /\ kind \in Kinds
    /\ source \in {"rocm_smi", "amdgpu_hwmon"}
    /\ met = {} /\ counted = 0 /\ table = <<>> /\ export = <<>>

-------------------------------------------------------------------------------
(* The labels.  An unread text is empty, for the entry was cleared. *)

Shown(e, text) == IF text \in e.read THEN Host[kind][e.of][text] ELSE ""

Id(e) == Host[kind][e.of].id

\* The cores of every socket go into one package with package_id 0.
CoreSeries(slot, e) == <<0, Id(e)>>

\* Faulty variant: the cluster is labelled by its place and its type.
ClusterSeriesUnnamed(slot, e) == <<slot - 1, Shown(e, "type")>>

\* cluster_id is the place in the table.
ClusterSeries(slot, e) == <<slot - 1, Id(e), Shown(e, "type")>>

\* Faulty variant: the GPU is labelled with its place in the table.
NvidiaSeriesBySlot(slot, e) == <<slot - 1, Shown(e, "uuid")>>

\* gpu_index is the number NVML gives the device in this snapshot.
NvidiaSeries(slot, e) == <<e.number, Shown(e, "uuid")>>

\* gpu_index is the number ROCm SMI gives the device in this snapshot; the
\* fallback takes the place in the table and calls every GPU "amdgpu".
AmdSeries(slot, e) ==
    IF source = "rocm_smi" THEN <<e.number, Shown(e, "name"), source>>
                           ELSE <<slot - 1, "amdgpu", source>>

\* Without a label file, the label is the name of the input file.
HwmonSeries(slot, e) ==
    <<Shown(e, "name"), IF "label" \in e.read THEN Shown(e, "label") ELSE Id(e)>>

\* Faulty variant: a zone is labelled with its type only, if it has one.
ZoneSeriesByType(slot, e) ==
    IF "type" \in e.read THEN <<Shown(e, "type")>> ELSE <<Id(e)>>

ZoneSeries(slot, e) == <<Id(e), Shown(e, "type")>>

SeriesOf(slot, e) ==
    CASE kind = "core" -> CoreSeries(slot, e)
      [] kind = "cluster" -> ClusterSeries(slot, e)
      [] kind = "nvidia" -> NvidiaSeries(slot, e)
      [] kind = "amd" -> AmdSeries(slot, e)
      [] kind = "hwmon" -> HwmonSeries(slot, e)
      [] kind = "zone" -> ZoneSeries(slot, e)

-------------------------------------------------------------------------------
(* A snapshot and its export *)

\* glob sorts the files; a library meets its devices in whatever order it likes.
Sorted == kind \in Named \/ (kind = "amd" /\ source = "amdgpu_hwmon")

Meet(s) ==
    /\ s \notin met
    /\ Sorted => \A t \in Sensor : t < s => t \in met
    /\ met' = met \cup {s}
    /\ UNCHANGED <<kind, source, export>>

\* The sensor is not there: no file is listed, no device counted.
Absent(s) ==
    /\ Meet(s)
    /\ UNCHANGED <<counted, table>>

\* It is there and cannot be read.  ROCm SMI's devices have an entry even so.
PassOver(s) ==
    /\ Meet(s)
    /\ ~(kind = "amd" /\ source = "rocm_smi")
    /\ counted' = counted + 1
    /\ UNCHANGED table

Collect(s, read) ==
    /\ Meet(s)
    /\ counted' = counted + 1
    /\ table' = Append(table, [of |-> s, number |-> counted, read |-> read])

\* The end of the list or of the table ends the loop.  tm_snapshot_to_prometheus
\* gives each entry its labels, and the next snapshot begins with empty tables,
\* perhaps with the other source of AMD GPUs.
Export ==
    /\ export' = [k \in 1..Len(table) |->
          [of |-> table[k].of, number |-> table[k].number,
           read |-> table[k].read, series |-> SeriesOf(k, table[k])]]
    /\ met' = {} /\ counted' = 0 /\ table' = <<>>
    /\ source' \in {"rocm_smi", "amdgpu_hwmon"}
    /\ UNCHANGED kind

Next ==
    \/ \E s \in Sensor : Absent(s) \/ PassOver(s)
    \/ \E s \in Sensor, read \in SUBSET Texts(kind) : Collect(s, read)
    \/ Export

Spec == Init /\ [][Next]_vars

-------------------------------------------------------------------------------
(* Properties *)

\* Within one export no two sensors share a series, whatever was passed over and
\* whichever texts are missing; a scraper refuses a file in which they do.  Not
\* so cores, for two sockets have cores of the same number in one package
\* (cpu_x86.c:29), and hwmon inputs, for the labels do not tell which of two
\* equal chips they belong to (linux_sysfs.c:125-129).
SeriesAreDistinct ==
    kind \notin {"core", "hwmon"} =>
        \A j, k \in 1..Len(export) : export[j].series = export[k].series => j = k

Sensors(entries) == {entries[k].of : k \in 1..Len(entries)}

\* From one export to the next a series of a zone or of a cluster never changes
\* hands, though clusters are numbered by their place (cpu_arm64.c:67), and that
\* of an NVIDIA GPU only if its uuid was not read (gpu_nvidia.c:110, 113).  One
\* of the amdgpu fallback does so only when a card came or went, for cards are
\* numbered by their place and all have one name (gpu_amd.c:103-104).  Nothing
\* of the kind can be said of ROCm SMI, which numbers the cards anew in each
\* snapshot while their label has only that number and the name of the model
\* (gpu_amd.c:147-156), nor of cores and chips, for which see above.
SeriesKeepTheirSensor ==
    [][kind \notin {"core", "hwmon"} =>
         \A j \in 1..Len(export) : \A k \in 1..Len(export') :
            export[j].series = export'[k].series =>
                \/ export[j].of = export'[k].of
                \/ kind = "nvidia" /\ "uuid" \notin export[j].read
                \/ kind = "amd" /\ source = "rocm_smi"
                \/ kind = "amd" /\ Sensors(export) # Sensors(export')]_vars

\* The other way round, a sensor whose texts are read as before keeps its series
\* whatever happens to the others, unless it is numbered: a cluster keeps its
\* series exactly if as many clusters stand before it as before (cpu_arm64.c:67),
\* an NVIDIA GPU exactly if as many devices were counted before it, those that
\* could not be read included (gpu_nvidia.c:110).
SensorsKeepTheirSeries ==
    [][kind # "amd" =>
         \A j \in 1..Len(export) : \A k \in 1..Len(export') :
            export[j].of = export'[k].of /\ export[j].read = export'[k].read =>
                (export[j].series = export'[k].series
                   <=> /\ kind = "cluster" => j = k
                       /\ kind = "nvidia" =>
                             export[j].number = export'[k].number)]_vars

===============================================================================
