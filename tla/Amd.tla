--------------------------------- MODULE Amd ----------------------------------
(***************************************************************************)
(* The AMD collector, gpu_amd.c: if ROCm SMI can be loaded, initialised    *)
(* and asked for its devices, the GPUs are those it reports; otherwise     *)
(* they are the amdgpu cards found in sysfs.  The library and the cards    *)
(* change at any time, also between two calls.                             *)
(*                                                                         *)
(* An entry is the card it was read from and the number it was given; its  *)
(* temperatures and power, of which each may fail to read and is zero      *)
(* then, are left out.  ROCm SMI has every symbol that is called without a *)
(* check.                                                                  *)
(***************************************************************************)
EXTENDS Naturals, Sequences

CONSTANTS
    Cards,          \* the hwmon of each card, in the order glob sorts them
    DeviceOrders,   \* orders in which ROCm SMI may number the cards
    MaxGpus,        \* TM_MAX_AMD_GPUS
    MaxSnapshots    \* bound on the snapshots taken

Card == {Cards[i] : i \in 1..Len(Cards)}

Distinct(s) == \A i, j \in 1..Len(s) : s[i] = s[j] => i = j

ASSUME AmdAssumption ==
    /\ Cards \in Seq(Card) /\ Distinct(Cards)
    /\ DeviceOrders \subseteq Seq(Card) /\ \A o \in DeviceOrders : Distinct(o)
    /\ MaxGpus \in Nat \ {0} /\ MaxSnapshots \in Nat

VARIABLES
    rsmi,           \* what ROCm SMI is good for
    devices,        \* the order in which it numbers the cards
    sysfs,          \* what the name file of each card says
    pc,             \* where the collector is
    sessions,       \* calls of rsmi_init without an rsmi_shut_down
    left,           \* places of the devices or listed cards still to come
    gpus,           \* snap->amd_gpus
    capabilities,   \* the AMD bits of snap->capabilities
    n,              \* snapshots taken
    failures,       \* auxiliary: counts that failed after an init
    steady          \* auxiliary: host as it was when the snapshot began

host == <<rsmi, devices, sysfs>>
vars == <<host, pc, sessions, left, gpus, capabilities, n, failures, steady>>

\* Not there; there, but rsmi_init fails, or the count does; in order.
Library == {"missing", "noinit", "nocount", "up"}

\* No such file; one of another driver, or unreadable; one of amdgpu.
NameFile == {"absent", "other", "amdgpu"}

Source == {"rocm_smi", "amdgpu_hwmon"}

Entry == [gpu_index: Nat, gpu: Card, source: Source]

TypeOK ==
    /\ rsmi \in Library
    /\ devices \in DeviceOrders
    /\ sysfs \in [Card -> NameFile]
    /\ pc \in {"load", "init", "count", "devices", "shutdown", "glob", "cards",
               "done"}
    /\ sessions \in 0..MaxSnapshots
    /\ left \subseteq Nat \ {0}
    /\ gpus \in Seq(Entry) /\ Len(gpus) <= MaxGpus
    /\ capabilities \subseteq Source
    /\ n \in 0..MaxSnapshots
    /\ failures \in 0..MaxSnapshots
    /\ steady \in BOOLEAN

Init ==
    /\ rsmi \in Library
    /\ devices \in DeviceOrders
    /\ sysfs \in [Card -> NameFile]
    /\ pc = "done" /\ sessions = 0
    /\ left = {} /\ gpus = <<>> /\ capabilities = {}
    /\ n = 0 /\ failures = 0 /\ steady = FALSE

-------------------------------------------------------------------------------
(* The host *)

\* The library is installed, fails or recovers; once opened it stays open.
LibraryChanges ==
    /\ rsmi' \in {"noinit", "nocount", "up"} \ {rsmi}
    /\ steady' = FALSE
    /\ UNCHANGED <<devices, sysfs, pc, sessions, left, gpus, capabilities, n,
                   failures>>

\* A driver is bound to a card, or taken from it.
CardChanges(c) ==
    /\ \E f \in NameFile \ {sysfs[c]} : sysfs' = [sysfs EXCEPT ![c] = f]
    /\ steady' = FALSE
    /\ UNCHANGED <<rsmi, devices, pc, sessions, left, gpus, capabilities, n,
                   failures>>

-------------------------------------------------------------------------------
(* tm_collect_amd *)

\* The memset of tm_collect_snapshot; the collectors before this one do not
\* touch the AMD GPUs.
Begin ==
    /\ pc = "done" /\ n < MaxSnapshots
    /\ n' = n + 1
    /\ pc' = "load"
    /\ gpus' = <<>> /\ capabilities' = {}
    /\ steady' = TRUE
    /\ UNCHANGED <<host, sessions, left, failures>>

LoadRsmi ==
    /\ pc = "load"
    /\ pc' = IF rsmi = "missing" THEN "glob" ELSE "init"
    /\ UNCHANGED <<host, sessions, left, gpus, capabilities, n, failures, steady>>

RsmiInit ==
    /\ pc = "init"
    /\ IF rsmi \in {"nocount", "up"}
       THEN pc' = "count" /\ sessions' = sessions + 1
       ELSE pc' = "glob" /\ UNCHANGED sessions
    /\ UNCHANGED <<host, left, gpus, capabilities, n, failures, steady>>

RsmiCounts ==
    /\ pc = "count" /\ rsmi = "up"
    /\ left' = 1..Len(devices)
    /\ pc' = "devices"
    /\ UNCHANGED <<host, sessions, gpus, capabilities, n, failures, steady>>

\* Faulty variant: without a count there is nothing to report.
RsmiCountGivesUp ==
    /\ pc = "count" /\ rsmi # "up"
    /\ failures' = failures + 1
    /\ pc' = "done"
    /\ UNCHANGED <<host, sessions, left, gpus, capabilities, n, steady>>

\* The && fails with the session open, and the fallback runs.
RsmiCountFails ==
    /\ pc = "count" /\ rsmi # "up"
    /\ failures' = failures + 1
    /\ pc' = "glob"
    /\ UNCHANGED <<host, sessions, left, gpus, capabilities, n, steady>>

\* Faulty variant: the entry is written one slot too low.
AddGpuTooLow(source, index, card) ==
    LET entry == [gpu_index |-> index, gpu |-> card, source |-> source]
    IN  gpus' = IF gpus = <<>> THEN <<entry>>
                ELSE [gpus EXCEPT ![Len(gpus)] = entry]

AddGpu(source, index, card) ==
    gpus' = Append(gpus, [gpu_index |-> index, gpu |-> card, source |-> source])

\* Faulty variant: one GPU more than there is room for.
MoreThanRoom == left # {} /\ Len(gpus) <= MaxGpus

\* The condition of both loops.
More == left # {} /\ Len(gpus) < MaxGpus

\* Both loops go through their list from its beginning.
IsNext(k) == \A m \in left : k <= m

\* Every device that was counted has an entry, whatever fails about it, and the
\* number ROCm SMI has for it.
RsmiDevice(k) ==
    /\ pc = "devices" /\ More /\ IsNext(k)
    /\ AddGpu("rocm_smi", k - 1, devices[k])
    /\ left' = left \ {k}
    /\ UNCHANGED <<host, pc, sessions, capabilities, n, failures, steady>>

EndDevices ==
    /\ pc = "devices" /\ ~More
    /\ capabilities' = IF gpus # <<>> THEN {"rocm_smi"} ELSE {}
    /\ pc' = "shutdown"
    /\ UNCHANGED <<host, sessions, left, gpus, n, failures, steady>>

\* Faulty variant: the fallback runs in any case.
RsmiShutDownAndFallBack ==
    /\ pc = "shutdown"
    /\ sessions' = sessions - 1
    /\ pc' = "glob"
    /\ UNCHANGED <<host, left, gpus, capabilities, n, failures, steady>>

\* Faulty variant: only a snapshot with GPUs shuts the library down.
RsmiShutDownIfUsed ==
    /\ pc = "shutdown"
    /\ sessions' = IF gpus # <<>> THEN sessions - 1 ELSE sessions
    /\ pc' = "done"
    /\ UNCHANGED <<host, left, gpus, capabilities, n, failures, steady>>

RsmiShutDown ==
    /\ pc = "shutdown"
    /\ sessions' = sessions - 1
    /\ pc' = "done"
    /\ UNCHANGED <<host, left, gpus, capabilities, n, failures, steady>>

-------------------------------------------------------------------------------
(* collect_amdgpu_hwmon *)

\* An empty list ends the collector at once.
GlobCards ==
    /\ pc = "glob"
    /\ left' = {k \in 1..Len(Cards) : sysfs[Cards[k]] # "absent"}
    /\ pc' = IF left' = {} THEN "done" ELSE "cards"
    /\ UNCHANGED <<host, sessions, gpus, capabilities, n, failures, steady>>

\* A card of another driver, or gone by now, has no entry.  The number of a GPU
\* is its place in the table.
ReadCard(k) ==
    /\ pc = "cards" /\ More /\ IsNext(k)
    /\ IF sysfs[Cards[k]] = "amdgpu"
       THEN AddGpu("amdgpu_hwmon", Len(gpus), Cards[k])
       ELSE UNCHANGED gpus
    /\ left' = left \ {k}
    /\ UNCHANGED <<host, pc, sessions, capabilities, n, failures, steady>>

EndCards ==
    /\ pc = "cards" /\ ~More
    /\ capabilities' = IF gpus # <<>> THEN capabilities \cup {"amdgpu_hwmon"}
                       ELSE capabilities
    /\ pc' = "done"
    /\ UNCHANGED <<host, sessions, left, gpus, n, failures, steady>>

Next ==
    \/ Begin
    \/ LoadRsmi \/ RsmiInit \/ RsmiCounts \/ RsmiCountFails
    \/ \E k \in left : RsmiDevice(k) \/ ReadCard(k)
    \/ EndDevices \/ RsmiShutDown \/ GlobCards \/ EndCards
    \/ LibraryChanges
    \/ \E c \in Card : CardChanges(c)

Spec == Init /\ [][Next]_vars

-------------------------------------------------------------------------------
(* Properties *)

\* The entries of a finished snapshot all come from one source, and its bit is
\* the one that is set, so that amd_source (json.c:116-124) and prometheus.c:110
\* name the source of each; without entries there is no bit.  This is so on
\* every path into the fallback, from inside a session too.
OneSource ==
    pc = "done" =>
        IF gpus = <<>> THEN capabilities = {}
        ELSE \E s \in Source : /\ capabilities = {s}
                               /\ \A k \in 1..Len(gpus) : gpus[k].source = s

OfAmdgpu == {k \in 1..Len(Cards) : sysfs[Cards[k]] = "amdgpu"}

HasEntry(g) == \E m \in 1..Len(gpus) : gpus[m].gpu = g

\* The table has the GPUs at these places of the list in their order, and of
\* those that found no room none stands before one that did.
ListsFirst(list, places) ==
    /\ \A m \in 1..Len(gpus) : \E k \in places : gpus[m].gpu = list[k]
    /\ \A l, m \in 1..Len(gpus) : l < m =>
          \E j, k \in places :
              j < k /\ gpus[l].gpu = list[j] /\ gpus[m].gpu = list[k]
    /\ \A j, k \in places : j < k /\ HasEntry(list[k]) => HasEntry(list[j])
    /\ Len(gpus) = MaxGpus \/ \A k \in places : HasEntry(list[k])

\* If nothing changes meanwhile, a finished snapshot has the GPUs ROCm SMI
\* reports if that works, and otherwise, however far it came, every card of
\* amdgpu, as many as have room, in order (gpu_amd.c:147, 181).
SteadyTableComplete ==
    pc = "done" /\ steady =>
        IF rsmi = "up" THEN ListsFirst(devices, 1..Len(devices))
        ELSE ListsFirst(Cards, OfAmdgpu)

\* Each session is shut down on the way out, but for one: a device count that
\* fails after the init leaves the library initialised for good, once per
\* snapshot (gpu_amd.c:147-148).  Nothing else leaks, and nothing is shut down
\* that is not open.
LeaksAreFailedCounts ==
    sessions = failures
                 + (IF pc \in {"count", "devices", "shutdown"} THEN 1 ELSE 0)

-------------------------------------------------------------------------------
(* The GPU table is a bounded table that only grows. *)

GpuTable == INSTANCE SensorTable WITH
    Limit <- MaxGpus, Entry <- Entry, table <- gpus

ImplementsTable == GpuTable!Spec

===============================================================================
