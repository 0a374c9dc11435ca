-------------------------------- MODULE Nvidia --------------------------------
(***************************************************************************)
(* The NVIDIA collectors, as tm_collect_snapshot runs them one after the   *)
(* other over one GPU table: gpu_nvidia.c opens an NVML session and lists  *)
(* the devices, gpu_nvidia_cuda.c adds the CUDA ordinal to the entry with  *)
(* the same PCI id, nvidia_dcgm.c compares the indices dcgmi prints.       *)
(*                                                                         *)
(* Each library numbers the devices in its own way, and NVML prints the    *)
(* PCI id itself while match_by_pci prints what it looks for.  Drivers and *)
(* devices fail and come back at any time, also in the middle of a session.*)
(*                                                                         *)
(* An entry is the device it was read from; its temperatures, clocks and   *)
(* names, of which each may fail to read, are left out, and so are the     *)
(* CUDA properties that go with an ordinal.  The libraries have every      *)
(* symbol that is called without a check (only nvmlDeviceGetPciInfo_v3 and *)
(* nvmlDeviceGetClockInfo are checked where they are used).                *)
(***************************************************************************)
EXTENDS Integers, Sequences

CONSTANTS
    NvmlOrder,      \* the devices, in the order NVML numbers them
    CudaOrders,     \* orders in which the CUDA runtime may number them
    AlikeChoices,   \* sets of devices whose PCI id both sides print alike
    MaxGpus         \* TM_MAX_NVIDIA_GPUS

Gpu == {NvmlOrder[i] : i \in 1..Len(NvmlOrder)}

Distinct(s) == \A i, j \in 1..Len(s) : s[i] = s[j] => i = j

ASSUME NvidiaAssumption ==
    /\ NvmlOrder \in Seq(Gpu) /\ Distinct(NvmlOrder)
    /\ CudaOrders \subseteq Seq(Gpu) /\ \A o \in CudaOrders : Distinct(o)
    /\ AlikeChoices \subseteq SUBSET Gpu
    /\ MaxGpus \in Nat \ {0}

VARIABLES
    nvml, cuda,     \* what the two libraries are good for
    lost,           \* devices that do not answer
    cuda_order,     \* how this process' CUDA runtime numbers the devices
    alike,          \* devices whose PCI id both sides print alike
    pci_symbol,     \* NVML has nvmlDeviceGetPciInfo_v3
    pc,             \* where the collectors are
    session,        \* NVML is initialised
    i,              \* the loop variable of NVML's and of CUDA's device loop
    gpus,           \* snap->nvidia_gpus
    capabilities,   \* the NVIDIA bits of snap->capabilities
    listed,         \* auxiliary: indices dcgmi has printed in this snapshot
    steady          \* auxiliary: host as it was when the snapshot began

host == <<nvml, cuda, lost, cuda_order, alike, pci_symbol>>
vars == <<host, pc, session, i, gpus, capabilities, listed, steady>>

\* Not there; there, but its init or device count fails; in order.
Library == {"missing", "unusable", "up"}

NoOrdinal == -1

Entry == [index: Nat, gpu: Gpu, pci: BOOLEAN, ordinal: Nat \cup {NoOrdinal}]

InNvml == {"nvml_load", "nvml_init", "nvml_count", "nvml_devices",
           "nvml_fields", "nvml_shutdown", "nvml_return"}

TypeOK ==
    /\ nvml \in Library /\ cuda \in Library
    /\ lost \subseteq Gpu
    /\ cuda_order \in CudaOrders
    /\ alike \in AlikeChoices
    /\ pci_symbol \in BOOLEAN
    /\ pc \in InNvml \cup {"cuda", "cuda_devices", "dcgm", "dcgm_lines", "done"}
    /\ session \in BOOLEAN
    /\ i \in Nat
    /\ gpus \in Seq(Entry) /\ Len(gpus) <= MaxGpus
    /\ capabilities \subseteq {"NVML", "CUDA", "DCGM"}
    /\ listed \subseteq Nat
    /\ steady \in BOOLEAN

Init ==
    /\ nvml \in Library /\ cuda \in Library
    /\ lost \in SUBSET Gpu
    /\ cuda_order \in CudaOrders
    /\ alike \in AlikeChoices
    /\ pci_symbol \in BOOLEAN
    /\ pc = "done" /\ session = FALSE /\ i = 0
    /\ gpus = <<>> /\ capabilities = {}
    /\ listed = {} /\ steady = FALSE

-------------------------------------------------------------------------------
(* The host *)

HostChanges == /\ steady' = FALSE
               /\ UNCHANGED <<cuda_order, alike, pci_symbol, pc, session, i, gpus,
                              capabilities, listed>>

\* A driver is loaded or fails.  A library that was opened once stays open,
\* for nothing calls dlclose, and one that is installed is found next time.
DriverChanges ==
    /\ \/ nvml' \in {"unusable", "up"} \ {nvml} /\ UNCHANGED cuda
       \/ cuda' \in {"unusable", "up"} \ {cuda} /\ UNCHANGED nvml
    /\ UNCHANGED lost
    /\ HostChanges

\* A device falls off the bus, or is reset and answers again.
DeviceChanges(g) ==
    /\ lost' = IF g \in lost THEN lost \ {g} ELSE lost \cup {g}
    /\ UNCHANGED <<nvml, cuda>>
    /\ HostChanges

-------------------------------------------------------------------------------
(* tm_collect_nvidia *)

\* The memset of tm_collect_snapshot; the collectors before this one do not
\* touch the GPUs.
Begin ==
    /\ pc = "done"
    /\ pc' = "nvml_load"
    /\ gpus' = <<>> /\ capabilities' = {}
    /\ listed' = {} /\ steady' = TRUE
    /\ UNCHANGED <<host, session, i>>

Goto(place) ==
    /\ pc' = place
    /\ UNCHANGED <<host, session, i, gpus, capabilities, listed, steady>>

LoadNvml ==
    /\ pc = "nvml_load"
    /\ Goto(IF nvml = "missing" THEN "nvml_return" ELSE "nvml_init")

\* An init that fails opens no session.
NvmlInit ==
    /\ pc = "nvml_init"
    /\ IF nvml = "up" THEN pc' = "nvml_count" /\ session' = TRUE
                      ELSE pc' = "nvml_return" /\ UNCHANGED session
    /\ UNCHANGED <<host, i, gpus, capabilities, listed, steady>>

\* Faulty variant: a failed count returns at once.
NvmlCountReturns ==
    /\ pc = "nvml_count"
    /\ pc' = IF nvml = "up" THEN "nvml_devices" ELSE "nvml_return"
    /\ i' = 0
    /\ UNCHANGED <<host, session, gpus, capabilities, listed, steady>>

\* A failed count shuts down first.  Lost devices are still counted.
NvmlCount ==
    /\ pc = "nvml_count"
    /\ pc' = IF nvml = "up" THEN "nvml_devices" ELSE "nvml_shutdown"
    /\ i' = 0
    /\ UNCHANGED <<host, session, gpus, capabilities, listed, steady>>

\* Faulty variant: the room in the table is forgotten.
MoreDevicesThanRoom == i < Len(NvmlOrder)

\* The condition of the device loop.
MoreDevices == i < Len(NvmlOrder) /\ Len(gpus) < MaxGpus

Answers(g) == nvml = "up" /\ g \notin lost

\* Faulty variant: a device without a handle ends the loop.
OpenDeviceBreaks ==
    /\ pc = "nvml_devices" /\ MoreDevices
    /\ IF Answers(NvmlOrder[i + 1])
       THEN pc' = "nvml_fields" /\ UNCHANGED i
       ELSE i' = Len(NvmlOrder) /\ UNCHANGED pc
    /\ UNCHANGED <<host, session, gpus, capabilities, listed, steady>>

\* Faulty variant: continue does not go on to the next device.
OpenDeviceStays ==
    /\ pc = "nvml_devices" /\ MoreDevices
    /\ pc' = IF Answers(NvmlOrder[i + 1]) THEN "nvml_fields" ELSE pc
    /\ UNCHANGED <<host, i, session, gpus, capabilities, listed, steady>>

\* nvmlDeviceGetHandleByIndex; a device without a handle has no entry.
OpenDevice ==
    /\ pc = "nvml_devices" /\ MoreDevices
    /\ IF Answers(NvmlOrder[i + 1])
       THEN pc' = "nvml_fields" /\ UNCHANGED i
       ELSE i' = i + 1 /\ UNCHANGED pc
    /\ UNCHANGED <<host, session, gpus, capabilities, listed, steady>>

\* Faulty variant: gpu_index is the place in the table.
ReadDeviceBySlot ==
    /\ pc = "nvml_fields"
    /\ gpus' = Append(gpus,
          [index |-> Len(gpus), gpu |-> NvmlOrder[i + 1], ordinal |-> NoOrdinal,
           pci |-> pci_symbol /\ Answers(NvmlOrder[i + 1])])
    /\ i' = i + 1
    /\ pc' = "nvml_devices"
    /\ UNCHANGED <<host, session, capabilities, listed, steady>>

\* Whatever fails from here on leaves its field zero, and the entry counts.
ReadDevice ==
    /\ pc = "nvml_fields"
    /\ gpus' = Append(gpus,
          [index |-> i, gpu |-> NvmlOrder[i + 1], ordinal |-> NoOrdinal,
           pci |-> pci_symbol /\ Answers(NvmlOrder[i + 1])])
    /\ i' = i + 1
    /\ pc' = "nvml_devices"
    /\ UNCHANGED <<host, session, capabilities, listed, steady>>

EndDevices ==
    /\ pc = "nvml_devices" /\ ~MoreDevices
    /\ capabilities' = IF gpus # <<>> THEN {"NVML"} ELSE {}
    /\ pc' = "nvml_shutdown"
    /\ UNCHANGED <<host, session, i, gpus, listed, steady>>

NvmlShutdown ==
    /\ pc = "nvml_shutdown"
    /\ session' = FALSE
    /\ pc' = "nvml_return"
    /\ UNCHANGED <<host, i, gpus, capabilities, listed, steady>>

NvmlReturn == pc = "nvml_return" /\ Goto("cuda")

-------------------------------------------------------------------------------
(* tm_collect_nvidia_cuda *)

\* The runtime is loaded and counts its devices.
CudaCount ==
    /\ pc = "cuda"
    /\ IF cuda = "up" THEN pc' = "cuda_devices" /\ i' = 0
                      ELSE pc' = "dcgm" /\ UNCHANGED i
    /\ UNCHANGED <<host, session, gpus, capabilities, listed, steady>>

\* The entries match_by_pci may find: the PCI id of the device, as it is
\* printed there, stands in the entry.
Matches(g) ==
    {k \in 1..Len(gpus) : gpus[k].pci /\ gpus[k].gpu = g /\ g \in alike}

First(places) == CHOOSE k \in places : \A m \in places : k <= m

\* An entry, if there is one, gets the ordinal.  The runtime may still know the
\* properties of a device that is lost by now ...
CudaDevice ==
    /\ pc = "cuda_devices" /\ i < Len(cuda_order)
    /\ LET places == Matches(cuda_order[i + 1])
       IN  gpus' = IF places = {} THEN gpus
                   ELSE [gpus EXCEPT ![First(places)].ordinal = i]
    /\ i' = i + 1
    /\ UNCHANGED <<host, pc, session, capabilities, listed, steady>>

\* ... or fail to give them, and the device is passed over.
CudaDeviceFails ==
    /\ pc = "cuda_devices" /\ i < Len(cuda_order)
    /\ cuda # "up" \/ cuda_order[i + 1] \in lost
    /\ i' = i + 1
    /\ UNCHANGED <<host, pc, session, gpus, capabilities, listed, steady>>

\* The bit says that there are CUDA devices, matched or not.
CudaEnd ==
    /\ pc = "cuda_devices" /\ i = Len(cuda_order)
    /\ capabilities' = IF cuda_order # <<>> THEN capabilities \cup {"CUDA"}
                       ELSE capabilities
    /\ pc' = "dcgm"
    /\ UNCHANGED <<host, session, i, gpus, listed, steady>>

-------------------------------------------------------------------------------
(* tm_collect_nvidia_dcgm *)

\* dcgmi is not installed, or popen fails.
DcgmAbsent == pc = "dcgm" /\ Goto("done")

DcgmOpen == pc = "dcgm" /\ Goto("dcgm_lines")

\* Faulty variant: any GPU will do.
DcgmLineAny(index) ==
    /\ pc = "dcgm_lines"
    /\ listed' = listed \cup {index}
    /\ capabilities' = capabilities \cup {"DCGM"}
    /\ UNCHANGED <<host, pc, session, i, gpus, steady>>

\* A line "GPU <index> ..."; others say nothing.
DcgmLine(index) ==
    /\ pc = "dcgm_lines"
    /\ listed' = listed \cup {index}
    /\ capabilities' = IF \E k \in 1..Len(gpus) : gpus[k].index = index
                       THEN capabilities \cup {"DCGM"} ELSE capabilities
    /\ UNCHANGED <<host, pc, session, i, gpus, steady>>

DcgmEnd == pc = "dcgm_lines" /\ Goto("done")

Collect ==
    \/ LoadNvml \/ NvmlInit \/ NvmlCount \/ OpenDevice \/ ReadDevice
    \/ EndDevices \/ NvmlShutdown \/ NvmlReturn
    \/ CudaCount \/ CudaDevice \/ CudaDeviceFails \/ CudaEnd
    \/ DcgmAbsent \/ DcgmOpen \/ DcgmEnd

Next ==
    \/ Begin \/ Collect
    \/ \E index \in 0..Len(NvmlOrder)-1 : DcgmLine(index)
    \/ DriverChanges
    \/ \E g \in Gpu : DeviceChanges(g)

Spec == Init /\ [][Next]_vars

\* The process is scheduled, and the calls it makes return.
FairSpec == Spec /\ WF_vars(Collect)

-------------------------------------------------------------------------------
(* Properties *)

\* Whatever is lost or skipped in between, the two numbers of an entry name the
\* device it was read from: the index is NVML's (gpu_nvidia.c:110), which dcgmi
\* and the Prometheus labels go by, and the ordinal is CUDA's
\* (gpu_nvidia_cuda.c:172); no device has two entries.
EntriesNameTheirGpus ==
    \A k \in 1..Len(gpus) :
        /\ NvmlOrder[gpus[k].index + 1] = gpus[k].gpu
        /\ gpus[k].ordinal # NoOrdinal =>
              cuda_order[gpus[k].ordinal + 1] = gpus[k].gpu
        /\ \A m \in 1..Len(gpus) : m < k => gpus[m].index < gpus[k].index

Answering == {k \in 1..Len(NvmlOrder) : NvmlOrder[k] \notin lost}

HasEntry(g) == \E m \in 1..Len(gpus) : gpus[m].gpu = g

\* The table has the devices of these numbers in their order, and of those that
\* found no room none stands before one that did.
ListsFirst(numbers) ==
    /\ \A m \in 1..Len(gpus) : \E k \in numbers : gpus[m].gpu = NvmlOrder[k]
    /\ \A l, m \in 1..Len(gpus) : l < m =>
          \E j, k \in numbers :
              j < k /\ gpus[l].gpu = NvmlOrder[j] /\ gpus[m].gpu = NvmlOrder[k]
    /\ \A j, k \in numbers :
          j < k /\ HasEntry(NvmlOrder[k]) => HasEntry(NvmlOrder[j])
    /\ Len(gpus) = MaxGpus \/ \A k \in numbers : HasEntry(NvmlOrder[k])

Visible(g) == \E k \in 1..Len(cuda_order) : cuda_order[k] = g

\* If nothing fails or comes back meanwhile, a finished snapshot lists every
\* device that answers, as many as have room, in NVML's order, and an entry has
\* an ordinal exactly if CUDA sees the device and both sides print its PCI id
\* alike (gpu_nvidia.c:97-144, gpu_nvidia_cuda.c:158-179).
SteadyTableComplete ==
    pc = "done" /\ steady =>
        /\ IF nvml = "up" THEN ListsFirst(Answering) ELSE gpus = <<>>
        /\ \A k \in 1..Len(gpus) :
              gpus[k].ordinal # NoOrdinal <=>
                  /\ cuda = "up" /\ Visible(gpus[k].gpu)
                  /\ pci_symbol /\ gpus[k].gpu \in alike

\* Once NVML is done its bit stands for a non-empty table, so the source json.c
\* and prometheus.c print with an entry is never "unknown" or "cuda" alone
\* (json.c:103-114); an entry with an ordinal has the CUDA bit; the DCGM bit
\* means that dcgmi has listed a GPU of the table in this snapshot.
BitsExplained ==
    /\ pc \notin InNvml => (gpus # <<>> <=> "NVML" \in capabilities)
    /\ pc = "done" /\ (\E k \in 1..Len(gpus) : gpus[k].ordinal # NoOrdinal) =>
          "CUDA" \in capabilities
    /\ "DCGM" \in capabilities =>
          \E k \in 1..Len(gpus) : gpus[k].index \in listed

\* Devices and drivers that come and go keep no collector from its end.
SnapshotEnds == pc = "nvml_load" ~> pc = "done"

\* "CUDA runtime is a correlation layer.  It is used for: mapping CUDA ordinal
\* to the NVML device" (README.md:151-153): if nothing changes meanwhile, a
\* device that both libraries report gets its ordinal.
DevicesAreCorrelated ==
    pc = "done" /\ steady /\ cuda = "up" /\ pci_symbol =>
        \A k \in 1..Len(gpus) :
            Visible(gpus[k].gpu) => gpus[k].ordinal # NoOrdinal

-------------------------------------------------------------------------------
(* The NVML collector keeps to the discipline of a vendor session. *)

Session == INSTANCE VendorSession WITH
    inside <- pc \in InNvml, open <- session

ImplementsSession == Session!Spec

===============================================================================
