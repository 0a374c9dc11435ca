----------------------------- MODULE Nvidia_proofs -----------------------------
(***************************************************************************)
(* Proofs about Nvidia.tla, for any devices, any numbering by NVML and     *)
(* CUDA, and a table of any size.  The invariant follows the table through *)
(* the collectors: NVML fills it in the order of the device loop, CUDA     *)
(* changes ordinals only, and dcgmi changes nothing but its bit.           *)
(***************************************************************************)
EXTENDS Nvidia, TLAPS

InSession == {"nvml_count", "nvml_devices", "nvml_fields", "nvml_shutdown"}

BeforeEntries == {"nvml_load", "nvml_init", "nvml_count"}

InLoop == {"nvml_devices", "nvml_fields"}

\* NVML is initialised between its init and its shutdown.
SessionInv == session <=> pc \in InSession

\* The device loop is past every entry, and in the middle of one it has a
\* device and room for it.
LoopInv ==
    /\ pc \in BeforeEntries => gpus = <<>>
    /\ pc \in InLoop => \A k \in 1..Len(gpus) : gpus[k].index < i
    /\ pc = "nvml_fields" => i < Len(NvmlOrder) /\ Len(gpus) < MaxGpus

\* An entry has the number of a device, and an ordinal only after CUDA found
\* devices.
EntryInv ==
    \A k \in 1..Len(gpus) :
        /\ gpus[k].index < Len(NvmlOrder)
        /\ gpus[k].ordinal # NoOrdinal =>
              pc \notin InNvml \cup {"cuda"} /\ cuda_order # <<>>

\* The bits are set when their collector ends, the last with its line.
BitInv ==
    /\ pc \in BeforeEntries \cup InLoop => capabilities = {}
    /\ pc \notin BeforeEntries \cup InLoop =>
          (gpus # <<>> <=> "NVML" \in capabilities)
    /\ pc \in {"dcgm", "dcgm_lines", "done"}
          /\ (\E k \in 1..Len(gpus) : gpus[k].ordinal # NoOrdinal) =>
          "CUDA" \in capabilities
    /\ pc \notin {"dcgm_lines", "done"} => "DCGM" \notin capabilities
    /\ "DCGM" \in capabilities =>
          \E k \in 1..Len(gpus) : gpus[k].index \in listed

\* While nothing fails or comes back, NVML works throughout or not at all, its
\* loop has passed over lost devices only, and its end leaves out no other.
ListInv ==
    steady =>
        /\ pc \in InLoop =>
              /\ nvml = "up"
              /\ \A m \in 1..Len(gpus) : gpus[m].gpu \notin lost
              /\ \A k \in Answering : k <= i => HasEntry(NvmlOrder[k])
        /\ pc = "nvml_fields" => NvmlOrder[i + 1] \notin lost
        /\ pc \notin BeforeEntries \cup InLoop =>
              IF nvml = "up" THEN ListsFirst(Answering) ELSE gpus = <<>>

Corresponds(g) == cuda = "up" /\ pci_symbol /\ g \in alike

\* Meanwhile the entries have PCI ids if they can, and those of the devices that
\* the CUDA loop has come past have their ordinals.
OrdinalInv ==
    steady =>
        /\ \A m \in 1..Len(gpus) : gpus[m].pci = pci_symbol
        /\ pc = "cuda_devices" => cuda = "up"
        /\ pc \notin InNvml \cup {"cuda"} =>
              \A m \in 1..Len(gpus) :
                 gpus[m].ordinal # NoOrdinal <=>
                    /\ Corresponds(gpus[m].gpu)
                    /\ \E c \in 1..Len(cuda_order) :
                          /\ cuda_order[c] = gpus[m].gpu
                          /\ pc = "cuda_devices" => c <= i

IInv ==
    /\ TypeOK /\ SessionInv /\ LoopInv /\ EntryInv
    /\ EntriesNameTheirGpus /\ BitInv
    /\ ListInv /\ OrdinalInv

-------------------------------------------------------------------------------
(* Entries *)

LEMMA AppendOne ==
    ASSUME NEW S, NEW s \in Seq(S), NEW e \in S
    PROVE  /\ Append(s, e) \in Seq(S)
           /\ Len(Append(s, e)) = Len(s) + 1
           /\ Append(s, e)[Len(s) + 1] = e
           /\ \A k \in 1..Len(s) : Append(s, e)[k] = s[k]
  OBVIOUS

LEMMA EmptyTable == <<>> \in Seq(Entry) /\ Len(<<>>) = 0
  OBVIOUS

LEMMA IndexTyped ==
    ASSUME TypeOK, NEW k \in 1..Len(gpus)
    PROVE  gpus[k].index \in Nat
  <1>1. gpus[k] \in Entry
    BY DEF TypeOK
  <1> QED BY <1>1 DEF Entry

LEMMA DeviceIsGpu ==
    \A k \in 1..Len(NvmlOrder) : NvmlOrder[k] \in Gpu
  BY DEF Gpu

\* What ReadDevice puts into the table.
NewEntry == [index |-> i, gpu |-> NvmlOrder[i + 1], ordinal |-> NoOrdinal,
             pci |-> pci_symbol /\ Answers(NvmlOrder[i + 1])]

LEMMA ReadDeviceAppends ==
    ASSUME TypeOK, LoopInv, ReadDevice
    PROVE  /\ gpus' = Append(gpus, NewEntry)
           /\ NewEntry \in Entry
           /\ NewEntry.index = i /\ NewEntry.gpu = NvmlOrder[i + 1]
           /\ NewEntry.ordinal = NoOrdinal
           /\ i < Len(NvmlOrder) /\ Len(gpus) < MaxGpus
  <1>1. i \in Nat /\ i < Len(NvmlOrder) /\ Len(gpus) < MaxGpus
    BY DEF TypeOK, LoopInv, ReadDevice
  <1>2. NvmlOrder[i + 1] \in Gpu
    BY <1>1, DeviceIsGpu, NvidiaAssumption
  <1>3. (pci_symbol /\ Answers(NvmlOrder[i + 1])) \in BOOLEAN
    BY DEF TypeOK, Answers
  <1>4. NewEntry \in Entry
    BY <1>1, <1>2, <1>3 DEF NewEntry, Entry, NoOrdinal
  <1> QED BY <1>1, <1>4 DEF ReadDevice, NewEntry

\* The CUDA loop matches a device with one entry at most.
LEMMA MatchIsUnique ==
    ASSUME TypeOK, EntryInv, EntriesNameTheirGpus, NEW g \in Gpu,
           NEW k \in Matches(g), NEW m \in Matches(g)
    PROVE  k = m
  <1>1. /\ k \in 1..Len(gpus) /\ m \in 1..Len(gpus)
        /\ gpus[k].gpu = gpus[m].gpu
    BY DEF Matches
  <1>2. gpus[k] \in Entry /\ gpus[m] \in Entry
    BY <1>1 DEF TypeOK
  <1>3. /\ gpus[k].index \in Nat /\ gpus[k].index < Len(NvmlOrder)
        /\ gpus[m].index \in Nat /\ gpus[m].index < Len(NvmlOrder)
    BY <1>1, <1>2 DEF EntryInv, Entry
  <1>4. NvmlOrder[gpus[k].index + 1] = NvmlOrder[gpus[m].index + 1]
    BY <1>1 DEF EntriesNameTheirGpus
  <1>5. gpus[k].index = gpus[m].index
    <2> DEFINE a == gpus[k].index + 1
               b == gpus[m].index + 1
    <2>1. NvmlOrder \in Seq(Gpu) /\ Distinct(NvmlOrder)
      BY NvidiaAssumption
    <2>2. a \in 1..Len(NvmlOrder) /\ b \in 1..Len(NvmlOrder)
      BY <1>3, <2>1
    <2>3. NvmlOrder[a] = NvmlOrder[b]
      BY <1>4
    <2> HIDE DEF a, b
    <2>4. a = b
      BY <2>1, <2>2, <2>3, Zenon DEF Distinct
    <2> QED BY <1>3, <2>4 DEF a, b
  <1>6. ~(k < m) /\ ~(m < k)
    BY <1>1, <1>3, <1>5 DEF EntriesNameTheirGpus
  <1> QED BY <1>1, <1>6

\* A CUDA device changes no more than the ordinal of its own entry.
LEMMA CudaDeviceMatches ==
    ASSUME TypeOK, EntryInv, EntriesNameTheirGpus, CudaDevice
    PROVE  /\ gpus' \in Seq(Entry) /\ Len(gpus') = Len(gpus)
           /\ \A k \in 1..Len(gpus) :
                 /\ gpus'[k].index = gpus[k].index
                 /\ gpus'[k].gpu = gpus[k].gpu
                 /\ gpus'[k].pci = gpus[k].pci
                 /\ gpus'[k].ordinal = IF k \in Matches(cuda_order[i + 1])
                                       THEN i ELSE gpus[k].ordinal
                 /\ \/ gpus'[k].ordinal = gpus[k].ordinal
                    \/ /\ gpus'[k].ordinal = i
                       /\ cuda_order[i + 1] = gpus[k].gpu
  <1> DEFINE g == cuda_order[i + 1]
             places == Matches(g)
             f == First(places)
  <1>1. gpus' = IF places = {} THEN gpus ELSE [gpus EXCEPT ![f].ordinal = i]
    BY DEF CudaDevice
  <1>2. CASE places = {}
    BY <1>1, <1>2 DEF TypeOK
  <1>3. CASE places # {}
    <2>1. g \in Gpu
      BY NvidiaAssumption DEF TypeOK, CudaDevice
    <2>2. PICK k \in places : TRUE
      BY <1>3
    <2>3. \A m \in places : k = m
      BY <2>1, <2>2, MatchIsUnique
    <2>4. \A m \in places : k <= m
      BY <2>2, <2>3 DEF Matches
    <2>5. f \in places
      BY <2>2, <2>4 DEF First
    <2>6. f \in 1..Len(gpus) /\ gpus[f].gpu = g
      BY <2>5 DEF Matches
    <2>7. \A m \in 1..Len(gpus) : gpus[m] \in Entry
      BY DEF TypeOK
    <2>8. /\ Len(gpus') = Len(gpus) /\ DOMAIN gpus' = 1..Len(gpus)
          /\ gpus'[f] = [gpus[f] EXCEPT !.ordinal = i]
          /\ \A m \in 1..Len(gpus) : m # f => gpus'[m] = gpus[m]
      BY <1>1, <1>3, <2>6 DEF TypeOK
    <2>9. /\ gpus'[f] \in Entry /\ gpus'[f].ordinal = i
          /\ gpus'[f].index = gpus[f].index /\ gpus'[f].gpu = gpus[f].gpu
          /\ gpus'[f].pci = gpus[f].pci
      BY <2>6, <2>7, <2>8 DEF Entry, TypeOK
    <2>10. gpus' \in Seq(Entry)
      BY <1>1, <1>3, <2>6, <2>7, <2>8, <2>9 DEF TypeOK
    <2>11. \A m : m \in places <=> m = f
      BY <2>3, <2>5
    <2> HIDE DEF g, places, f
    <2>12. ASSUME NEW m \in 1..Len(gpus)
           PROVE  gpus'[m].ordinal = IF m \in places THEN i ELSE gpus[m].ordinal
      <3>1. CASE m = f
        BY <2>9, <2>11, <3>1
      <3>2. CASE m # f
        BY <2>8, <2>11, <3>2
      <3> QED BY <3>1, <3>2
    <2>13. \A m \in 1..Len(gpus) :
              /\ gpus'[m].index = gpus[m].index /\ gpus'[m].gpu = gpus[m].gpu
              /\ gpus'[m].pci = gpus[m].pci
              /\ \/ gpus'[m].ordinal = gpus[m].ordinal
                 \/ gpus'[m].ordinal = i /\ gpus[m].gpu = g
      BY <2>6, <2>8, <2>9
    <2> QED BY <2>8, <2>10, <2>12, <2>13 DEF g, places
  <1> QED BY <1>2, <1>3

-------------------------------------------------------------------------------
(* Each part of the invariant, step by step *)

\* The steps that leave the table alone.
LEMMA TableKept ==
    ASSUME [Next]_vars
    PROVE  Begin \/ ReadDevice \/ CudaDevice \/ gpus' = gpus
  BY DEF Next, vars, host, Collect, LoadNvml, NvmlInit, NvmlCount, OpenDevice,
         EndDevices, NvmlShutdown, NvmlReturn, CudaCount, CudaDeviceFails,
         CudaEnd, DcgmAbsent, DcgmOpen, DcgmEnd, DcgmLine, Goto,
         DriverChanges, DeviceChanges, HostChanges

LEMMA HostTyped ==
    ASSUME TypeOK, [Next]_vars
    PROVE  /\ nvml' \in Library /\ cuda' \in Library /\ lost' \subseteq Gpu
           /\ cuda_order' = cuda_order /\ alike' = alike
           /\ pci_symbol' = pci_symbol
           /\ steady' \in BOOLEAN
  BY DEF TypeOK, Library, Next, vars, host, Begin, Collect, LoadNvml, NvmlInit,
         NvmlCount, OpenDevice, ReadDevice, EndDevices, NvmlShutdown,
         NvmlReturn, CudaCount, CudaDevice, CudaDeviceFails, CudaEnd,
         DcgmAbsent, DcgmOpen, DcgmEnd, DcgmLine, Goto,
         DriverChanges, DeviceChanges, HostChanges

LEMMA ControlTyped ==
    ASSUME TypeOK, [Next]_vars
    PROVE  /\ pc' \in InNvml \cup {"cuda", "cuda_devices", "dcgm",
                                   "dcgm_lines", "done"}
           /\ session' \in BOOLEAN
           /\ i' \in Nat
  <1>1. pc' \in InNvml \cup {"cuda", "cuda_devices", "dcgm", "dcgm_lines",
                            "done"}
    BY DEF TypeOK, InNvml, Next, vars, host, Begin, Collect, LoadNvml, NvmlInit,
           NvmlCount, OpenDevice, ReadDevice, EndDevices, NvmlShutdown,
           NvmlReturn, CudaCount, CudaDevice, CudaDeviceFails, CudaEnd,
           DcgmAbsent, DcgmOpen, DcgmEnd, DcgmLine, Goto,
           DriverChanges, DeviceChanges, HostChanges
  <1>2. session' \in BOOLEAN
    BY DEF TypeOK, Next, vars, host, Begin, Collect, LoadNvml, NvmlInit,
           NvmlCount, OpenDevice, ReadDevice, EndDevices, NvmlShutdown,
           NvmlReturn, CudaCount, CudaDevice, CudaDeviceFails, CudaEnd,
           DcgmAbsent, DcgmOpen, DcgmEnd, DcgmLine, Goto,
           DriverChanges, DeviceChanges, HostChanges
  <1>3. i' = i \/ i' = 0 \/ i' = i + 1
    BY DEF Next, vars, host, Begin, Collect, LoadNvml, NvmlInit,
           NvmlCount, OpenDevice, ReadDevice, EndDevices, NvmlShutdown,
           NvmlReturn, CudaCount, CudaDevice, CudaDeviceFails, CudaEnd,
           DcgmAbsent, DcgmOpen, DcgmEnd, DcgmLine, Goto,
           DriverChanges, DeviceChanges, HostChanges
  <1>4. i' \in Nat
    BY <1>3 DEF TypeOK
  <1> QED BY <1>1, <1>2, <1>4

LEMMA BitsTyped ==
    ASSUME TypeOK, [Next]_vars
    PROVE  /\ capabilities' \subseteq {"NVML", "CUDA", "DCGM"}
           /\ listed' \subseteq Nat
  <1>1. ASSUME NEW index \in 0..Len(NvmlOrder)-1, DcgmLine(index)
        PROVE  /\ capabilities' \subseteq {"NVML", "CUDA", "DCGM"}
               /\ listed' \subseteq Nat
    <2>1. index \in Nat
      BY NvidiaAssumption
    <2> QED BY <1>1, <2>1 DEF TypeOK, DcgmLine
  <1>2. CASE ~\E index \in 0..Len(NvmlOrder)-1 : DcgmLine(index)
    BY <1>2
       DEF TypeOK, Next, vars, host, Begin, Collect, LoadNvml, NvmlInit,
         NvmlCount, OpenDevice, ReadDevice, EndDevices, NvmlShutdown,
         NvmlReturn, CudaCount, CudaDevice, CudaDeviceFails, CudaEnd,
         DcgmAbsent, DcgmOpen, DcgmEnd, Goto,
         DriverChanges, DeviceChanges, HostChanges
  <1> QED BY <1>1, <1>2

LEMMA TableTyped ==
    ASSUME IInv, [Next]_vars
    PROVE  gpus' \in Seq(Entry) /\ Len(gpus') <= MaxGpus
  <1> USE DEF IInv
  <1>1. CASE Begin
    BY <1>1, EmptyTable, NvidiaAssumption DEF Begin
  <1>2. CASE ReadDevice
    <2>1. gpus' = Append(gpus, NewEntry) /\ NewEntry \in Entry
          /\ Len(gpus) < MaxGpus
      BY <1>2, ReadDeviceAppends
    <2>2. gpus' \in Seq(Entry) /\ Len(gpus') = Len(gpus) + 1
      BY <2>1, AppendOne DEF TypeOK
    <2>3. Len(gpus) \in Nat /\ MaxGpus \in Nat
      BY NvidiaAssumption DEF TypeOK
    <2> QED BY <2>1, <2>2, <2>3
  <1>3. CASE CudaDevice
    BY <1>3, CudaDeviceMatches DEF TypeOK
  <1>4. CASE gpus' = gpus
    BY <1>4 DEF TypeOK
  <1> QED BY <1>1, <1>2, <1>3, <1>4, TableKept

LEMMA TypeStep ==
    ASSUME IInv, [Next]_vars
    PROVE  TypeOK'
  <1>1. TypeOK
    BY DEF IInv
  <1>2. /\ nvml' \in Library /\ cuda' \in Library /\ lost' \subseteq Gpu
        /\ cuda_order' \in CudaOrders /\ alike' \in AlikeChoices
        /\ pci_symbol' \in BOOLEAN /\ steady' \in BOOLEAN
    BY <1>1, HostTyped DEF TypeOK
  <1> QED BY <1>1, <1>2, ControlTyped, BitsTyped, TableTyped DEF TypeOK

LEMMA SessionStep ==
    ASSUME SessionInv, [Next]_vars
    PROVE  SessionInv'
  BY DEF SessionInv, InSession, Next, vars, host, Begin, Collect, LoadNvml,
         NvmlInit, NvmlCount, OpenDevice, ReadDevice, EndDevices, NvmlShutdown,
         NvmlReturn, CudaCount, CudaDevice, CudaDeviceFails, CudaEnd,
         DcgmAbsent, DcgmOpen, DcgmEnd, DcgmLine, Goto,
         DriverChanges, DeviceChanges, HostChanges

\* What a step that leaves the table alone may do to the place and to the
\* loop variable.
LEMMA QuietMoves ==
    ASSUME [Next]_vars, ~Begin, ~ReadDevice, ~CudaDevice
    PROVE  /\ pc' \in BeforeEntries => pc \in BeforeEntries
           /\ pc' \in InLoop =>
                 pc = "nvml_count" \/ OpenDevice \/ (pc' = pc /\ i' = i)
           /\ pc' \in InNvml \cup {"cuda"} => pc \in InNvml \cup {"cuda"}
           /\ pc' \in {"nvml_shutdown", "nvml_return", "cuda",
                       "cuda_devices", "dcgm", "dcgm_lines", "done"} =>
                 \/ EndDevices \/ CudaEnd
                 \/ \E index \in 0..Len(NvmlOrder)-1 : DcgmLine(index)
                 \/ capabilities' = capabilities /\ listed' = listed
  BY DEF BeforeEntries, InLoop, InNvml, Next, OpenDevice,
           vars, host, Collect, LoadNvml, NvmlInit, NvmlCount, EndDevices,
           NvmlShutdown, NvmlReturn, CudaCount, CudaDeviceFails, CudaEnd,
           DcgmAbsent, DcgmOpen, DcgmEnd, DcgmLine, Goto,
           DriverChanges, DeviceChanges, HostChanges

LEMMA LoopStep ==
    ASSUME IInv, [Next]_vars
    PROVE  LoopInv'
  <1>1. TypeOK /\ LoopInv
    BY DEF IInv
  <1>2. i \in Nat
    BY <1>1 DEF TypeOK
  <1>3. CASE Begin
    BY <1>3 DEF LoopInv, Begin, BeforeEntries, InLoop
  <1>4. CASE ReadDevice
    <2>1. /\ gpus' = Append(gpus, NewEntry) /\ NewEntry.index = i
          /\ NewEntry \in Entry
      BY <1>1, <1>4, ReadDeviceAppends
    <2>2. /\ Len(gpus') = Len(gpus) + 1
          /\ gpus'[Len(gpus) + 1] = NewEntry
          /\ \A k \in 1..Len(gpus) : gpus'[k] = gpus[k]
      BY <1>1, <2>1, AppendOne DEF TypeOK
    <2>3. Len(gpus) \in Nat
      BY <1>1 DEF TypeOK
    <2>4. pc = "nvml_fields" /\ pc' = "nvml_devices" /\ i' = i + 1
      BY <1>4 DEF ReadDevice
    <2>5. ASSUME NEW k \in 1..Len(gpus')
          PROVE  gpus'[k].index < i + 1
      <3>1. CASE k = Len(gpus) + 1
        BY <1>2, <2>1, <2>2, <3>1
      <3>2. CASE k \in 1..Len(gpus)
        <4>1. gpus[k].index < i /\ gpus[k].index \in Nat
          BY <1>1, <2>4, <3>2, IndexTyped DEF LoopInv, InLoop
        <4> QED BY <1>2, <2>2, <3>2, <4>1
      <3> QED BY <2>2, <2>3, <3>1, <3>2
    <2> QED BY <2>4, <2>5 DEF LoopInv, BeforeEntries, InLoop
  <1>5. CASE CudaDevice
    BY <1>5 DEF LoopInv, CudaDevice, BeforeEntries, InLoop
  <1>6. CASE ~Begin /\ ~ReadDevice /\ ~CudaDevice
    <2>1. gpus' = gpus
      BY <1>6, TableKept
    <2>2. pc' \in BeforeEntries => gpus' = <<>>
      BY <1>1, <1>6, <2>1, QuietMoves DEF LoopInv
    <2>3. ASSUME pc' \in InLoop, NEW k \in 1..Len(gpus)
          PROVE  gpus[k].index < i'
      <3>1. gpus[k].index \in Nat
        BY <1>1, IndexTyped
      <3>2. CASE pc = "nvml_count"
        BY <1>1, <3>2 DEF LoopInv, BeforeEntries
      <3>3. CASE OpenDevice
        <4>1. gpus[k].index < i
          BY <1>1, <3>3 DEF LoopInv, InLoop, OpenDevice
        <4>2. i' = i \/ i' = i + 1
          BY <3>3 DEF OpenDevice
        <4> QED BY <1>2, <3>1, <4>1, <4>2
      <3>4. CASE pc' = pc /\ i' = i
        BY <1>1, <2>3, <3>4 DEF LoopInv
      <3> QED BY <1>6, <2>3, <3>2, <3>3, <3>4, QuietMoves
    <2>4. ASSUME pc' = "nvml_fields"
          PROVE  i' < Len(NvmlOrder) /\ Len(gpus) < MaxGpus
      <3>1. (pc = "nvml_fields" /\ i' = i) \/ OpenDevice
        BY <1>6, <2>4
           DEF Next, OpenDevice, vars, host, Collect, LoadNvml, NvmlInit, NvmlCount, EndDevices,
           NvmlShutdown, NvmlReturn, CudaCount, CudaDeviceFails, CudaEnd,
           DcgmAbsent, DcgmOpen, DcgmEnd, DcgmLine, Goto,
           DriverChanges, DeviceChanges, HostChanges
      <3>2. CASE OpenDevice
        BY <2>4, <3>2 DEF OpenDevice, MoreDevices
      <3> QED BY <1>1, <3>1, <3>2 DEF LoopInv
    <2> QED BY <2>1, <2>2, <2>3, <2>4 DEF LoopInv
  <1> QED BY <1>3, <1>4, <1>5, <1>6

LEMMA EntryStep ==
    ASSUME IInv, [Next]_vars
    PROVE  EntryInv'
  <1>1. TypeOK /\ LoopInv /\ EntryInv /\ EntriesNameTheirGpus
    BY DEF IInv
  <1>2. cuda_order' = cuda_order
    BY <1>1, HostTyped
  <1>3. CASE Begin
    BY <1>3 DEF EntryInv, Begin
  <1>4. CASE ReadDevice
    <2>1. /\ gpus' = Append(gpus, NewEntry) /\ NewEntry \in Entry
          /\ NewEntry.index < Len(NvmlOrder) /\ NewEntry.ordinal = NoOrdinal
      BY <1>1, <1>4, ReadDeviceAppends
    <2>2. /\ Len(gpus') = Len(gpus) + 1 /\ Len(gpus) \in Nat
          /\ gpus'[Len(gpus) + 1] = NewEntry
          /\ \A k \in 1..Len(gpus) : gpus'[k] = gpus[k]
      BY <1>1, <2>1, AppendOne DEF TypeOK
    <2>3. pc \in InNvml
      BY <1>4 DEF ReadDevice, InNvml
    <2>4. \A k \in 1..Len(gpus) : /\ gpus'[k].index < Len(NvmlOrder)
                                 /\ gpus'[k].ordinal = NoOrdinal
      BY <1>1, <2>2, <2>3 DEF EntryInv
    <2>5. \A k \in 1..Len(gpus') : /\ gpus'[k].index < Len(NvmlOrder)
                                  /\ gpus'[k].ordinal = NoOrdinal
      BY <2>1, <2>2, <2>4
    <2> QED BY <2>5 DEF EntryInv
  <1>5. CASE CudaDevice
    <2>1. /\ Len(gpus') = Len(gpus)
          /\ \A k \in 1..Len(gpus) : gpus'[k].index = gpus[k].index
      BY <1>1, <1>5, CudaDeviceMatches
    <2>2. pc' = "cuda_devices" /\ i \in Nat /\ i < Len(cuda_order)
      BY <1>1, <1>5 DEF CudaDevice, TypeOK
    <2>3. cuda_order # <<>> /\ pc' \notin InNvml \cup {"cuda"}
      BY <2>2 DEF InNvml
    <2> QED BY <1>1, <1>2, <2>1, <2>3 DEF EntryInv
  <1>6. CASE ~Begin /\ ~ReadDevice /\ ~CudaDevice
    <2>1. gpus' = gpus
      BY <1>6, TableKept
    <2> QED BY <1>1, <1>2, <1>6, <2>1, QuietMoves DEF EntryInv
  <1> QED BY <1>3, <1>4, <1>5, <1>6

LEMMA NamesStep ==
    ASSUME IInv, [Next]_vars
    PROVE  EntriesNameTheirGpus'
  <1>1. TypeOK /\ LoopInv /\ EntryInv /\ EntriesNameTheirGpus
    BY DEF IInv
  <1>2. cuda_order' = cuda_order
    BY <1>1, HostTyped
  <1>3. CASE Begin
    BY <1>3 DEF EntriesNameTheirGpus, Begin
  <1>4. CASE ReadDevice
    <2>1. /\ gpus' = Append(gpus, NewEntry) /\ NewEntry \in Entry
          /\ NewEntry.index = i /\ NewEntry.gpu = NvmlOrder[i + 1]
          /\ NewEntry.ordinal = NoOrdinal
      BY <1>1, <1>4, ReadDeviceAppends
    <2>2. /\ Len(gpus') = Len(gpus) + 1 /\ Len(gpus) \in Nat
          /\ gpus'[Len(gpus) + 1] = NewEntry
          /\ \A k \in 1..Len(gpus) : gpus'[k] = gpus[k]
      BY <1>1, <2>1, AppendOne DEF TypeOK
    <2>3. \A k \in 1..Len(gpus) : gpus[k].index < i
      BY <1>1, <1>4 DEF LoopInv, InLoop, ReadDevice
    <2>4. ASSUME NEW k \in 1..Len(gpus')
          PROVE  /\ NvmlOrder[gpus'[k].index + 1] = gpus'[k].gpu
                 /\ gpus'[k].ordinal # NoOrdinal =>
                       cuda_order[gpus'[k].ordinal + 1] = gpus'[k].gpu
                 /\ \A m \in 1..Len(gpus') :
                       m < k => gpus'[m].index < gpus'[k].index
      <3>1. CASE k = Len(gpus) + 1
        BY <2>1, <2>2, <2>3, <3>1
      <3>2. CASE k \in 1..Len(gpus)
        BY <1>1, <2>2, <3>2 DEF EntriesNameTheirGpus
      <3> QED BY <2>2, <3>1, <3>2
    <2> QED BY <1>2, <2>4 DEF EntriesNameTheirGpus
  <1>5. CASE CudaDevice
    <2>1. /\ Len(gpus') = Len(gpus)
          /\ \A k \in 1..Len(gpus) :
                 /\ gpus'[k].index = gpus[k].index
                 /\ gpus'[k].gpu = gpus[k].gpu
                 /\ \/ gpus'[k].ordinal = gpus[k].ordinal
                    \/ /\ gpus'[k].ordinal = i
                       /\ cuda_order[i + 1] = gpus[k].gpu
      BY <1>1, <1>5, CudaDeviceMatches
    <2> QED BY <1>1, <1>2, <2>1 DEF EntriesNameTheirGpus
  <1>6. CASE ~Begin /\ ~ReadDevice /\ ~CudaDevice
    <2>1. gpus' = gpus
      BY <1>6, TableKept
    <2> QED BY <1>1, <1>2, <2>1 DEF EntriesNameTheirGpus
  <1> QED BY <1>3, <1>4, <1>5, <1>6

\* Most steps move the place only, and from one stretch of the collectors to
\* the next in a few ways.
LEMMA BitsKept ==
    ASSUME [Next]_vars, ~Begin, ~ReadDevice, ~CudaDevice, ~EndDevices, ~CudaEnd,
           ~(\E index \in 0..Len(NvmlOrder)-1 : DcgmLine(index))
    PROVE  /\ capabilities' = capabilities /\ listed' = listed /\ gpus' = gpus
           /\ pc' \in BeforeEntries \cup InLoop => pc \in BeforeEntries \cup InLoop
           /\ pc' \notin BeforeEntries \cup InLoop =>
                 pc \notin BeforeEntries \cup InLoop \/ pc \in BeforeEntries
           /\ pc' \in {"dcgm", "dcgm_lines", "done"} =>
                 pc \in {"cuda", "dcgm", "dcgm_lines", "done"}
           /\ pc' \notin {"dcgm_lines", "done"} =>
                 pc \notin {"dcgm_lines", "done"}
  BY DEF BeforeEntries, InLoop, Next, vars, host, Collect, LoadNvml, NvmlInit,
         NvmlCount, OpenDevice, NvmlShutdown, NvmlReturn, CudaCount,
         CudaDeviceFails, DcgmAbsent, DcgmOpen, DcgmEnd, Goto,
         DriverChanges, DeviceChanges, HostChanges

LEMMA BitStep ==
    ASSUME IInv, [Next]_vars
    PROVE  BitInv'
  <1>1. TypeOK /\ LoopInv /\ EntryInv /\ EntriesNameTheirGpus /\ BitInv
    BY DEF IInv
  <1>2. CASE Begin
    BY <1>2 DEF BitInv, Begin, BeforeEntries
  <1>3. CASE ReadDevice
    BY <1>1, <1>3 DEF BitInv, ReadDevice, BeforeEntries, InLoop
  <1>4. CASE CudaDevice
    <2>1. /\ gpus' \in Seq(Entry) /\ Len(gpus') = Len(gpus)
          /\ \A k \in 1..Len(gpus) : gpus'[k].index = gpus[k].index
      BY <1>1, <1>4, CudaDeviceMatches
    <2>2. gpus' = <<>> <=> gpus = <<>>
      BY <1>1, <2>1 DEF TypeOK
    <2>3. /\ pc = "cuda_devices" /\ pc' = pc
          /\ capabilities' = capabilities
      BY <1>4 DEF CudaDevice
    <2> QED BY <1>1, <2>2, <2>3 DEF BitInv, BeforeEntries, InLoop
  <1>5. CASE EndDevices
    <2>1. /\ pc = "nvml_devices" /\ pc' = "nvml_shutdown" /\ gpus' = gpus
          /\ capabilities' = IF gpus # <<>> THEN {"NVML"} ELSE {}
      BY <1>5 DEF EndDevices
    <2> QED BY <2>1 DEF BitInv, BeforeEntries, InLoop
  <1>6. CASE CudaEnd
    <2>1. /\ pc = "cuda_devices" /\ pc' = "dcgm" /\ gpus' = gpus
          /\ listed' = listed
          /\ capabilities' = IF cuda_order # <<>> THEN capabilities \cup {"CUDA"}
                             ELSE capabilities
      BY <1>6 DEF CudaEnd
    <2>2. (\E k \in 1..Len(gpus) : gpus[k].ordinal # NoOrdinal) =>
             cuda_order # <<>>
      BY <1>1 DEF EntryInv
    <2> QED BY <1>1, <2>1, <2>2 DEF BitInv, BeforeEntries, InLoop
  <1>7. ASSUME NEW index \in 0..Len(NvmlOrder)-1, DcgmLine(index)
        PROVE  BitInv'
    <2>1. /\ pc = "dcgm_lines" /\ pc' = pc /\ gpus' = gpus
          /\ listed' = listed \cup {index}
          /\ capabilities' =
                IF \E k \in 1..Len(gpus) : gpus[k].index = index
                THEN capabilities \cup {"DCGM"} ELSE capabilities
      BY <1>7 DEF DcgmLine
    <2>2. "DCGM" \in capabilities' =>
             \E k \in 1..Len(gpus) : gpus[k].index \in listed'
      BY <1>1, <2>1 DEF BitInv
    <2> QED BY <1>1, <2>1, <2>2 DEF BitInv, BeforeEntries, InLoop
  <1>8. CASE /\ ~Begin /\ ~ReadDevice /\ ~CudaDevice /\ ~EndDevices /\ ~CudaEnd
             /\ ~(\E index \in 0..Len(NvmlOrder)-1 : DcgmLine(index))
    <2>1. /\ capabilities' = capabilities /\ listed' = listed /\ gpus' = gpus
      BY <1>8, BitsKept
    <2>2. pc' \in BeforeEntries \cup InLoop => capabilities' = {}
      BY <1>1, <1>8, <2>1, BitsKept DEF BitInv
    <2>3. pc' \notin BeforeEntries \cup InLoop =>
             (gpus' # <<>> <=> "NVML" \in capabilities')
      BY <1>1, <1>8, <2>1, BitsKept DEF BitInv, LoopInv
    <2>4. pc = "cuda" =>
             ~(\E k \in 1..Len(gpus) : gpus[k].ordinal # NoOrdinal)
      BY <1>1 DEF EntryInv
    <2>5. pc' \in {"dcgm", "dcgm_lines", "done"}
             /\ (\E k \in 1..Len(gpus') : gpus'[k].ordinal # NoOrdinal) =>
             "CUDA" \in capabilities'
      BY <1>1, <1>8, <2>1, <2>4, BitsKept DEF BitInv
    <2>6. pc' \notin {"dcgm_lines", "done"} => "DCGM" \notin capabilities'
      BY <1>1, <1>8, <2>1, BitsKept DEF BitInv
    <2> QED BY <1>1, <2>1, <2>2, <2>3, <2>5, <2>6 DEF BitInv
  <1> QED BY <1>2, <1>3, <1>4, <1>5, <1>6, <1>7, <1>8

LEMMA SteadyMoves ==
    ASSUME [Next]_vars, steady'
    PROVE  Begin \/ (steady /\ UNCHANGED host)
  BY DEF Next, vars, host, Begin, Collect, LoadNvml, NvmlInit, NvmlCount,
         OpenDevice, ReadDevice, EndDevices, NvmlShutdown, NvmlReturn,
         CudaCount, CudaDevice, CudaDeviceFails, CudaEnd, DcgmAbsent, DcgmOpen,
         DcgmEnd, DcgmLine, Goto, DriverChanges, DeviceChanges, HostChanges

\* At the end of the device loop no number is left, or no room.
LEMMA ListedToTheEnd ==
    ASSUME TypeOK, EntryInv, EntriesNameTheirGpus, LoopInv,
           pc = "nvml_devices", ~MoreDevices,
           \A m \in 1..Len(gpus) : gpus[m].gpu \notin lost,
           \A k \in Answering : k <= i => HasEntry(NvmlOrder[k])
    PROVE  ListsFirst(Answering)
  <1> DEFINE number(m) == gpus[m].index + 1
  <1>0. i \in Nat /\ Len(NvmlOrder) \in Nat /\ Len(gpus) \in Nat
    BY NvidiaAssumption DEF TypeOK
  <1>1. ASSUME NEW m \in 1..Len(gpus)
        PROVE  /\ gpus[m].index \in Nat /\ number(m) \in Answering
               /\ gpus[m].gpu = NvmlOrder[number(m)] /\ number(m) <= i
    <2>1. gpus[m].index \in Nat /\ gpus[m].index < i
      BY IndexTyped DEF LoopInv, InLoop
    <2>2. number(m) \in 1..Len(NvmlOrder) /\ gpus[m].gpu = NvmlOrder[number(m)]
      BY <1>0, <2>1 DEF EntryInv, EntriesNameTheirGpus
    <2> QED BY <1>0, <2>1, <2>2 DEF Answering
  <1>2. ASSUME NEW l \in 1..Len(gpus), NEW m \in 1..Len(gpus), l < m
        PROVE  number(l) < number(m)
    BY <1>1, <1>2 DEF EntriesNameTheirGpus
  <1> HIDE DEF number
  <1>3. ASSUME NEW j \in Answering, NEW k \in Answering, j < k,
               HasEntry(NvmlOrder[k])
        PROVE  HasEntry(NvmlOrder[j])
    <2>1. PICK m \in 1..Len(gpus) : gpus[m].gpu = NvmlOrder[k]
      BY <1>3 DEF HasEntry
    <2>2. number(m) \in 1..Len(NvmlOrder) /\ k \in 1..Len(NvmlOrder)
      BY <1>1 DEF Answering
    <2>3. number(m) = k
      BY <1>1, <2>1, <2>2, NvidiaAssumption DEF Distinct
    <2>4. j \in Nat /\ k \in Nat /\ j <= i
      BY <1>0, <1>1, <1>3, <2>3 DEF Answering
    <2> QED BY <2>4
  <1>4. Len(gpus) = MaxGpus \/ \A k \in Answering : HasEntry(NvmlOrder[k])
    <2>1. Len(gpus) = MaxGpus \/ i >= Len(NvmlOrder)
      BY <1>0, NvidiaAssumption DEF MoreDevices, TypeOK
    <2>2. CASE i >= Len(NvmlOrder)
      BY <1>0, <2>2 DEF Answering
    <2> QED BY <2>1, <2>2
  <1> QED BY <1>1, <1>2, <1>3, <1>4 DEF ListsFirst

LEMMA ListKept ==
    ASSUME UNCHANGED lost, Len(gpus') = Len(gpus),
           \A m \in 1..Len(gpus) : gpus'[m].gpu = gpus[m].gpu
    PROVE  ListsFirst(Answering)' <=> ListsFirst(Answering)
  <1>1. Answering' = Answering
    BY DEF Answering
  <1> QED BY <1>1 DEF ListsFirst, HasEntry

\* The steps that neither change the table nor come to an entry or its end.
LEMMA ListMoves ==
    ASSUME [Next]_vars, steady', ~Begin, ~NvmlCount, ~OpenDevice, ~ReadDevice,
           ~EndDevices, ~CudaDevice
    PROVE  /\ gpus' = gpus
           /\ pc' \in InLoop => pc' = pc /\ i' = i
           /\ pc' \notin BeforeEntries \cup InLoop =>
                 \/ pc \notin BeforeEntries \cup InLoop
                 \/ pc \in BeforeEntries /\ nvml # "up"
  BY DEF BeforeEntries, InLoop, Next, vars, host, Collect, LoadNvml, NvmlInit,
         NvmlShutdown, NvmlReturn, CudaCount, CudaDeviceFails,
         CudaEnd, DcgmAbsent, DcgmOpen, DcgmEnd, DcgmLine, Goto,
         DriverChanges, DeviceChanges, HostChanges

LEMMA ListStep ==
    ASSUME IInv, [Next]_vars
    PROVE  ListInv'
  <1> DEFINE Loops == /\ nvml = "up"
                      /\ \A m \in 1..Len(gpus) : gpus[m].gpu \notin lost
                      /\ \A k \in Answering : k <= i => HasEntry(NvmlOrder[k])
             Ended == IF nvml = "up" THEN ListsFirst(Answering) ELSE gpus = <<>>
  <1> SUFFICES ASSUME steady'
               PROVE  /\ pc' \in InLoop => Loops'
                      /\ pc' = "nvml_fields" => NvmlOrder[i' + 1] \notin lost'
                      /\ pc' \notin BeforeEntries \cup InLoop => Ended'
    BY DEF ListInv
  <1>1. CASE Begin
    BY <1>1 DEF Begin, BeforeEntries, InLoop
  <1>2. CASE ~Begin
    <2>1. steady /\ UNCHANGED host
      BY <1>2, SteadyMoves
    <2>2. /\ TypeOK /\ LoopInv /\ EntryInv /\ EntriesNameTheirGpus
          /\ pc \in InLoop => Loops
          /\ pc = "nvml_fields" => NvmlOrder[i + 1] \notin lost
          /\ pc \notin BeforeEntries \cup InLoop => Ended
      BY <2>1 DEF IInv, ListInv
    <2>3. Answering' = Answering /\ lost' = lost /\ nvml' = nvml
      BY <2>1 DEF Answering, host
    <2>4. i \in Nat /\ gpus \in Seq(Entry) /\ Len(gpus) \in Nat
      BY <2>2 DEF TypeOK
    <2>5. \A k \in Answering : k \in Nat /\ k # 0
      BY DEF Answering
    <2>6. CASE NvmlCount
      <3>1. /\ gpus = <<>> /\ gpus' = <<>> /\ i' = 0
            /\ pc' = IF nvml = "up" THEN "nvml_devices" ELSE "nvml_shutdown"
        BY <2>2, <2>6 DEF NvmlCount, LoopInv, BeforeEntries
      <3>2. nvml = "up" => Loops'
        BY <2>3, <2>5, <3>1
      <3> QED BY <2>3, <3>1, <3>2 DEF InLoop
    <2>7. CASE OpenDevice
      <3>1. /\ pc = "nvml_devices" /\ gpus' = gpus /\ i < Len(NvmlOrder) /\ Loops
            /\ pc' \in InLoop
        BY <2>2, <2>7 DEF OpenDevice, MoreDevices, InLoop
      <3>2. CASE Answers(NvmlOrder[i + 1])
        <4>1. pc' = "nvml_fields" /\ i' = i
          BY <2>7, <3>2 DEF OpenDevice
        <4>2. Loops'
          BY <2>3, <3>1, <4>1 DEF HasEntry
        <4> QED BY <2>3, <3>1, <3>2, <4>1, <4>2 DEF Answers, InLoop
      <3>3. CASE ~Answers(NvmlOrder[i + 1])
        <4>1. pc' = "nvml_devices" /\ i' = i + 1
          BY <2>7, <3>1, <3>3 DEF OpenDevice
        <4>2. i + 1 \notin Answering
          BY <3>1, <3>3 DEF Answers, Answering
        <4>3. \A k \in Answering : k <= i + 1 => HasEntry(NvmlOrder[k])
          BY <2>4, <2>5, <3>1, <4>2
        <4>4. Loops'
          BY <2>3, <3>1, <4>1, <4>3 DEF HasEntry
        <4> QED BY <4>1, <4>4 DEF InLoop
      <3> QED BY <3>2, <3>3
    <2>8. CASE ReadDevice
      <3>1. /\ pc = "nvml_fields" /\ pc' = "nvml_devices" /\ i' = i + 1
            /\ Loops /\ NvmlOrder[i + 1] \notin lost
        BY <2>2, <2>8 DEF ReadDevice, InLoop
      <3>2. /\ gpus' = Append(gpus, NewEntry) /\ NewEntry \in Entry
            /\ NewEntry.gpu = NvmlOrder[i + 1]
        BY <2>2, <2>8, ReadDeviceAppends
      <3>3. /\ Len(gpus') = Len(gpus) + 1 /\ gpus'[Len(gpus) + 1] = NewEntry
            /\ \A m \in 1..Len(gpus) : gpus'[m] = gpus[m]
        BY <2>4, <3>2, AppendOne
      <3>4. \A m \in 1..Len(gpus') : gpus'[m].gpu \notin lost
        BY <2>4, <3>1, <3>2, <3>3
      <3>5. ASSUME NEW k \in Answering, k <= i + 1
            PROVE  \E m \in 1..Len(gpus') : gpus'[m].gpu = NvmlOrder[k]
        <4>1. CASE k = i + 1
          <5>1. /\ Len(gpus) + 1 \in 1..Len(gpus')
                /\ gpus'[Len(gpus) + 1].gpu = NvmlOrder[k]
            BY <2>4, <3>2, <3>3, <4>1
          <5> QED BY <5>1
        <4>2. CASE k <= i
          <5>1. PICK m \in 1..Len(gpus) : gpus[m].gpu = NvmlOrder[k]
            BY <3>1, <4>2 DEF HasEntry
          <5>2. m \in 1..Len(gpus') /\ gpus'[m].gpu = NvmlOrder[k]
            BY <2>4, <3>3, <5>1
          <5> QED BY <5>2
        <4> QED BY <2>4, <2>5, <3>5, <4>1, <4>2
      <3>6. Loops'
        BY <2>3, <3>1, <3>4, <3>5 DEF HasEntry
      <3> QED BY <3>1, <3>6 DEF InLoop
    <2>9. CASE EndDevices
      <3>1. /\ pc = "nvml_devices" /\ pc' = "nvml_shutdown" /\ gpus' = gpus
            /\ ~MoreDevices /\ Loops
        BY <2>2, <2>9 DEF EndDevices, InLoop
      <3>2. ListsFirst(Answering)
        BY <2>2, <3>1, ListedToTheEnd
      <3>3. ListsFirst(Answering)'
        BY <2>3, <3>1, <3>2, ListKept
      <3> QED BY <2>3, <3>1, <3>3 DEF InLoop
    <2>10. CASE CudaDevice
      <3>1. /\ Len(gpus') = Len(gpus) /\ gpus' \in Seq(Entry)
            /\ \A m \in 1..Len(gpus) : gpus'[m].gpu = gpus[m].gpu
        BY <2>2, <2>10, CudaDeviceMatches
      <3>2. /\ pc \notin BeforeEntries \cup InLoop
            /\ pc' \notin BeforeEntries \cup InLoop
        BY <2>10 DEF CudaDevice, BeforeEntries, InLoop
      <3>3. gpus = <<>> => gpus' = <<>>
        BY <2>4, <3>1
      <3> QED BY <2>2, <2>3, <3>1, <3>2, <3>3, ListKept DEF InLoop
    <2>11. CASE /\ ~NvmlCount /\ ~OpenDevice /\ ~ReadDevice /\ ~EndDevices
                /\ ~CudaDevice
      <3>1. /\ gpus' = gpus
            /\ pc' \in InLoop => pc' = pc /\ i' = i
            /\ pc' \notin BeforeEntries \cup InLoop =>
                  \/ pc \notin BeforeEntries \cup InLoop
                  \/ pc \in BeforeEntries /\ nvml # "up"
        BY <1>2, <2>11, ListMoves
      <3>2. pc \in BeforeEntries => gpus = <<>>
        BY <2>2 DEF LoopInv
      <3>3. pc' \in InLoop => Loops'
        BY <2>2, <2>3, <3>1 DEF HasEntry
      <3>4. pc' = "nvml_fields" => NvmlOrder[i' + 1] \notin lost'
        BY <2>2, <2>3, <3>1 DEF InLoop
      <3>5. pc' \notin BeforeEntries \cup InLoop => Ended'
        BY <2>2, <2>3, <3>1, <3>2, ListKept
      <3> QED BY <3>3, <3>4, <3>5
    <2> QED BY <2>6, <2>7, <2>8, <2>9, <2>10, <2>11
  <1> QED BY <1>1, <1>2

\* The steps that neither change the table nor go through the CUDA loop.
LEMMA OrdinalMoves ==
    ASSUME [Next]_vars, ~Begin, ~ReadDevice, ~CudaCount, ~CudaDevice,
           ~CudaDeviceFails, ~CudaEnd
    PROVE  /\ gpus' = gpus
           /\ pc' = "cuda_devices" => pc = "cuda_devices" /\ i' = i
           /\ pc' \notin InNvml \cup {"cuda"} =>
                 /\ pc \notin InNvml \cup {"cuda"}
                 /\ pc = "cuda_devices" => pc' = "cuda_devices"
  BY DEF InNvml, Next, vars, host, Collect, LoadNvml, NvmlInit, NvmlCount,
         OpenDevice, EndDevices, NvmlShutdown, NvmlReturn, DcgmAbsent, DcgmOpen,
         DcgmEnd, DcgmLine, Goto, DriverChanges, DeviceChanges, HostChanges

\* An entry has its ordinal once the CUDA loop has come to its device.
HasOrdinal(m, last) ==
    gpus[m].ordinal # NoOrdinal <=>
        /\ Corresponds(gpus[m].gpu)
        /\ \E c \in 1..Len(cuda_order) : cuda_order[c] = gpus[m].gpu /\ c <= last

LEMMA OrdinalIs ==
    ASSUME TypeOK
    PROVE  OrdinalInv <=>
             (steady =>
                /\ \A m \in 1..Len(gpus) : gpus[m].pci = pci_symbol
                /\ pc = "cuda_devices" =>
                      cuda = "up" /\ \A m \in 1..Len(gpus) : HasOrdinal(m, i)
                /\ pc \in {"dcgm", "dcgm_lines", "done"} =>
                      \A m \in 1..Len(gpus) : HasOrdinal(m, Len(cuda_order)))
  <1>1. /\ pc \notin InNvml \cup {"cuda"} <=>
              pc \in {"cuda_devices", "dcgm", "dcgm_lines", "done"}
        /\ Len(cuda_order) \in Nat
    BY NvidiaAssumption DEF TypeOK, InNvml
  <1>2. \A c \in 1..Len(cuda_order) : c <= Len(cuda_order)
    BY <1>1
  <1> QED BY <1>1, <1>2 DEF OrdinalInv, HasOrdinal

LEMMA OrdinalStep ==
    ASSUME IInv, [Next]_vars, TypeOK'
    PROVE  OrdinalInv'
  <1> DEFINE Ids == \A m \in 1..Len(gpus) : gpus[m].pci = pci_symbol
             InCuda == /\ cuda = "up"
                       /\ \A m \in 1..Len(gpus) : HasOrdinal(m, i)
             Ended == \A m \in 1..Len(gpus) : HasOrdinal(m, Len(cuda_order))
  <1> SUFFICES ASSUME steady'
               PROVE  /\ Ids'
                      /\ pc' = "cuda_devices" => InCuda'
                      /\ pc' \in {"dcgm", "dcgm_lines", "done"} => Ended'
    BY DEF OrdinalInv, HasOrdinal, TypeOK, InNvml
  <1>1. CASE Begin
    BY <1>1 DEF Begin
  <1>2. CASE ~Begin
    <2>1. steady /\ UNCHANGED host
      BY <1>2, SteadyMoves
    <2>2. /\ TypeOK /\ LoopInv /\ EntryInv /\ EntriesNameTheirGpus /\ ListInv
          /\ Ids
          /\ pc = "cuda_devices" => InCuda
          /\ pc \in {"dcgm", "dcgm_lines", "done"} => Ended
      BY <2>1, OrdinalIs DEF IInv
    <2>3. /\ pci_symbol' = pci_symbol /\ cuda_order' = cuda_order /\ cuda' = cuda
          /\ alike' = alike /\ Len(cuda_order) \in Nat
      BY <2>1, <2>2, NvidiaAssumption DEF host, TypeOK
    <2>4. i \in Nat /\ gpus \in Seq(Entry) /\ Len(gpus) \in Nat
      BY <2>2 DEF TypeOK
    <2>5. CASE ReadDevice
      <3>1. /\ pc = "nvml_fields" /\ pc' = "nvml_devices"
            /\ gpus' = Append(gpus, NewEntry) /\ NewEntry \in Entry
        BY <2>2, <2>5, ReadDeviceAppends DEF ReadDevice
      <3>2. Answers(NvmlOrder[i + 1])
        BY <2>1, <2>2, <3>1 DEF ListInv, InLoop, Answers
      <3>3. NewEntry.pci = pci_symbol
        <4>1. NewEntry.pci = (pci_symbol /\ Answers(NvmlOrder[i + 1]))
          BY DEF NewEntry
        <4>2. pci_symbol \in BOOLEAN
          BY <2>2 DEF TypeOK
        <4> QED BY <3>2, <4>1, <4>2
      <3>4. /\ Len(gpus') = Len(gpus) + 1 /\ gpus'[Len(gpus) + 1] = NewEntry
            /\ \A m \in 1..Len(gpus) : gpus'[m] = gpus[m]
        BY <2>4, <3>1, AppendOne
      <3> QED BY <2>2, <2>3, <2>4, <3>1, <3>3, <3>4
    <2>6. CASE CudaCount
      <3>1. /\ pc = "cuda" /\ gpus' = gpus
            /\ IF cuda = "up" THEN pc' = "cuda_devices" /\ i' = 0 ELSE pc' = "dcgm"
        BY <2>6 DEF CudaCount
      <3>2. \A m \in 1..Len(gpus) : gpus[m].ordinal = NoOrdinal
        BY <2>2, <3>1 DEF EntryInv
      <3>3. Ids'
        BY <2>2, <2>3, <3>1
      <3>4. CASE cuda = "up"
        <4>1. \A m \in 1..Len(gpus) : HasOrdinal(m, i)'
          BY <2>3, <3>1, <3>2, <3>4 DEF HasOrdinal
        <4> QED BY <2>3, <3>1, <3>3, <3>4, <4>1
      <3>5. CASE cuda # "up"
        <4>1. \A m \in 1..Len(gpus) : HasOrdinal(m, Len(cuda_order))'
          BY <2>3, <3>1, <3>2, <3>5 DEF HasOrdinal, Corresponds
        <4> QED BY <2>3, <3>1, <3>3, <3>5, <4>1
      <3> QED BY <3>4, <3>5
    <2>7. CASE CudaDevice
      <3> DEFINE g == cuda_order[i + 1]
      <3>1. /\ pc = "cuda_devices" /\ pc' = pc /\ i' = i + 1 /\ i < Len(cuda_order)
            /\ i # NoOrdinal /\ InCuda
        BY <2>2, <2>4, <2>7 DEF CudaDevice, NoOrdinal
      <3>2. /\ Len(gpus') = Len(gpus)
            /\ \A m \in 1..Len(gpus) :
                  /\ gpus'[m].gpu = gpus[m].gpu /\ gpus'[m].pci = gpus[m].pci
                  /\ gpus'[m].ordinal = IF m \in Matches(g) THEN i
                                        ELSE gpus[m].ordinal
        BY <2>2, <2>7, CudaDeviceMatches
      <3>3. ASSUME NEW m \in 1..Len(gpus)
            PROVE  HasOrdinal(m, i)'
        <4>1. m \in Matches(g) <=> Corresponds(gpus[m].gpu) /\ gpus[m].gpu = g
          BY <2>2, <3>1 DEF Matches, Corresponds
        <4>2. (\E c \in 1..Len(cuda_order) : cuda_order[c] = gpus[m].gpu /\ c <= i + 1)
                 <=> \/ gpus[m].gpu = g
                     \/ \E c \in 1..Len(cuda_order) :
                           cuda_order[c] = gpus[m].gpu /\ c <= i
          <5>1. i + 1 \in 1..Len(cuda_order)
            BY <2>3, <2>4, <3>1
          <5>2. \A c \in 1..Len(cuda_order) : c <= i + 1 <=> c = i + 1 \/ c <= i
            BY <2>4
          <5> QED BY <5>1, <5>2
        <4>3. gpus'[m].ordinal # NoOrdinal <=>
                 gpus[m].ordinal # NoOrdinal \/ m \in Matches(g)
          BY <3>1, <3>2
        <4>4. gpus[m].ordinal # NoOrdinal <=>
                 /\ Corresponds(gpus[m].gpu)
                 /\ \E c \in 1..Len(cuda_order) :
                       cuda_order[c] = gpus[m].gpu /\ c <= i
          BY <3>1 DEF HasOrdinal
        <4>5. gpus'[m].ordinal # NoOrdinal <=>
                 /\ Corresponds(gpus[m].gpu)
                 /\ \E c \in 1..Len(cuda_order) :
                       cuda_order[c] = gpus[m].gpu /\ c <= i + 1
          BY <4>1, <4>2, <4>3, <4>4
        <4> QED BY <2>3, <3>1, <3>2, <4>5 DEF HasOrdinal, Corresponds
      <3> QED BY <2>2, <2>3, <3>1, <3>2, <3>3
    <2>8. CASE CudaDeviceFails
      <3>1. /\ pc = "cuda_devices" /\ pc' = pc /\ i' = i + 1 /\ gpus' = gpus
            /\ i < Len(cuda_order) /\ cuda_order[i + 1] \in lost /\ InCuda
        BY <2>2, <2>8 DEF CudaDeviceFails
      <3>2. ASSUME NEW m \in 1..Len(gpus)
            PROVE  gpus[m].gpu \notin lost
        <4>1. ListsFirst(Answering)
          BY <2>1, <2>2, <3>1, <3>2 DEF ListInv, BeforeEntries, InLoop
        <4> QED BY <4>1 DEF ListsFirst, Answering
      <3>3. ASSUME NEW m \in 1..Len(gpus)
            PROVE  HasOrdinal(m, i)'
        <4>1. \A c \in 1..Len(cuda_order) :
                 cuda_order[c] = gpus[m].gpu => (c <= i + 1 <=> c <= i)
          BY <2>4, <3>1, <3>2
        <4>2. HasOrdinal(m, i)
          BY <3>1
        <4> QED BY <2>3, <3>1, <4>1, <4>2 DEF HasOrdinal, Corresponds
      <3> QED BY <2>2, <2>3, <3>1, <3>3
    <2>9. CASE CudaEnd
      <3>1. /\ pc = "cuda_devices" /\ pc' = "dcgm" /\ gpus' = gpus
            /\ i = Len(cuda_order) /\ InCuda
        BY <2>2, <2>9 DEF CudaEnd
      <3>2. \A m \in 1..Len(gpus) : HasOrdinal(m, Len(cuda_order))'
        BY <2>3, <3>1 DEF HasOrdinal, Corresponds
      <3> QED BY <2>2, <2>3, <3>1, <3>2
    <2>10. CASE /\ ~ReadDevice /\ ~CudaCount /\ ~CudaDevice /\ ~CudaDeviceFails
                /\ ~CudaEnd
      <3>1. /\ gpus' = gpus
            /\ pc' = "cuda_devices" => pc = "cuda_devices" /\ i' = i
            /\ pc' \notin InNvml \cup {"cuda"} =>
                  /\ pc \notin InNvml \cup {"cuda"}
                  /\ pc = "cuda_devices" => pc' = "cuda_devices"
        BY <1>2, <2>10, OrdinalMoves
      <3>2. \A m \in 1..Len(gpus) :
               /\ HasOrdinal(m, Len(cuda_order))' <=> HasOrdinal(m, Len(cuda_order))
               /\ i' = i => (HasOrdinal(m, i)' <=> HasOrdinal(m, i))
        BY <2>3, <3>1 DEF HasOrdinal, Corresponds
      <3>3. pc' \in {"dcgm", "dcgm_lines", "done"} =>
               pc \in {"dcgm", "dcgm_lines", "done"}
        BY <2>2, <3>1 DEF InNvml, TypeOK
      <3> QED BY <2>2, <2>3, <3>1, <3>2, <3>3
    <2> QED BY <2>5, <2>6, <2>7, <2>8, <2>9, <2>10
  <1> QED BY <1>1, <1>2

-------------------------------------------------------------------------------
(* Theorems *)

LEMMA InvInit == Init => IInv
  <1> SUFFICES ASSUME Init
               PROVE  IInv
    OBVIOUS
  <1>1. gpus = <<>> /\ Len(gpus) = 0 /\ gpus \in Seq(Entry)
    BY EmptyTable DEF Init
  <1>2. TypeOK
    <2>1. Len(gpus) <= MaxGpus
      BY <1>1, NvidiaAssumption
    <2>2. i \in Nat /\ listed \subseteq Nat /\ lost \subseteq Gpu
      BY DEF Init
    <2> QED BY <1>1, <2>1, <2>2 DEF Init, TypeOK
  <1>3. SessionInv /\ LoopInv
    BY <1>1 DEF Init, SessionInv, InSession, LoopInv, BeforeEntries, InLoop
  <1>4. EntryInv /\ EntriesNameTheirGpus
    BY <1>1 DEF EntryInv, EntriesNameTheirGpus
  <1>5. BitInv
    BY <1>1 DEF Init, BitInv, BeforeEntries, InLoop
  <1>6. ListInv /\ OrdinalInv
    BY DEF Init, ListInv, OrdinalInv
  <1> QED BY <1>2, <1>3, <1>4, <1>5, <1>6 DEF IInv

LEMMA InvStep == IInv /\ [Next]_vars => IInv'
  <1> SUFFICES ASSUME IInv, [Next]_vars
               PROVE  IInv'
    OBVIOUS
  <1>1. SessionInv'
    BY SessionStep DEF IInv
  <1>2. TypeOK' /\ OrdinalInv'
    BY TypeStep, OrdinalStep
  <1> QED BY <1>1, <1>2, LoopStep, EntryStep, NamesStep, BitStep, ListStep DEF IInv

\* The inductive invariant holds in every reachable state of the collectors.
THEOREM Invariant == Spec => []IInv
  BY InvInit, InvStep, PTL DEF Spec

\* The NVIDIA collectors keep their variables in range, the table of any size
\* included (the limit of the loop in gpu_nvidia.c:97).
THEOREM TypeCorrect == Spec => []TypeOK
  <1>1. IInv => TypeOK
    BY DEF IInv
  <1> QED BY <1>1, Invariant, PTL

\* The index and the ordinal of an entry name the device it was read from,
\* whatever fails or comes back meanwhile (gpu_nvidia.c:110,
\* gpu_nvidia_cuda.c:172).
THEOREM NamesCorrect == Spec => []EntriesNameTheirGpus
  <1>1. IInv => EntriesNameTheirGpus
    BY DEF IInv
  <1> QED BY <1>1, Invariant, PTL

\* The bits that formatters print as the source of an entry are those of the
\* collectors that found it (gpu_nvidia.c:146-148, gpu_nvidia_cuda.c:181-183,
\* nvidia_dcgm.c).
THEOREM BitsCorrect == Spec => []BitsExplained
  <1>1. IInv => BitsExplained
    BY DEF IInv, BitInv, BitsExplained, InNvml, BeforeEntries, InLoop
  <1> QED BY <1>1, Invariant, PTL

\* A finished snapshot of a host that does not change has every device that
\* answers, in NVML's order and as many as have room, each with its ordinal if
\* it can be found by its PCI id (gpu_nvidia.c:97-144,
\* gpu_nvidia_cuda.c:158-179).
THEOREM TableComplete == Spec => []SteadyTableComplete
  <1>1. IInv => SteadyTableComplete
    <2> SUFFICES ASSUME IInv, pc = "done", steady
                 PROVE  /\ IF nvml = "up" THEN ListsFirst(Answering)
                           ELSE gpus = <<>>
                        /\ \A k \in 1..Len(gpus) :
                              gpus[k].ordinal # NoOrdinal <=>
                                 /\ cuda = "up" /\ Visible(gpus[k].gpu)
                                 /\ pci_symbol /\ gpus[k].gpu \in alike
      BY DEF SteadyTableComplete
    <2>1. IF nvml = "up" THEN ListsFirst(Answering) ELSE gpus = <<>>
      BY DEF IInv, ListInv, BeforeEntries, InLoop
    <2>2. ASSUME NEW k \in 1..Len(gpus)
          PROVE  gpus[k].ordinal # NoOrdinal <=>
                    /\ cuda = "up" /\ Visible(gpus[k].gpu)
                    /\ pci_symbol /\ gpus[k].gpu \in alike
      BY DEF IInv, OrdinalInv, InNvml, Corresponds, Visible
    <2> QED BY <2>1, <2>2
  <1> QED BY <1>1, Invariant, PTL

\* No return of tm_collect_nvidia leaves NVML initialised, and none shuts it
\* down twice or unopened (gpu_nvidia.c:80-150).
THEOREM SessionDiscipline == Spec => ImplementsSession
  <1>1. Init => Session!Init
    BY DEF Init, Session!Init, InNvml
  <1>2. IInv /\ [Next]_vars => [Session!Next]_<<pc \in InNvml, session>>
    <2> SUFFICES ASSUME IInv, [Next]_vars
                 PROVE  Session!Next \/ UNCHANGED <<pc \in InNvml, session>>
      OBVIOUS
    <2>1. SessionInv
      BY DEF IInv
    <2> QED BY <2>1
      DEF SessionInv, InSession, InNvml, Session!Next, Session!Enter,
          Session!Open, Session!Close, Session!Leave, Next, vars, host, Begin,
          Collect, LoadNvml, NvmlInit, NvmlCount, OpenDevice, ReadDevice,
          EndDevices, NvmlShutdown, NvmlReturn, CudaCount, CudaDevice,
          CudaDeviceFails, CudaEnd, DcgmAbsent, DcgmOpen, DcgmEnd, DcgmLine,
          Goto, DriverChanges, DeviceChanges, HostChanges
  <1> QED BY <1>1, <1>2, Invariant, PTL DEF Spec, ImplementsSession, Session!Spec

===============================================================================
